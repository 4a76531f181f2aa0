----------------------------- MODULE BlockStore2 -----------------------------
(***************************************************************************)
(* What the BlockStore2 interface promises: a map from block ids to block  *)
(* contents whose operations take effect at once.  answer[id] is what the  *)
(* last operation on id returned.                                          *)
(***************************************************************************)
CONSTANTS BlockIds, Values, NoBlock

VARIABLES content, answer

Init == /\ content \in [BlockIds -> Values \cup {NoBlock}]
        /\ answer = [id \in BlockIds |-> NoBlock]

Answers(id, a) == answer' = [answer EXCEPT ![id] = a]

tryCreate(id, v) ==
    /\ Answers(id, content[id] = NoBlock)
    /\ content' = [content EXCEPT ![id] = IF @ = NoBlock THEN v ELSE @]

remove(id) ==
    /\ Answers(id, content[id] # NoBlock)
    /\ content' = [content EXCEPT ![id] = NoBlock]

load(id) == Answers(id, content[id]) /\ UNCHANGED content

store(id, v) ==
    /\ content' = [content EXCEPT ![id] = v]
    /\ UNCHANGED answer

Next == \E id \in BlockIds :
    \/ remove(id) \/ load(id)
    \/ \E v \in Values : tryCreate(id, v) \/ store(id, v)

Spec == Init /\ [][Next]_<<content, answer>>
=============================================================================
