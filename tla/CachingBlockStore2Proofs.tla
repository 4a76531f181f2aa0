---------------------- MODULE CachingBlockStore2Proofs ----------------------
(***************************************************************************)
(* CachingBlockStore2 for any blocks, contents, cache size and number of   *)
(* purging threads: if no entry is purged between push and the note that   *)
(* the base store lacks it, clients see the plain map of BlockStore2.      *)
(***************************************************************************)
EXTENDS CachingBlockStore2, FiniteSetTheorems, TLAPS

DistinctIds(q) == \A i, j \in DOMAIN q : q[i].id = q[j].id => i = j

\* no entry of the queue is one of id
NotCached(id) == \A b \in Range(queue) : b.id # id

\* no worker is destructing an object of id
NotFlushing(id) == \A w \in Workers : victim[w] # NoBlock => victim[w].id # id

\* what an operation in progress relies on
OpFacts ==
    \A id \in BlockIds : op[id] # NoBlock =>
        /\ op[id].block # NoBlock => op[id].block.id = id
        /\ op[id].kind \in {"tryCreate", "store"} => op[id].value \in Values
        /\ op[id].step \in {"popped", "pushing"} => NotCached(id) /\ NotFlushing(id)
        /\ op[id].step = "pushing" => op[id].block # NoBlock
        /\ op[id].step = "inserting" => op[id].block = NoBlock /\ ~NotCached(id)
        /\ op[id].step \in {"pushing", "inserting"} /\ op[id].kind = "tryCreate" => answer[id] \in BOOLEAN
        /\ op[id].step = "inserting" => op[id].kind = "tryCreate" /\ answer[id]

\* what is being destructed has left the queue, and is destructed by one worker
VictimFacts ==
    \A w \in Workers : victim[w] # NoBlock =>
        /\ NotCached(victim[w].id)
        /\ \A x \in Workers : victim[x] # NoBlock /\ victim[x].id = victim[w].id => x = w

Structure == TypeOK /\ DistinctIds(queue) /\ OpFacts /\ VictimFacts

\* tryCreate has made the block and has not noted yet that the base store lacks it
Creating(id) ==
    /\ op[id] # NoBlock /\ op[id].kind = "tryCreate"
    /\ op[id].step \in {"pushing", "inserting"} /\ answer[id]

\* ObjectsOf(id) for a queue q, operations o and victims x
Objects(q, o, x, id) ==
    {b \in Range(q) : b.id = id}
    \cup (IF o[id] = NoBlock THEN {} ELSE {o[id].block} \ {NoBlock})
    \cup {x[w] : w \in {w \in Workers : x[w] # NoBlock /\ x[w].id = id}}

\* the content of a block with the objects B, of which the base store has v
ValueOf(B, v) == IF B = {} THEN v ELSE (CHOOSE b \in B : TRUE).value

\* what the objects and _cachedBlocksNotInBaseStore say about the base store
BaseFactsOf(id) ==
    /\ \A b \in Objects(queue, op, victim, id) : ~b.dirty => base[id] = b.value
    /\ id \in notInBase => Objects(queue, op, victim, id) # {}
    /\ id \in notInBase /\ base[id] # NoBlock => ~NotFlushing(id)
    /\ Objects(queue, op, victim, id) # {} /\ id \notin notInBase /\ base[id] = NoBlock => Creating(id)
    /\ Creating(id) => base[id] = NoBlock
    /\ At(id, "popped", {"tryCreate"}) /\ op[id].block = NoBlock => base[id] = NoBlock

BaseFacts == \A id \in BlockIds : BaseFactsOf(id)

CInv == Structure /\ BaseFacts

----------------------------------------------------------------------------
\* QueueMap::pop(key) takes one entry out and leaves the others.
LEMMA PopAtTakesOne ==
    ASSUME NEW q \in Seq(CachedBlock), DistinctIds(q), NEW i \in DOMAIN q
    PROVE  /\ PopAt(q, i) \in Seq(CachedBlock) /\ Len(PopAt(q, i)) = Len(q) - 1
           /\ DistinctIds(PopAt(q, i))
           /\ Range(PopAt(q, i)) = Range(q) \ {q[i]}
           /\ \A b \in Range(PopAt(q, i)) : b.id # q[i].id
<1> DEFINE p == PopAt(q, i)
<1>1. i \in 1..Len(q) /\ Len(q) \in Nat /\ \A j \in 1..Len(q) : q[j] \in CachedBlock
  OBVIOUS
<1>2. p \in Seq(CachedBlock) /\ Len(p) = Len(q) - 1 /\ DOMAIN p = 1..Len(q) - 1
  BY <1>1 DEF PopAt
<1>3. \A j \in DOMAIN p : p[j] = IF j < i THEN q[j] ELSE q[j + 1]
  BY <1>1, Zenon DEF PopAt
<1> HIDE DEF p
<1>4. DistinctIds(p)
  <2> SUFFICES ASSUME NEW j \in DOMAIN p, NEW k \in DOMAIN p, p[j].id = p[k].id PROVE j = k
    BY Zenon DEF DistinctIds
  <2> DEFINE m(x) == IF x < i THEN x ELSE x + 1
  <2>1. m(j) \in DOMAIN q /\ m(k) \in DOMAIN q /\ p[j] = q[m(j)] /\ p[k] = q[m(k)]
    BY <1>1, <1>2, <1>3
  <2>2. m(j) = m(k)
    BY <2>1, Zenon DEF DistinctIds
  <2> QED
    BY <1>1, <1>2, <2>2
<1>5. ASSUME NEW j \in DOMAIN p PROVE p[j] \in Range(q) /\ p[j].id # q[i].id
  BY <1>1, <1>2, <1>3 DEF DistinctIds, Range
<1>6. ASSUME NEW j \in DOMAIN q, j # i PROVE q[j] \in Range(p)
  <2>1. CASE j < i
    <3>1. j \in DOMAIN p /\ p[j] = q[j]
      BY <1>1, <1>2, <1>3, <2>1
    <3> QED
      BY <3>1, Zenon DEF Range
  <2>2. CASE j > i
    <3>1. j - 1 \in DOMAIN p /\ p[j - 1] = q[j]
      BY <1>1, <1>2, <1>3, <2>2
    <3> QED
      BY <3>1, Zenon DEF Range
  <2> QED
    BY <1>1, <1>6, <2>1, <2>2
<1>7. Range(p) = Range(q) \ {q[i]} /\ \A b \in Range(p) : b.id # q[i].id
  BY <1>5, <1>6, Zenon DEF Range
<1> QED
  BY <1>2, <1>4, <1>7, Zenon DEF p

\* push puts one entry at the end.
LEMMA AppendAddsOne ==
    ASSUME NEW q \in Seq(CachedBlock), DistinctIds(q), NEW b \in CachedBlock,
           \A c \in Range(q) : c.id # b.id
    PROVE  /\ Append(q, b) \in Seq(CachedBlock) /\ Len(Append(q, b)) = Len(q) + 1
           /\ DistinctIds(Append(q, b))
           /\ Range(Append(q, b)) = Range(q) \cup {b}
<1> DEFINE p == Append(q, b)
<1>1. p \in Seq(CachedBlock) /\ Len(p) = Len(q) + 1 /\ DOMAIN p = 1..Len(q) + 1 /\ DOMAIN q = 1..Len(q) /\ Len(q) \in Nat
  OBVIOUS
<1>2. p[Len(q) + 1] = b /\ \A j \in 1..Len(q) : p[j] = q[j]
  OBVIOUS
<1>3. \A j \in 1..Len(q) : q[j].id # b.id
  BY <1>1, Zenon DEF Range
<1> HIDE DEF p
<1>4. DistinctIds(p)
  BY <1>1, <1>2, <1>3 DEF DistinctIds
<1>5. Range(p) = Range(q) \cup {b}
  BY <1>1, <1>2 DEF Range
<1> QED
  BY <1>1, <1>4, <1>5, Zenon DEF p

\* _deleteEntry takes the oldest entry.
LEMMA TailDropsHead ==
    ASSUME NEW q \in Seq(CachedBlock), DistinctIds(q), q # <<>>
    PROVE  /\ Head(q) \in Range(q) /\ Head(q) \in CachedBlock
           /\ Tail(q) \in Seq(CachedBlock) /\ Len(Tail(q)) = Len(q) - 1
           /\ DistinctIds(Tail(q))
           /\ Range(Tail(q)) = Range(q) \ {Head(q)}
           /\ \A b \in Range(Tail(q)) : b.id # Head(q).id
<1> DEFINE p == Tail(q)
<1>1. /\ p \in Seq(CachedBlock) /\ Len(p) = Len(q) - 1 /\ DOMAIN p = 1..Len(q) - 1
      /\ DOMAIN q = 1..Len(q) /\ Len(q) \in Nat /\ Len(q) > 0
  OBVIOUS
<1>2. Head(q) = q[1] /\ \A j \in 1..Len(q) - 1 : p[j] = q[j + 1]
  OBVIOUS
<1>3. Head(q) \in Range(q) /\ Head(q) \in CachedBlock
  BY <1>1, <1>2 DEF Range
<1> HIDE DEF p
<1>4. DistinctIds(p)
  <2> SUFFICES ASSUME NEW j \in DOMAIN p, NEW k \in DOMAIN p, p[j].id = p[k].id PROVE j = k
    BY Zenon DEF DistinctIds
  <2>1. j + 1 \in DOMAIN q /\ k + 1 \in DOMAIN q /\ p[j] = q[j + 1] /\ p[k] = q[k + 1]
    BY <1>1, <1>2
  <2>2. j + 1 = k + 1
    BY <2>1, Zenon DEF DistinctIds
  <2> QED
    BY <1>1, <2>2
<1>5. ASSUME NEW j \in DOMAIN p PROVE p[j] \in Range(q) /\ p[j].id # Head(q).id
  BY <1>1, <1>2 DEF DistinctIds, Range
<1>6. ASSUME NEW j \in DOMAIN q, j # 1 PROVE q[j] \in Range(p)
  <2>1. j - 1 \in DOMAIN p /\ p[j - 1] = q[j]
    BY <1>1, <1>2, <1>6
  <2> QED
    BY <2>1, Zenon DEF Range
<1>7. Range(p) = Range(q) \ {Head(q)} /\ \A b \in Range(p) : b.id # Head(q).id
  BY <1>1, <1>2, <1>5, <1>6, Zenon DEF Range
<1> QED
  BY <1>1, <1>3, <1>4, <1>7, Zenon DEF p

\* Who holds an object of id.
LEMMA Holders ==
    ASSUME NEW q, NEW o, NEW x, NEW id
    PROVE  \A b : b \in Objects(q, o, x, id) <=>
                \/ b \in Range(q) /\ b.id = id
                \/ o[id] # NoBlock /\ b = o[id].block /\ b # NoBlock
                \/ \E w \in Workers : b = x[w] /\ b # NoBlock /\ b.id = id
  BY Zenon DEF Objects

LEMMA CachedAndFlushing ==
    ASSUME NEW id
    PROVE  /\ Cached(id) = {} <=> NotCached(id)
           /\ id \notin Flushing <=> NotFlushing(id)
  BY Zenon DEF Cached, NotCached, Flushing, NotFlushing

\* Content, now and after a step, in terms of Objects.
LEMMA ContentIsValue ==
    /\ Content = [id \in BlockIds |-> ValueOf(Objects(queue, op, victim, id), base[id])]
    /\ Content' = [id \in BlockIds |-> ValueOf(Objects(queue', op', victim', id), base'[id])]
  BY Zenon DEF Content, ObjectsOf, Cached, Objects, ValueOf

LEMMA ContentAt ==
    ASSUME NEW id \in BlockIds
    PROVE  /\ Content[id] = ValueOf(Objects(queue, op, victim, id), base[id])
           /\ Content'[id] = ValueOf(Objects(queue', op', victim', id), base'[id])
  BY ContentIsValue, Zenon

\* There is at most one object of a block.
LEMMA OneObject ==
    ASSUME Structure, NEW id \in BlockIds
    PROVE  /\ \A b, c \in Objects(queue, op, victim, id) : b = c
           /\ \A b \in Objects(queue, op, victim, id) : b \in CachedBlock /\ b.id = id
<1>u. TypeOK /\ DistinctIds(queue) /\ OpFacts /\ VictimFacts
  BY Zenon DEF Structure
<1>1. \A b \in Range(queue) : b \in CachedBlock
  BY <1>u DEF TypeOK, Range
<1>2. ASSUME NEW b \in Objects(queue, op, victim, id), NEW c \in Objects(queue, op, victim, id) PROVE b = c
  <2>1. \A x, y \in Range(queue) : x.id = y.id => x = y
    BY <1>u, Zenon DEF DistinctIds, Range
  <2> QED
    BY <1>u, <2>1, Holders DEF OpFacts, VictimFacts, NotCached, NotFlushing, TypeOK, Operation
<1>3. ASSUME NEW b \in Objects(queue, op, victim, id) PROVE b \in CachedBlock /\ b.id = id
  BY <1>u, <1>1, Holders DEF OpFacts, TypeOK, Operation
<1> QED
  BY <1>2, <1>3, Zenon

\* The content of a block is the value of its one object, or what is in the base store.
LEMMA ValueOfOne ==
    /\ \A v : ValueOf({}, v) = v
    /\ \A b, v : ValueOf({b}, v) = b.value
  BY Zenon DEF ValueOf

----------------------------------------------------------------------------
\* What an operation has in its hands after it began, went on to push, or returned.
LEMMA BeginOp ==
    ASSUME TypeOK, NEW id \in BlockIds, NEW kind \in Kinds, NEW v \in Values \cup {NoBlock},
           NEW b \in CachedBlock \cup {NoBlock}, Begin(id, kind, v, b)
    PROVE  /\ op' \in [BlockIds -> Operation \cup {NoBlock}] /\ op'[id] # NoBlock
           /\ op'[id].step = "popped" /\ op'[id].kind = kind /\ op'[id].value = v /\ op'[id].block = b
           /\ \A j \in BlockIds \ {id} : op'[j] = op[j]
<1> DEFINE o == [step |-> "popped", kind |-> kind, value |-> v, block |-> b]
<1>1. o \in Operation /\ o # NoBlock
  BY CachingAssumption DEF Operation
<1> QED
  BY <1>1, Zenon DEF TypeOK, Begin

LEMMA KeepOp ==
    ASSUME TypeOK, NEW id \in BlockIds, op[id] # NoBlock, NEW b \in CachedBlock, Keep(id, b)
    PROVE  /\ op' \in [BlockIds -> Operation \cup {NoBlock}] /\ op'[id] # NoBlock
           /\ op'[id].step = "pushing" /\ op'[id].kind = op[id].kind /\ op'[id].value = op[id].value
           /\ op'[id].block = b
           /\ \A j \in BlockIds \ {id} : op'[j] = op[j]
<1> DEFINE o == [op[id] EXCEPT !.step = "pushing", !.block = b]
<1>1. op[id] \in Operation
  BY Zenon DEF TypeOK
<1>2. o \in Operation /\ o # NoBlock
  BY Zenon, <1>1, CachingAssumption DEF Operation
<1>3. o.step = "pushing" /\ o.kind = op[id].kind /\ o.value = op[id].value /\ o.block = b
  BY <1>1, Zenon DEF Operation
<1>4. op' = [op EXCEPT ![id] = o]
  BY Zenon, <1>1 DEF Keep, TypeOK
<1> QED
  BY <1>2, <1>3, <1>4, Zenon DEF TypeOK

LEMMA ReturnOp ==
    ASSUME TypeOK, NEW id \in BlockIds, Return(id)
    PROVE  /\ op' \in [BlockIds -> Operation \cup {NoBlock}] /\ op'[id] = NoBlock
           /\ \A j \in BlockIds \ {id} : op'[j] = op[j]
  BY Zenon DEF TypeOK, Return

\* A step that changes the object and the base store of id only changes its content only.
LEMMA ContentElsewhere ==
    ASSUME NEW id \in BlockIds, NEW v,
           \A j \in BlockIds \ {id} : /\ Objects(queue', op', victim', j) = Objects(queue, op, victim, j)
                                      /\ base'[j] = base[j],
           ValueOf(Objects(queue', op', victim', id), base'[id]) = v
    PROVE  Content' = [Content EXCEPT ![id] = v]
  BY ContentIsValue, Zenon

\* A step that changes neither objects nor base store does not change the content.
LEMMA ContentStays ==
    ASSUME \A j \in BlockIds : Objects(queue', op', victim', j) = Objects(queue, op, victim, j), base' = base
    PROVE  Content' = Content
  BY ContentIsValue, Zenon

----------------------------------------------------------------------------
\* pop moves the object of the block, if there is one, from the queue into the operation.
LEMMA PopKeeps ==
    ASSUME CInv, NEW id \in BlockIds, NEW r \in Requests, Pop(id, r[1], r[2])
    PROVE  CInv' /\ Content' = Content /\ answer' = answer
<1>u. Structure /\ TypeOK /\ DistinctIds(queue) /\ OpFacts /\ VictimFacts /\ BaseFacts
  BY Zenon DEF CInv, Structure
<1>1. PICK b \in CachedBlock \cup {NoBlock} :
          /\ Begin(id, r[1], r[2], b)
          /\ \/ b = NoBlock /\ NotCached(id) /\ queue' = queue
             \/ b # NoBlock /\ \E i \in DOMAIN queue : b = queue[i] /\ b.id = id /\ queue' = PopAt(queue, i)
  <2>1. \A i \in DOMAIN queue : queue[i] \in CachedBlock /\ queue[i] # NoBlock
    BY <1>u, CachingAssumption DEF TypeOK
  <2> QED
    BY <2>1, CachedAndFlushing, Zenon DEF Pop
<1>2. /\ queue' \in Seq(CachedBlock) /\ Len(queue') <= MaxEntries /\ DistinctIds(queue')
      /\ Range(queue') = Range(queue) \ {b} /\ \A c \in Range(queue') : c.id # id
      /\ b # NoBlock => b \in Range(queue) /\ b.id = id
      /\ b = NoBlock => Range(queue') = Range(queue)
  <2>1. CASE b = NoBlock
    <3>1. NoBlock \notin Range(queue)
      BY <1>u, CachingAssumption DEF TypeOK, Range
    <3> QED
      BY <1>u, <1>1, <2>1, <3>1, Zenon DEF TypeOK, NotCached
  <2>2. CASE b # NoBlock
    <3>1. PICK i \in DOMAIN queue : b = queue[i] /\ b.id = id /\ queue' = PopAt(queue, i)
      BY <1>1, <2>2, Zenon
    <3>2. b \in Range(queue) /\ queue \in Seq(CachedBlock) /\ Len(queue) <= MaxEntries /\ MaxEntries \in Nat
      BY <1>u, <3>1, CachingAssumption, Zenon DEF Range, TypeOK
    <3> QED
      BY <1>u, <2>2, <3>1, <3>2, PopAtTakesOne
  <2> QED
    BY <2>1, <2>2, Zenon
<1>3. /\ r[1] \in Kinds /\ r[2] \in Values \cup {NoBlock}
      /\ r[1] \in {"tryCreate", "store"} => r[2] \in Values
  BY Zenon DEF Requests, Kinds
<1>4. /\ op' \in [BlockIds -> Operation \cup {NoBlock}] /\ op'[id] # NoBlock
      /\ op'[id].step = "popped" /\ op'[id].kind = r[1] /\ op'[id].value = r[2] /\ op'[id].block = b
      /\ \A j \in BlockIds \ {id} : op'[j] = op[j]
  BY Zenon, <1>u, <1>1, <1>3, BeginOp
<1>5. op[id] = NoBlock /\ NotFlushing(id) /\ base' = base /\ notInBase' = notInBase /\ victim' = victim /\ answer' = answer
  BY CachedAndFlushing, Zenon DEF Pop
<1>6. \A j \in BlockIds : Objects(queue', op', victim', j) = Objects(queue, op, victim, j)
  <2> SUFFICES ASSUME NEW j \in BlockIds, NEW c
               PROVE  c \in Objects(queue', op', victim', j) <=> c \in Objects(queue, op, victim, j)
    BY Zenon
  <2>1. CASE j = id
    BY <1>2, <1>4, <1>5, <2>1, Holders
  <2>2. CASE j # id
    BY <1>2, <1>4, <1>5, <2>2, Holders
  <2> QED
    BY <2>1, <2>2, Zenon
<1>7. \A j \in BlockIds \ {id} : NotCached(j)' <=> NotCached(j)
  BY <1>2, Zenon DEF NotCached
<1>a. TypeOK'
  BY <1>u, <1>2, <1>4, <1>5, Zenon DEF TypeOK
<1>b. OpFacts'
  BY <1>u, <1>2, <1>3, <1>4, <1>5, <1>7 DEF OpFacts, NotCached, NotFlushing
<1>c. VictimFacts'
  BY <1>u, <1>2, <1>5, Zenon DEF VictimFacts, NotCached
<1>d. BaseFacts'
  <2>1. r[1] = "tryCreate" /\ b = NoBlock => base[id] = NoBlock
    BY <1>1, CachedAndFlushing, Zenon DEF Pop
  <2> QED
    BY <1>u, <1>4, <1>5, <1>6, <2>1 DEF BaseFacts, BaseFactsOf, Creating, At, NotFlushing
<1> QED
  BY <1>2, <1>5, <1>6, <1>a, <1>b, <1>c, <1>d, ContentStays, Zenon DEF CInv, Structure

\* Between pop and push the operation has the only object of its block.
LEMMA PoppedHasAll ==
    ASSUME Structure, NEW id \in BlockIds, op[id] # NoBlock, op[id].step = "popped"
    PROVE  /\ op[id].block = NoBlock => Objects(queue, op, victim, id) = {}
           /\ op[id].block # NoBlock => /\ Objects(queue, op, victim, id) = {op[id].block}
                                        /\ op[id].block \in CachedBlock /\ op[id].block.id = id
<1>u. TypeOK /\ DistinctIds(queue) /\ OpFacts /\ VictimFacts
  BY Zenon DEF Structure
<1>1. NotCached(id) /\ NotFlushing(id) /\ (op[id].block # NoBlock => op[id].block.id = id)
  BY <1>u, Zenon DEF OpFacts
<1>2. \A b : b \in Objects(queue, op, victim, id) <=> b = op[id].block /\ b # NoBlock
  BY <1>1, Holders DEF NotCached, NotFlushing
<1>3. op[id].block # NoBlock => op[id].block \in CachedBlock
  BY <1>u, Zenon DEF TypeOK, Operation
<1> QED
  BY <1>1, <1>2, <1>3

\* An operation that goes on to push has made its block the only object.
LEMMA AfterKeep ==
    ASSUME Structure, NEW id \in BlockIds, op[id] # NoBlock, op[id].step = "popped",
           NEW b \in CachedBlock, b.id = id, Keep(id, b), queue' = queue, victim' = victim,
           base' \in [BlockIds -> Values \cup {NoBlock}], notInBase' = notInBase,
           answer' \in [BlockIds -> Values \cup BOOLEAN \cup {NoBlock, Thrown}],
           op[id].kind = "tryCreate" => answer'[id] \in BOOLEAN,
           \A j \in BlockIds \ {id} : answer'[j] = answer[j]
    PROVE  /\ Structure'
           /\ Objects(queue', op', victim', id) = {b}
           /\ \A j \in BlockIds \ {id} : Objects(queue', op', victim', j) = Objects(queue, op, victim, j)
<1>u. TypeOK /\ DistinctIds(queue) /\ OpFacts /\ VictimFacts
  BY Zenon DEF Structure
<1>1. /\ op' \in [BlockIds -> Operation \cup {NoBlock}] /\ op'[id] # NoBlock
      /\ op'[id].step = "pushing" /\ op'[id].kind = op[id].kind /\ op'[id].value = op[id].value
      /\ op'[id].block = b
      /\ \A j \in BlockIds \ {id} : op'[j] = op[j]
  BY <1>u, KeepOp, Zenon
<1>2. b # NoBlock /\ NotCached(id) /\ NotFlushing(id)
  BY <1>u, CachingAssumption, Zenon DEF OpFacts
<1>3. TypeOK' /\ DistinctIds(queue')
  BY <1>u, <1>1, Zenon DEF TypeOK
<1>4. OpFacts'
  BY <1>u, <1>1, <1>2 DEF OpFacts, NotCached, NotFlushing
<1>5. VictimFacts'
  BY <1>u, Zenon DEF VictimFacts, NotCached
<1>6. Objects(queue', op', victim', id) = {b}
  <2>1. \A c : c \in Objects(queue', op', victim', id) <=> c = b
    BY <1>1, <1>2, Holders DEF NotCached, NotFlushing
  <2> QED
    BY <2>1, Zenon
<1>7. ASSUME NEW j \in BlockIds \ {id} PROVE Objects(queue', op', victim', j) = Objects(queue, op, victim, j)
  BY <1>1 DEF Objects
<1> QED
  BY <1>3, <1>4, <1>5, <1>6, <1>7, Zenon DEF Structure

\* An operation that returns between pop and push leaves no object behind.
LEMMA AfterReturn ==
    ASSUME Structure, NEW id \in BlockIds, op[id] # NoBlock, op[id].step = "popped",
           Return(id), queue' = queue, victim' = victim,
           base' \in [BlockIds -> Values \cup {NoBlock}], notInBase' \subseteq BlockIds,
           answer' \in [BlockIds -> Values \cup BOOLEAN \cup {NoBlock, Thrown}],
           \A j \in BlockIds \ {id} : answer'[j] = answer[j]
    PROVE  /\ Structure'
           /\ Objects(queue', op', victim', id) = {}
           /\ \A j \in BlockIds \ {id} : Objects(queue', op', victim', j) = Objects(queue, op, victim, j)
<1>u. TypeOK /\ DistinctIds(queue) /\ OpFacts /\ VictimFacts
  BY Zenon DEF Structure
<1>1. /\ op' \in [BlockIds -> Operation \cup {NoBlock}] /\ op'[id] = NoBlock
      /\ \A j \in BlockIds \ {id} : op'[j] = op[j]
  BY <1>u, ReturnOp, Zenon
<1>2. NotCached(id) /\ NotFlushing(id)
  BY <1>u, Zenon DEF OpFacts
<1>3. TypeOK' /\ DistinctIds(queue')
  BY <1>u, <1>1, Zenon DEF TypeOK
<1>4. OpFacts'
  BY <1>u, <1>1 DEF OpFacts, NotCached, NotFlushing
<1>5. VictimFacts'
  BY <1>u, Zenon DEF VictimFacts, NotCached
<1>6. Objects(queue', op', victim', id) = {}
  <2>1. \A c : c \notin Objects(queue', op', victim', id)
    BY <1>1, <1>2, Holders DEF NotCached, NotFlushing
  <2> QED
    BY <2>1, Zenon
<1>7. ASSUME NEW j \in BlockIds \ {id} PROVE Objects(queue', op', victim', j) = Objects(queue, op, victim, j)
  BY <1>1 DEF Objects
<1> QED
  BY <1>3, <1>4, <1>5, <1>6, <1>7, Zenon DEF Structure



\* What is known of the base store stays true of a block that a step leaves alone.
LEMMA LeftAlone ==
    ASSUME NEW j \in BlockIds, BaseFactsOf(j), op'[j] = op[j], answer'[j] = answer[j], base'[j] = base[j],
           Objects(queue', op', victim', j) = Objects(queue, op, victim, j),
           j \in notInBase' <=> j \in notInBase, NotFlushing(j) => NotFlushing(j)', NotFlushing(j)' => NotFlushing(j)
    PROVE  BaseFactsOf(j)'
  BY Zenon DEF BaseFactsOf, Creating, At

\* tryCreate makes the block if there is none.
LEMMA TryCreateKeeps ==
    ASSUME CInv, NEW id \in BlockIds, TryCreate(id)
    PROVE  CInv' /\ \E v \in Values : Store2!tryCreate(id, v)
<1>u. Structure /\ BaseFacts
  BY Zenon DEF CInv
<1>1. /\ op[id] # NoBlock /\ op[id].step = "popped" /\ op[id].kind = "tryCreate" /\ op[id].value \in Values
      /\ base' = base /\ queue' = queue /\ notInBase' = notInBase /\ victim' = victim
  BY <1>u, Zenon DEF TryCreate, At, Structure, OpFacts
<1> DEFINE b == IF op[id].block = NoBlock THEN Block(id, op[id].value, TRUE) ELSE op[id].block
<1>2. b \in CachedBlock /\ b.id = id /\ Keep(id, b)
  BY <1>u, <1>1, PoppedHasAll, Zenon DEF TryCreate, Block, CachedBlock
<1>3. /\ answer' \in [BlockIds -> Values \cup BOOLEAN \cup {NoBlock, Thrown}]
      /\ answer'[id] = (op[id].block = NoBlock) /\ \A j \in BlockIds \ {id} : answer'[j] = answer[j]
  BY <1>u, Zenon DEF TryCreate, Answers, Structure, TypeOK
<1>4. /\ op'[id] # NoBlock /\ op'[id].step = "pushing" /\ op'[id].kind = "tryCreate" /\ op'[id].block = b
      /\ \A j \in BlockIds \ {id} : op'[j] = op[j]
  BY Zenon, <1>u, <1>1, <1>2, KeepOp DEF Structure
<1>5. /\ op[id].block = NoBlock => b.dirty /\ b.value = op[id].value
      /\ op[id].block # NoBlock => b = op[id].block
  BY Zenon DEF Block
<1> HIDE DEF b
<1>6. /\ Structure' /\ Objects(queue', op', victim', id) = {b}
      /\ \A j \in BlockIds \ {id} : Objects(queue', op', victim', j) = Objects(queue, op, victim, j)
  <2>1. base \in [BlockIds -> Values \cup {NoBlock}]
    BY <1>u, Zenon DEF Structure, TypeOK
  <2>2. answer'[id] \in BOOLEAN
    BY <1>3, Zenon
  <2> QED
    BY Zenon, <1>u, <1>1, <1>2, <1>3, <2>1, <2>2, AfterKeep
<1>7. BaseFactsOf(id) /\ NotFlushing(id)
  BY <1>u, <1>1, Zenon DEF BaseFacts, Structure, OpFacts
<1>8. BaseFactsOf(id)'
  <2>1. CASE op[id].block = NoBlock
    BY Zenon, <1>u, <1>1, <1>3, <1>4, <1>5, <1>6, <1>7, <2>1, PoppedHasAll DEF BaseFactsOf, Creating, At
  <2>2. CASE op[id].block # NoBlock
    BY Zenon, <1>u, <1>1, <1>3, <1>4, <1>5, <1>6, <1>7, <2>2, PoppedHasAll DEF BaseFactsOf, Creating, At
  <2> QED
    BY <2>1, <2>2, Zenon
<1>9. BaseFacts'
  <2>1. ASSUME NEW j \in BlockIds \ {id} PROVE BaseFactsOf(j)'
    BY <1>u, <1>1, <1>3, <1>4, <1>6, LeftAlone, Zenon DEF BaseFacts, NotFlushing
  <2> QED
    BY <1>u, <1>8, <2>1, Zenon DEF BaseFacts
<1>10. /\ Content[id] = NoBlock <=> op[id].block = NoBlock
       /\ op[id].block # NoBlock => Content[id] = op[id].block.value
  <2>1. CASE op[id].block = NoBlock
    BY Zenon, <1>u, <1>1, <1>7, <2>1, PoppedHasAll, ContentIsValue, ValueOfOne DEF BaseFactsOf, At
  <2>2. CASE op[id].block # NoBlock
    <3>1. op[id].block.value # NoBlock
      BY <1>u, <1>1, <2>2, PoppedHasAll, CachingAssumption, Zenon DEF CachedBlock
    <3> QED
      BY <1>u, <1>1, <2>2, <3>1, PoppedHasAll, ContentIsValue, ValueOfOne, Zenon
  <2> QED
    BY <2>1, <2>2, Zenon
<1>11. Content' = [Content EXCEPT ![id] = b.value]
  <2>1. ValueOf(Objects(queue', op', victim', id), base'[id]) = b.value
    BY <1>6, ValueOfOne, Zenon
  <2> QED
    BY <1>1, <1>6, <2>1, ContentElsewhere, Zenon
<1>12. Store2!tryCreate(id, op[id].value)
  <2>1. b.value = IF Content[id] = NoBlock THEN op[id].value ELSE Content[id]
    BY <1>5, <1>10, Zenon
  <2>2. answer' = [answer EXCEPT ![id] = (Content[id] = NoBlock)]
    BY Zenon, <1>10 DEF TryCreate, Answers
  <2> QED
    BY <1>11, <2>1, <2>2, Zenon DEF Store2!tryCreate, Store2!Answers
<1> QED
  BY <1>1, <1>6, <1>9, <1>12, Zenon DEF CInv

\* remove leaves neither an object nor a block in the base store, and never throws.
LEMMA RemoveKeeps ==
    ASSUME CInv, NEW id \in BlockIds, Remove(id)
    PROVE  CInv' /\ Store2!remove(id)
<1>u. Structure /\ BaseFacts
  BY Zenon DEF CInv
<1>1. /\ op[id] # NoBlock /\ op[id].step = "popped" /\ op[id].kind = "remove"
      /\ queue' = queue /\ victim' = victim /\ Return(id)
      /\ notInBase' = notInBase \ (IF op[id].block = NoBlock THEN {} ELSE {id})
  BY Zenon DEF Remove, At
<1>2. BaseFactsOf(id) /\ NotFlushing(id) /\ TypeOK
  BY <1>u, <1>1, Zenon DEF BaseFacts, Structure, OpFacts
<1>3. ~(op[id].block # NoBlock /\ id \notin notInBase /\ base[id] = NoBlock)
  BY <1>u, <1>1, <1>2, PoppedHasAll, Zenon DEF BaseFactsOf, Creating
<1>4. op[id].block # NoBlock /\ id \in notInBase => base[id] = NoBlock
  BY <1>u, <1>2, Zenon DEF BaseFactsOf
<1>5. base' = [base EXCEPT ![id] = NoBlock]
  BY Zenon, <1>u, <1>2, <1>3, <1>4 DEF Remove, TypeOK
<1>6. answer' = [answer EXCEPT ![id] = (op[id].block # NoBlock \/ base[id] # NoBlock)]
  BY Zenon, <1>3 DEF Remove, Answers
<1>7. /\ op'[id] = NoBlock /\ \A j \in BlockIds \ {id} : op'[j] = op[j]
  BY <1>u, <1>1, <1>2, ReturnOp, Zenon
<1>8. /\ base' \in [BlockIds -> Values \cup {NoBlock}] /\ base'[id] = NoBlock
      /\ \A j \in BlockIds \ {id} : base'[j] = base[j]
      /\ answer' \in [BlockIds -> Values \cup BOOLEAN \cup {NoBlock, Thrown}]
      /\ \A j \in BlockIds \ {id} : answer'[j] = answer[j]
      /\ notInBase' \subseteq BlockIds /\ \A j \in BlockIds \ {id} : j \in notInBase' <=> j \in notInBase
  BY <1>u, <1>1, <1>2, <1>5, <1>6, Zenon DEF TypeOK
<1>9. /\ Structure' /\ Objects(queue', op', victim', id) = {}
      /\ \A j \in BlockIds \ {id} : Objects(queue', op', victim', j) = Objects(queue, op, victim, j)
  BY <1>u, <1>1, <1>8, AfterReturn, Zenon
<1>10. BaseFactsOf(id)'
  <2>1. id \notin notInBase'
    BY <1>u, <1>1, <1>2, PoppedHasAll, Zenon DEF BaseFactsOf
  <2> QED
    BY <1>u, <1>7, <1>8, <1>9, <2>1, Zenon DEF BaseFactsOf, Creating, At
<1>11. BaseFacts'
  <2>1. ASSUME NEW j \in BlockIds \ {id} PROVE BaseFactsOf(j)'
    BY <1>u, <1>1, <1>7, <1>8, <1>9, LeftAlone, Zenon DEF BaseFacts, NotFlushing
  <2> QED
    BY <1>u, <1>10, <2>1, Zenon DEF BaseFacts
<1>12. Content[id] # NoBlock <=> op[id].block # NoBlock \/ base[id] # NoBlock
  <2>1. CASE op[id].block = NoBlock
    BY Zenon, <1>u, <1>1, <2>1, PoppedHasAll, ContentIsValue, ValueOfOne
  <2>2. CASE op[id].block # NoBlock
    <3>1. op[id].block.value # NoBlock
      BY <1>u, <1>1, <2>2, PoppedHasAll, CachingAssumption, Zenon DEF CachedBlock
    <3> QED
      BY <1>u, <1>1, <2>2, <3>1, PoppedHasAll, ContentIsValue, ValueOfOne, Zenon
  <2> QED
    BY <2>1, <2>2, Zenon
<1>13. Content' = [Content EXCEPT ![id] = NoBlock]
  <2>1. ValueOf(Objects(queue', op', victim', id), base'[id]) = NoBlock
    BY <1>8, <1>9, ValueOfOne, Zenon
  <2> QED
    BY <1>8, <1>9, <2>1, ContentElsewhere, Zenon
<1>14. Store2!remove(id)
  BY Zenon, <1>6, <1>12, <1>13 DEF Store2!remove, Store2!Answers
<1> QED
  BY <1>9, <1>11, <1>14, Zenon DEF CInv

\* load answers with the content, and keeps what it read from the base store as a clean object.
LEMMA LoadKeeps ==
    ASSUME CInv, NEW id \in BlockIds, Load(id)
    PROVE  CInv' /\ Store2!load(id)
<1>u. Structure /\ BaseFacts
  BY Zenon DEF CInv
<1>1. /\ op[id] # NoBlock /\ op[id].step = "popped" /\ op[id].kind = "load"
      /\ base' = base /\ queue' = queue /\ notInBase' = notInBase /\ victim' = victim
  BY Zenon DEF Load, At
<1>2. BaseFactsOf(id) /\ NotFlushing(id) /\ TypeOK
  BY <1>u, <1>1, Zenon DEF BaseFacts, Structure, OpFacts
<1> DEFINE b == IF op[id].block = NoBlock /\ base[id] # NoBlock THEN Block(id, base[id], FALSE) ELSE op[id].block
<1>3. IF b = NoBlock THEN Answers(id, NoBlock) /\ Return(id) ELSE Answers(id, b.value) /\ Keep(id, b)
  BY Zenon DEF Load
<1>4. b # NoBlock => b \in CachedBlock /\ b.id = id
  BY <1>u, <1>1, <1>2, PoppedHasAll, Zenon DEF Block, CachedBlock, TypeOK
<1>5. /\ b = NoBlock => op[id].block = NoBlock /\ base[id] = NoBlock
      /\ b # NoBlock /\ op[id].block = NoBlock => base[id] # NoBlock /\ b.value = base[id] /\ ~b.dirty
      /\ op[id].block # NoBlock => b = op[id].block
  <2>1. Block(id, base[id], FALSE).value = base[id] /\ ~Block(id, base[id], FALSE).dirty
    BY Zenon DEF Block
  <2>2. base[id] # NoBlock => Block(id, base[id], FALSE) # NoBlock
    <3>1. base[id] # NoBlock => Block(id, base[id], FALSE) \in CachedBlock
      BY <1>u, <1>2, Zenon DEF Block, CachedBlock, TypeOK
    <3> QED
      BY Zenon, <1>u, <3>1, CachingAssumption
  <2> QED
    BY Zenon, <2>1, <2>2
<1>6. Content[id] = IF b = NoBlock THEN NoBlock ELSE b.value
  BY Zenon, <1>u, <1>1, <1>5, PoppedHasAll, ContentIsValue, ValueOfOne
<1> HIDE DEF b
<1>7. answer' = [answer EXCEPT ![id] = Content[id]]
  BY <1>3, <1>6, Zenon DEF Answers
<1>8. /\ answer' \in [BlockIds -> Values \cup BOOLEAN \cup {NoBlock, Thrown}]
      /\ \A j \in BlockIds \ {id} : answer'[j] = answer[j]
      /\ base' \in [BlockIds -> Values \cup {NoBlock}] /\ notInBase' \subseteq BlockIds
  BY <1>u, <1>1, <1>2, <1>4, <1>6, <1>7, Zenon DEF TypeOK, CachedBlock
<1>9. /\ Structure'
      /\ b = NoBlock => op'[id] = NoBlock /\ Objects(queue', op', victim', id) = {}
      /\ b # NoBlock => /\ op'[id] # NoBlock /\ op'[id].step = "pushing" /\ op'[id].kind = "load"
                        /\ Objects(queue', op', victim', id) = {b}
      /\ \A j \in BlockIds \ {id} : op'[j] = op[j]
      /\ \A j \in BlockIds \ {id} : Objects(queue', op', victim', j) = Objects(queue, op, victim, j)
  <2>1. CASE b = NoBlock
    BY <1>u, <1>1, <1>2, <1>3, <1>8, <2>1, ReturnOp, AfterReturn, Zenon
  <2>2. CASE b # NoBlock
    BY <1>u, <1>1, <1>2, <1>3, <1>4, <1>8, <2>2, KeepOp, AfterKeep, Zenon
  <2> QED
    BY <2>1, <2>2, Zenon
<1>10. BaseFactsOf(id)'
  <2>1. CASE b = NoBlock
    BY <1>u, <1>1, <1>2, <1>5, <1>9, <2>1, PoppedHasAll, Zenon DEF BaseFactsOf, Creating, At
  <2>2. CASE b # NoBlock
    BY <1>u, <1>1, <1>2, <1>5, <1>9, <2>2, PoppedHasAll, Zenon DEF BaseFactsOf, Creating, At
  <2> QED
    BY <2>1, <2>2, Zenon
<1>11. BaseFacts'
  <2>1. ASSUME NEW j \in BlockIds \ {id} PROVE BaseFactsOf(j)'
    BY <1>u, <1>1, <1>8, <1>9, LeftAlone, Zenon DEF BaseFacts, NotFlushing
  <2> QED
    BY <1>u, <1>10, <2>1, Zenon DEF BaseFacts
<1>12. Content' = Content
  <2>1. Content'[id] = Content[id]
    <3>1. CASE b = NoBlock
      BY <1>1, <1>5, <1>6, <1>9, <3>1, ContentIsValue, ValueOfOne, Zenon
    <3>2. CASE b # NoBlock
      BY <1>6, <1>9, <3>2, ContentIsValue, ValueOfOne
    <3> QED
      BY <3>1, <3>2, Zenon
  <2> QED
    BY <1>1, <1>9, <2>1, ContentIsValue, Zenon
<1> QED
  BY <1>7, <1>9, <1>11, <1>12, Zenon DEF Store2!load, Store2!Answers, CInv

\* store changes the object, or the base store and a clean object.
LEMMA StoreKeeps ==
    ASSUME CInv, NEW id \in BlockIds, Store(id)
    PROVE  CInv' /\ \E v \in Values : Store2!store(id, v)
<1>u. Structure /\ BaseFacts
  BY Zenon DEF CInv
<1>1. /\ op[id] # NoBlock /\ op[id].step = "popped" /\ op[id].kind = "store" /\ op[id].value \in Values
      /\ queue' = queue /\ notInBase' = notInBase /\ victim' = victim /\ answer' = answer
  BY <1>u, Zenon DEF Store, At, Structure, OpFacts
<1>2. BaseFactsOf(id) /\ NotFlushing(id) /\ TypeOK
  BY <1>u, <1>1, Zenon DEF BaseFacts, Structure, OpFacts
<1> DEFINE b == Block(id, op[id].value, op[id].block # NoBlock)
<1>3. /\ b \in CachedBlock /\ b.id = id /\ b.value = op[id].value
      /\ b.dirty <=> op[id].block # NoBlock
  BY Zenon, <1>1 DEF Block, CachedBlock
<1>4. Keep(id, b)
  BY Zenon DEF Store
<1>5. base' = IF op[id].block # NoBlock THEN base ELSE [base EXCEPT ![id] = op[id].value]
  BY Zenon DEF Store
<1> HIDE DEF b
<1>6. /\ base' \in [BlockIds -> Values \cup {NoBlock}]
      /\ answer \in [BlockIds -> Values \cup BOOLEAN \cup {NoBlock, Thrown}]
      /\ \A j \in BlockIds \ {id} : base'[j] = base[j]
      /\ op[id].block # NoBlock => base'[id] = base[id]
      /\ op[id].block = NoBlock => base'[id] = op[id].value
  BY <1>u, <1>1, <1>2, <1>5, Zenon DEF TypeOK
<1>7. /\ op'[id] # NoBlock /\ op'[id].step = "pushing" /\ op'[id].kind = "store"
      /\ \A j \in BlockIds \ {id} : op'[j] = op[j]
  BY <1>u, <1>1, <1>2, <1>3, <1>4, KeepOp, Zenon
<1>8. /\ Structure' /\ Objects(queue', op', victim', id) = {b}
      /\ \A j \in BlockIds \ {id} : Objects(queue', op', victim', j) = Objects(queue, op, victim, j)
  BY <1>u, <1>1, <1>3, <1>4, <1>6, AfterKeep, Zenon
<1>9. BaseFactsOf(id)'
  <2>1. CASE op[id].block = NoBlock
    <3>1. op[id].value # NoBlock
      BY <1>u, <1>1, CachingAssumption, Zenon
    <3> QED
      BY <1>u, <1>1, <1>2, <1>3, <1>6, <1>7, <1>8, <2>1, <3>1, PoppedHasAll, Zenon DEF BaseFactsOf, Creating, At
  <2>2. CASE op[id].block # NoBlock
    BY Zenon, <1>u, <1>1, <1>2, <1>3, <1>6, <1>7, <1>8, <2>2, PoppedHasAll DEF BaseFactsOf, Creating, At, NotFlushing
  <2> QED
    BY <2>1, <2>2, Zenon
<1>10. BaseFacts'
  <2>1. ASSUME NEW j \in BlockIds \ {id} PROVE BaseFactsOf(j)'
    BY <1>u, <1>1, <1>6, <1>7, <1>8, LeftAlone, Zenon DEF BaseFacts, NotFlushing
  <2> QED
    BY <1>u, <1>9, <2>1, Zenon DEF BaseFacts
<1>11. Content' = [Content EXCEPT ![id] = op[id].value]
  <2>1. ValueOf(Objects(queue', op', victim', id), base'[id]) = op[id].value
    BY <1>3, <1>8, ValueOfOne, Zenon
  <2> QED
    BY <1>6, <1>8, <2>1, ContentElsewhere
<1> QED
  BY Zenon, <1>1, <1>8, <1>10, <1>11 DEF Store2!store, CInv

----------------------------------------------------------------------------
\* push moves the object from the operation to the end of the queue.
LEMMA PushKeeps ==
    ASSUME CInv, NEW id \in BlockIds, Push(id)
    PROVE  CInv' /\ Content' = Content /\ answer' = answer
<1>u. Structure /\ TypeOK /\ DistinctIds(queue) /\ OpFacts /\ VictimFacts /\ BaseFacts
  BY Zenon DEF CInv, Structure
<1>1. /\ op[id] # NoBlock /\ op[id].step = "pushing" /\ Len(queue) < MaxEntries
      /\ queue' = Append(queue, op[id].block)
      /\ base' = base /\ notInBase' = notInBase /\ victim' = victim /\ answer' = answer
  BY Zenon DEF Push, At
<1> DEFINE b == op[id].block
<1>2. /\ b \in CachedBlock /\ b.id = id /\ b # NoBlock /\ NotCached(id) /\ NotFlushing(id)
      /\ op[id].kind = "tryCreate" => answer[id] \in BOOLEAN
  BY <1>u, <1>1 DEF OpFacts, TypeOK, Operation
<1> DEFINE o == [op[id] EXCEPT !.step = "inserting", !.block = NoBlock]
<1>3. /\ o \in Operation /\ o # NoBlock /\ o.step = "inserting" /\ o.block = NoBlock
      /\ o.kind = op[id].kind /\ o.value = op[id].value
  <2>1. op[id] \in Operation
    BY <1>u, <1>1, Zenon DEF TypeOK
  <2>2. o \in Operation
    BY Zenon, <2>1 DEF Operation
  <2> QED
    BY Zenon, <1>u, <2>1, <2>2, CachingAssumption DEF Operation
<1>4. op' = [op EXCEPT ![id] = IF op[id].kind = "tryCreate" /\ answer[id] THEN o ELSE NoBlock]
  BY <1>u, Zenon DEF Push, TypeOK
<1>5. /\ queue' \in Seq(CachedBlock) /\ Len(queue') <= MaxEntries /\ DistinctIds(queue')
      /\ Range(queue') = Range(queue) \cup {b}
  <2>1. queue \in Seq(CachedBlock) /\ Len(queue) \in Nat /\ MaxEntries \in Nat
    BY <1>u, CachingAssumption DEF TypeOK
  <2>2. \A c \in Range(queue) : c.id # b.id
    BY <1>2, Zenon DEF NotCached
  <2> QED
    BY <1>u, <1>1, <1>2, <2>1, <2>2, AppendAddsOne
<1> HIDE DEF b, o
<1>6. /\ op' \in [BlockIds -> Operation \cup {NoBlock}]
      /\ \A j \in BlockIds \ {id} : op'[j] = op[j]
      /\ op'[id] = NoBlock \/ (op'[id] = o /\ op[id].kind = "tryCreate" /\ answer[id])
      /\ op[id].kind = "tryCreate" /\ answer[id] => op'[id] = o
  BY <1>u, <1>3, <1>4, Zenon DEF TypeOK
<1>7. \A j \in BlockIds : Objects(queue', op', victim', j) = Objects(queue, op, victim, j)
  <2> SUFFICES ASSUME NEW j \in BlockIds, NEW c
               PROVE  c \in Objects(queue', op', victim', j) <=> c \in Objects(queue, op, victim, j)
    BY Zenon
  <2>1. CASE j = id
    BY <1>1, <1>2, <1>3, <1>5, <1>6, <2>1, Holders DEF b
  <2>2. CASE j # id
    BY <1>1, <1>2, <1>5, <1>6, <2>2, Holders
  <2> QED
    BY <2>1, <2>2, Zenon
<1>8. /\ \A j \in BlockIds \ {id} : NotCached(j)' <=> NotCached(j)
      /\ ~NotCached(id)'
  BY <1>2, <1>5, Zenon DEF NotCached
<1>a. TypeOK'
  BY <1>u, <1>1, <1>5, <1>6, Zenon DEF TypeOK
<1>b. OpFacts'
  <2> SUFFICES ASSUME NEW j \in BlockIds, op'[j] # NoBlock
               PROVE  /\ op'[j].block # NoBlock => op'[j].block.id = j
                      /\ op'[j].kind \in {"tryCreate", "store"} => op'[j].value \in Values
                      /\ op'[j].step \in {"popped", "pushing"} => NotCached(j)' /\ NotFlushing(j)'
                      /\ op'[j].step = "pushing" => op'[j].block # NoBlock
                      /\ op'[j].step = "inserting" => op'[j].block = NoBlock /\ ~NotCached(j)'
                      /\ op'[j].step \in {"pushing", "inserting"} /\ op'[j].kind = "tryCreate" => answer'[j] \in BOOLEAN
                      /\ op'[j].step = "inserting" => op'[j].kind = "tryCreate" /\ answer'[j]
    BY <1>u, Zenon DEF OpFacts
  <2>1. CASE j = id
    BY <1>u, <1>1, <1>2, <1>3, <1>6, <1>8, <2>1 DEF OpFacts
  <2>2. CASE j # id
    BY <1>u, <1>1, <1>6, <1>8, <2>2 DEF OpFacts, NotFlushing
  <2> QED
    BY <2>1, <2>2, Zenon
<1>c. VictimFacts'
  BY <1>u, <1>1, <1>2, <1>5, Zenon DEF VictimFacts, NotCached, NotFlushing
<1>d. BaseFacts'
  <2>1. BaseFactsOf(id)'
    <3>1. /\ BaseFactsOf(id) /\ (NotFlushing(id)' <=> NotFlushing(id))
          /\ Objects(queue', op', victim', id) = Objects(queue, op, victim, id)
      BY <1>u, <1>1, <1>7, Zenon DEF BaseFacts, NotFlushing
    <3>2. (Creating(id)' <=> Creating(id)) /\ ~At(id, "popped", {"tryCreate"})'
      BY <1>1, <1>2, <1>3, <1>6, Zenon DEF Creating, At
    <3> QED
      BY <1>1, <3>1, <3>2, Zenon DEF BaseFactsOf
  <2>2. ASSUME NEW j \in BlockIds \ {id} PROVE BaseFactsOf(j)'
    BY <1>u, <1>1, <1>6, <1>7, LeftAlone, Zenon DEF BaseFacts, NotFlushing
  <2> QED
    BY <1>u, <2>1, <2>2, Zenon DEF BaseFacts
<1> QED
  BY <1>1, <1>5, <1>7, <1>a, <1>b, <1>c, <1>d, ContentStays, Zenon DEF CInv, Structure

\* tryCreate notes that the base store lacks the block while its entry is still in the queue.
LEMMA InsertKeeps ==
    ASSUME CInv, NEW id \in BlockIds, InsertNotInBaseStore(id)
    PROVE  CInv' /\ Content' = Content /\ answer' = answer
<1>u. Structure /\ TypeOK /\ DistinctIds(queue) /\ OpFacts /\ VictimFacts /\ BaseFacts
  BY Zenon DEF CInv, Structure
<1>1. /\ op[id] # NoBlock /\ op[id].step = "inserting" /\ op[id].kind = "tryCreate"
      /\ op[id].block = NoBlock /\ answer[id] /\ ~NotCached(id)
      /\ notInBase' = notInBase \cup {id} /\ Return(id)
      /\ base' = base /\ queue' = queue /\ victim' = victim /\ answer' = answer
  BY <1>u, Zenon DEF InsertNotInBaseStore, At, OpFacts
<1>2. /\ op' \in [BlockIds -> Operation \cup {NoBlock}] /\ op'[id] = NoBlock
      /\ \A j \in BlockIds \ {id} : op'[j] = op[j]
  BY <1>u, <1>1, ReturnOp, Zenon
<1>3. \A j \in BlockIds : Objects(queue', op', victim', j) = Objects(queue, op, victim, j)
  <2>1. Objects(queue', op', victim', id) = Objects(queue, op, victim, id)
    BY <1>1, <1>2, Zenon DEF Objects
  <2>2. ASSUME NEW j \in BlockIds \ {id} PROVE Objects(queue', op', victim', j) = Objects(queue, op, victim, j)
    BY <1>1, <1>2, Zenon DEF Objects
  <2> QED
    BY <2>1, <2>2, Zenon
<1>a. TypeOK'
  BY <1>u, <1>1, <1>2, Zenon DEF TypeOK
<1>b. OpFacts'
  <2>1. \A j \in BlockIds : (NotCached(j)' <=> NotCached(j)) /\ (NotFlushing(j)' <=> NotFlushing(j))
    BY <1>1, Zenon DEF NotCached, NotFlushing
  <2> QED
    BY <1>u, <1>1, <1>2, <2>1 DEF OpFacts
<1>c. VictimFacts'
  BY <1>u, <1>1, Zenon DEF VictimFacts, NotCached
<1>d. BaseFacts'
  <2>1. BaseFactsOf(id)'
    <3>1. Objects(queue, op, victim, id) # {}
      <4>1. PICK c \in Range(queue) : c.id = id
        BY <1>1, Zenon DEF NotCached
      <4>2. c \in Objects(queue, op, victim, id)
        BY <4>1, Holders, Zenon
      <4> QED
        BY <4>2, Zenon
    <3>2. base[id] = NoBlock
      BY <1>u, <1>1, Zenon DEF BaseFacts, BaseFactsOf, Creating
    <3> QED
      BY <1>u, <1>1, <1>2, <1>3, <3>1, <3>2, Zenon DEF BaseFacts, BaseFactsOf, Creating, At
  <2>2. ASSUME NEW j \in BlockIds \ {id} PROVE BaseFactsOf(j)'
    BY <1>u, <1>1, <1>2, <1>3, LeftAlone, Zenon DEF BaseFacts, NotFlushing
  <2> QED
    BY <1>u, <2>1, <2>2, Zenon DEF BaseFacts
<1> QED
  BY <1>1, <1>3, <1>a, <1>b, <1>c, <1>d, ContentStays, Zenon DEF CInv, Structure



\* _deleteEntry moves the oldest object from the queue to the worker that destructs it.
LEMMA DeleteEntryKeeps ==
    ASSUME PromptInsert, CInv, NEW w \in Workers, DeleteEntry(w)
    PROVE  CInv' /\ Content' = Content /\ answer' = answer
<1>u. Structure /\ TypeOK /\ DistinctIds(queue) /\ OpFacts /\ VictimFacts /\ BaseFacts
  BY Zenon DEF CInv, Structure
<1>0. PICK b : b = Head(queue)
  BY Zenon
<1>1. /\ queue # <<>> /\ victim[w] = NoBlock /\ NotFlushing(b.id) /\ ~At(b.id, "inserting", Kinds)
      /\ victim' = [victim EXCEPT ![w] = b] /\ queue' = Tail(queue)
      /\ base' = base /\ notInBase' = notInBase /\ op' = op /\ answer' = answer
  BY <1>0, CachedAndFlushing, Zenon DEF DeleteEntry
<1>2. /\ b \in Range(queue) /\ b \in CachedBlock /\ b # NoBlock /\ b.id \in BlockIds
      /\ queue' \in Seq(CachedBlock) /\ Len(queue') <= MaxEntries /\ DistinctIds(queue')
      /\ Range(queue') = Range(queue) \ {b} /\ \A c \in Range(queue') : c.id # b.id
  <2>1. queue \in Seq(CachedBlock) /\ Len(queue) \in Nat /\ Len(queue) <= MaxEntries /\ MaxEntries \in Nat
    BY <1>u, CachingAssumption DEF TypeOK
  <2>2. \A c \in CachedBlock : c # NoBlock /\ c.id \in BlockIds
    BY <1>u, CachingAssumption, Zenon DEF CachedBlock
  <2> QED
    BY <1>u, <1>0, <1>1, <2>1, <2>2, TailDropsHead
<1>3. op[b.id] = NoBlock
  BY <1>u, <1>1, <1>2, Zenon DEF OpFacts, At, NotCached, TypeOK, Operation
<1>4. /\ victim' \in [Workers -> CachedBlock \cup {NoBlock}] /\ victim'[w] = b
      /\ \A x \in Workers \ {w} : victim'[x] = victim[x]
  BY <1>u, <1>1, <1>2, Zenon DEF TypeOK
<1>5. \A j \in BlockIds : Objects(queue', op', victim', j) = Objects(queue, op, victim, j)
  <2> SUFFICES ASSUME NEW j \in BlockIds, NEW c
               PROVE  c \in Objects(queue', op', victim', j) <=> c \in Objects(queue, op, victim, j)
    BY Zenon
  <2>a. c \in Objects(queue', op', victim', j) <=>
            \/ c \in Range(queue') /\ c.id = j
            \/ op'[j] # NoBlock /\ c = op'[j].block /\ c # NoBlock
            \/ \E x \in Workers : c = victim'[x] /\ c # NoBlock /\ c.id = j
    BY Holders
  <2>b. c \in Objects(queue, op, victim, j) <=>
            \/ c \in Range(queue) /\ c.id = j
            \/ op[j] # NoBlock /\ c = op[j].block /\ c # NoBlock
            \/ \E x \in Workers : c = victim[x] /\ c # NoBlock /\ c.id = j
    BY Holders
  <2>1. CASE j = b.id
    <3>0. (\E x \in Workers : c = victim'[x] /\ c # NoBlock /\ c.id = j) <=> c = b
      BY <1>1, <1>2, <1>4, <2>1, Zenon DEF NotFlushing
    <3>1. c \in Objects(queue', op', victim', j) <=> c = b
      BY <1>1, <1>2, <1>3, <2>1, <2>a, <3>0, Zenon
    <3>2. b \in Objects(queue, op, victim, j)
      BY <1>2, <2>1, Holders, Zenon
    <3> QED
      BY <1>u, <3>1, <3>2, OneObject, Zenon
  <2>2. CASE j # b.id
    <3>1. (\E x \in Workers : c = victim'[x] /\ c # NoBlock /\ c.id = j)
              <=> \E x \in Workers : c = victim[x] /\ c # NoBlock /\ c.id = j
      BY <1>1, <1>4, <2>2, Zenon
    <3>2. c \in Range(queue') /\ c.id = j <=> c \in Range(queue) /\ c.id = j
      BY <1>2, <2>2, Zenon
    <3> QED
      BY <1>1, <2>a, <2>b, <3>1, <3>2, Zenon
  <2> QED
    BY <2>1, <2>2, Zenon
<1>6. \A j \in BlockIds \ {b.id} : (NotCached(j)' <=> NotCached(j)) /\ (NotFlushing(j)' <=> NotFlushing(j))
  BY <1>1, <1>2, <1>4, Zenon DEF NotCached, NotFlushing
<1>a. TypeOK'
  BY <1>u, <1>1, <1>2, <1>4, Zenon DEF TypeOK
<1>b. OpFacts'
  BY <1>u, <1>1, <1>3, <1>6, Zenon DEF OpFacts
<1>c. VictimFacts'
  BY <1>u, <1>1, <1>2, <1>4, Zenon DEF VictimFacts, NotCached, NotFlushing
<1>d. BaseFacts'
  <2>1. BaseFactsOf(b.id)'
    <3>1. ~NotFlushing(b.id)'
      BY <1>2, <1>4, Zenon DEF NotFlushing
    <3> QED
      BY Zenon, <1>u, <1>1, <1>2, <1>3, <1>5, <3>1 DEF BaseFacts, BaseFactsOf, Creating, At
  <2>2. ASSUME NEW j \in BlockIds \ {b.id} PROVE BaseFactsOf(j)'
    BY Zenon, <1>u, <1>1, <1>5, <1>6, LeftAlone DEF BaseFacts
  <2> QED
    BY <1>u, <2>1, <2>2, Zenon DEF BaseFacts
<1> QED
  BY Zenon, <1>1, <1>2, <1>5, <1>a, <1>b, <1>c, <1>d, ContentStays DEF CInv, Structure

\* A worker has the only object of the block it is destructing.
LEMMA VictimIsAll ==
    ASSUME Structure, NEW w \in Workers, victim[w] # NoBlock
    PROVE  /\ victim[w] \in CachedBlock /\ victim[w].id \in BlockIds
           /\ Objects(queue, op, victim, victim[w].id) = {victim[w]}
           /\ op[victim[w].id] = NoBlock
<1>u. TypeOK /\ DistinctIds(queue) /\ OpFacts /\ VictimFacts
  BY Zenon DEF Structure
<1> DEFINE id == victim[w].id
<1>1. victim[w] \in CachedBlock /\ id \in BlockIds
  BY <1>u, Zenon DEF TypeOK, CachedBlock
<1>2. NotCached(id) /\ ~NotFlushing(id)
  BY <1>u, Zenon DEF VictimFacts, NotFlushing
<1>3. op[id] = NoBlock
  BY <1>u, <1>1, <1>2, Zenon DEF OpFacts, TypeOK, Operation
<1>4. victim[w] \in Objects(queue, op, victim, id)
  BY Holders, Zenon
<1> QED
  BY <1>u, <1>1, <1>3, <1>4, OneObject

\* The destructor writes the block back: base store and object agree, and the content stays.
LEMMA WriteBackKeeps ==
    ASSUME CInv, NEW w \in Workers, WriteBack(w)
    PROVE  CInv' /\ Content' = Content /\ answer' = answer
<1>u. Structure /\ TypeOK /\ DistinctIds(queue) /\ OpFacts /\ VictimFacts /\ BaseFacts
  BY Zenon DEF CInv, Structure
<1>0. PICK id, b : id = victim[w].id /\ b = [victim[w] EXCEPT !.dirty = FALSE]
  BY Zenon
<1>1. /\ victim[w] # NoBlock /\ base' = [base EXCEPT ![id] = victim[w].value]
      /\ queue' = queue /\ notInBase' = notInBase /\ op' = op /\ answer' = answer
  BY <1>0, Zenon DEF WriteBack
<1>2. /\ victim[w] \in CachedBlock /\ id \in BlockIds /\ op[id] = NoBlock
      /\ Objects(queue, op, victim, id) = {victim[w]}
  BY <1>u, <1>0, <1>1, VictimIsAll, Zenon
<1>3. /\ b \in CachedBlock /\ b.id = id /\ b.value = victim[w].value /\ ~b.dirty /\ b.value # NoBlock
  BY Zenon, <1>u, <1>0, <1>2, CachingAssumption DEF CachedBlock
<1>4. b # NoBlock
  BY <1>u, <1>3, CachingAssumption, Zenon
<1>5. victim' = [victim EXCEPT ![w] = b]
  BY <1>u, <1>0, <1>1, Zenon DEF WriteBack, TypeOK
<1>6. /\ victim' \in [Workers -> CachedBlock \cup {NoBlock}] /\ victim'[w] = b
      /\ \A x \in Workers \ {w} : victim'[x] = victim[x]
      /\ base' \in [BlockIds -> Values \cup {NoBlock}] /\ base'[id] = b.value
      /\ \A j \in BlockIds \ {id} : base'[j] = base[j]
  BY <1>u, <1>1, <1>2, <1>3, <1>5, Zenon DEF TypeOK, CachedBlock
<1>7. \A x \in Workers : /\ victim'[x] = NoBlock <=> victim[x] = NoBlock
                         /\ victim[x] # NoBlock => victim'[x].id = victim[x].id
  BY Zenon, <1>0, <1>1, <1>3, <1>4, <1>6
<1>8. \A j : NotFlushing(j)' <=> NotFlushing(j)
  BY <1>7, Zenon DEF NotFlushing
<1>a. TypeOK' /\ DistinctIds(queue')
  BY <1>u, <1>1, <1>6, Zenon DEF TypeOK
<1>b. OpFacts'
  BY <1>u, <1>1, <1>8, Zenon DEF OpFacts, NotCached
<1>c. VictimFacts'
  BY <1>u, <1>1, <1>7, Zenon DEF VictimFacts, NotCached
<1>d. ASSUME NEW j \in BlockIds \ {id} PROVE Objects(queue', op', victim', j) = Objects(queue, op, victim, j)
  <2> SUFFICES ASSUME NEW c
               PROVE  c \in Objects(queue', op', victim', j) <=> c \in Objects(queue, op, victim, j)
    BY Zenon
  <2>1. (\E x \in Workers : c = victim'[x] /\ c # NoBlock /\ c.id = j)
            <=> \E x \in Workers : c = victim[x] /\ c # NoBlock /\ c.id = j
    BY Zenon, <1>0, <1>3, <1>6
  <2>a. c \in Objects(queue', op', victim', j) <=>
            \/ c \in Range(queue') /\ c.id = j
            \/ op'[j] # NoBlock /\ c = op'[j].block /\ c # NoBlock
            \/ \E x \in Workers : c = victim'[x] /\ c # NoBlock /\ c.id = j
    BY Holders
  <2>b. c \in Objects(queue, op, victim, j) <=>
            \/ c \in Range(queue) /\ c.id = j
            \/ op[j] # NoBlock /\ c = op[j].block /\ c # NoBlock
            \/ \E x \in Workers : c = victim[x] /\ c # NoBlock /\ c.id = j
    BY Holders
  <2> QED
    BY <1>1, <2>1, <2>a, <2>b, Zenon
<1>e. Objects(queue', op', victim', id) = {b}
  <2>1. ASSUME NEW c PROVE (\E x \in Workers : c = victim'[x] /\ c # NoBlock /\ c.id = id) <=> c = b
    <3>1. \A x \in Workers \ {w} : victim[x] # NoBlock => victim[x].id # id
      BY <1>u, <1>0, <1>1, Zenon DEF VictimFacts
    <3> QED
      BY <1>3, <1>4, <1>6, <3>1
  <2>2. \A c \in Range(queue) : c.id # id
    BY <1>u, <1>0, <1>1, Zenon DEF VictimFacts, NotCached
  <2>3. ASSUME NEW c PROVE c \in Objects(queue', op', victim', id) <=> c = b
    <3>1. c \in Objects(queue', op', victim', id) <=>
              \/ c \in Range(queue') /\ c.id = id
              \/ op'[id] # NoBlock /\ c = op'[id].block /\ c # NoBlock
              \/ \E x \in Workers : c = victim'[x] /\ c # NoBlock /\ c.id = id
      BY Holders
    <3> QED
      BY <1>1, <1>2, <2>1, <2>2, <3>1, Zenon
  <2> QED
    BY <2>3, Zenon
<1>f. BaseFacts'
  <2>1. BaseFactsOf(id)'
    <3>1. ~NotFlushing(id)'
      BY <1>0, <1>1, <1>8, Zenon DEF NotFlushing
    <3> QED
      BY <1>u, <1>1, <1>2, <1>3, <1>6, <1>e, <3>1, Zenon DEF BaseFactsOf, Creating, At
  <2>2. ASSUME NEW j \in BlockIds \ {id} PROVE BaseFactsOf(j)'
    BY Zenon, <1>u, <1>1, <1>6, <1>8, <1>d, LeftAlone DEF BaseFacts
  <2> QED
    BY <1>u, <2>1, <2>2, Zenon DEF BaseFacts
<1>g. Content' = Content
  <2>1. Content'[id] = Content[id]
    BY <1>2, <1>3, <1>e, ContentIsValue, ValueOfOne
  <2> QED
    BY <1>2, <1>6, <1>d, <2>1, ContentIsValue, Zenon
<1> QED
  BY <1>1, <1>a, <1>b, <1>c, <1>f, <1>g, Zenon DEF CInv, Structure

\* At its end the destructor strikes the block off the list, and the base store has what the object had.
LEMMA EraseKeeps ==
    ASSUME CInv, NEW w \in Workers, EraseNotInBaseStore(w)
    PROVE  CInv' /\ Content' = Content /\ answer' = answer
<1>u. Structure /\ TypeOK /\ DistinctIds(queue) /\ OpFacts /\ VictimFacts /\ BaseFacts
  BY Zenon DEF CInv, Structure
<1>0. PICK id : id = victim[w].id
  BY Zenon
<1>1. /\ victim[w] # NoBlock /\ ~victim[w].dirty /\ victim' = [victim EXCEPT ![w] = NoBlock]
      /\ notInBase' = notInBase \ {id}
      /\ base' = base /\ queue' = queue /\ op' = op /\ answer' = answer
  BY <1>0, Zenon DEF EraseNotInBaseStore
<1>2. /\ victim[w] \in CachedBlock /\ id \in BlockIds /\ op[id] = NoBlock
      /\ Objects(queue, op, victim, id) = {victim[w]}
  BY <1>u, <1>0, <1>1, VictimIsAll, Zenon
<1>3. /\ victim' \in [Workers -> CachedBlock \cup {NoBlock}] /\ victim'[w] = NoBlock
      /\ \A x \in Workers \ {w} : victim'[x] = victim[x]
  BY <1>u, <1>1, Zenon DEF TypeOK
<1>4. base[id] = victim[w].value /\ base[id] # NoBlock
  <2>1. base[id] = victim[w].value
    BY <1>u, <1>1, <1>2, Zenon DEF BaseFacts, BaseFactsOf
  <2> QED
    BY <1>u, <1>2, <2>1, CachingAssumption, Zenon DEF CachedBlock
<1>5. \A j \in BlockIds \ {id} : NotFlushing(j)' <=> NotFlushing(j)
  BY <1>0, <1>1, <1>3, Zenon DEF NotFlushing
<1>a. TypeOK' /\ DistinctIds(queue')
  BY <1>u, <1>1, <1>3, Zenon DEF TypeOK
<1>b. OpFacts'
  BY <1>u, <1>1, <1>2, <1>5, Zenon DEF OpFacts, NotCached
<1>c. VictimFacts'
  BY <1>u, <1>1, <1>3, Zenon DEF VictimFacts, NotCached
<1>d. ASSUME NEW j \in BlockIds \ {id} PROVE Objects(queue', op', victim', j) = Objects(queue, op, victim, j)
  <2> SUFFICES ASSUME NEW c
               PROVE  c \in Objects(queue', op', victim', j) <=> c \in Objects(queue, op, victim, j)
    BY Zenon
  <2>1. (\E x \in Workers : c = victim'[x] /\ c # NoBlock /\ c.id = j)
            <=> \E x \in Workers : c = victim[x] /\ c # NoBlock /\ c.id = j
    BY <1>0, <1>3, Zenon
  <2>a. c \in Objects(queue', op', victim', j) <=>
            \/ c \in Range(queue') /\ c.id = j
            \/ op'[j] # NoBlock /\ c = op'[j].block /\ c # NoBlock
            \/ \E x \in Workers : c = victim'[x] /\ c # NoBlock /\ c.id = j
    BY Holders
  <2>b. c \in Objects(queue, op, victim, j) <=>
            \/ c \in Range(queue) /\ c.id = j
            \/ op[j] # NoBlock /\ c = op[j].block /\ c # NoBlock
            \/ \E x \in Workers : c = victim[x] /\ c # NoBlock /\ c.id = j
    BY Holders
  <2> QED
    BY <1>1, <2>1, <2>a, <2>b, Zenon
<1>e. Objects(queue', op', victim', id) = {}
  <2>1. \A x \in Workers \ {w} : victim[x] # NoBlock => victim[x].id # id
    BY <1>u, <1>0, <1>1, Zenon DEF VictimFacts
  <2>2. ASSUME NEW c PROVE ~\E x \in Workers : c = victim'[x] /\ c # NoBlock /\ c.id = id
    BY <1>3, <2>1, Zenon
  <2>3. \A c \in Range(queue) : c.id # id
    BY <1>u, <1>0, <1>1, Zenon DEF VictimFacts, NotCached
  <2>4. ASSUME NEW c PROVE c \notin Objects(queue', op', victim', id)
    <3>1. c \in Objects(queue', op', victim', id) <=>
              \/ c \in Range(queue') /\ c.id = id
              \/ op'[id] # NoBlock /\ c = op'[id].block /\ c # NoBlock
              \/ \E x \in Workers : c = victim'[x] /\ c # NoBlock /\ c.id = id
      BY Holders
    <3> QED
      BY <1>1, <1>2, <2>2, <2>3, <3>1, Zenon
  <2> QED
    BY <2>4, Zenon
<1>f. BaseFacts'
  <2>1. BaseFactsOf(id)'
    BY Zenon, <1>u, <1>1, <1>2, <1>4, <1>e DEF BaseFactsOf, Creating, At
  <2>2. ASSUME NEW j \in BlockIds \ {id} PROVE BaseFactsOf(j)'
    BY Zenon, <1>u, <1>1, <1>5, <1>d, LeftAlone DEF BaseFacts
  <2> QED
    BY <1>u, <2>1, <2>2, Zenon DEF BaseFacts
<1>g. Content' = Content
  <2>1. Content'[id] = Content[id]
    <3>1. Content[id] = victim[w].value
      BY <1>2, ContentAt, ValueOfOne
    <3>2. Content'[id] = ValueOf({}, base'[id])
      BY <1>2, <1>e, ContentAt, Zenon
    <3>3. ValueOf({}, base'[id]) = base[id]
      BY <1>1, ValueOfOne, Zenon
    <3> QED
      BY <1>4, <3>1, <3>2, <3>3, Zenon
  <2> QED
    BY Zenon, <1>1, <1>2, <1>d, <2>1, ContentIsValue
<1> QED
  BY <1>1, <1>a, <1>b, <1>c, <1>f, <1>g, Zenon DEF CInv, Structure

----------------------------------------------------------------------------
\* The constructor establishes the invariant: there are no objects yet.
LEMMA InitC == Init => CInv /\ Content = base
<1> SUFFICES ASSUME Init PROVE CInv /\ Content = base
  BY Zenon
<1>1. /\ base \in [BlockIds -> Values \cup {NoBlock}] /\ queue = <<>> /\ notInBase = {}
      /\ op = [id \in BlockIds |-> NoBlock] /\ victim = [w \in Workers |-> NoBlock]
      /\ answer = [id \in BlockIds |-> NoBlock]
  BY Zenon DEF Init
<1>2. Range(queue) = {} /\ DOMAIN queue = {} /\ queue \in Seq(CachedBlock) /\ Len(queue) = 0
  BY <1>1 DEF Range
<1>3. TypeOK
  BY <1>1, <1>2, CachingAssumption DEF TypeOK
<1>4. DistinctIds(queue) /\ OpFacts /\ VictimFacts
  BY <1>1, <1>2, Zenon DEF DistinctIds, OpFacts, VictimFacts
<1>5. ASSUME NEW id \in BlockIds PROVE Objects(queue, op, victim, id) = {}
  <2>1. \A b : b \notin Objects(queue, op, victim, id)
    BY <1>1, <1>2, Holders
  <2> QED
    BY <2>1, Zenon
<1>6. BaseFacts
  BY <1>1, <1>5, Zenon DEF BaseFacts, BaseFactsOf, Creating, At
<1>7. Content = base
  BY Zenon, <1>1, <1>5, ContentIsValue, ValueOfOne
<1> QED
  BY <1>3, <1>4, <1>6, <1>7, Zenon DEF CInv, Structure

\* Every step keeps the invariant and is a step of BlockStore2, or leaves its state alone.
LEMMA StepC ==
    ASSUME PromptInsert, CInv, [Next]_vars
    PROVE  CInv' /\ [Store2!Next]_<<Content, answer>>
<1>1. ASSUME NEW id \in BlockIds, OperationStep(id) PROVE CInv' /\ [Store2!Next]_<<Content, answer>>
  <2>1. CASE \E r \in Requests : Pop(id, r[1], r[2])
    BY <2>1, PopKeeps, Zenon
  <2>2. CASE TryCreate(id)
    BY <2>2, TryCreateKeeps, Zenon DEF Store2!Next
  <2>3. CASE Remove(id)
    BY <2>3, RemoveKeeps, Zenon DEF Store2!Next
  <2>4. CASE Load(id)
    BY <2>4, LoadKeeps, Zenon DEF Store2!Next
  <2>5. CASE Store(id)
    BY <2>5, StoreKeeps, Zenon DEF Store2!Next
  <2>6. CASE Push(id)
    BY <2>6, PushKeeps, Zenon
  <2>7. CASE InsertNotInBaseStore(id)
    BY <2>7, InsertKeeps, Zenon
  <2> QED
    BY <1>1, <2>1, <2>2, <2>3, <2>4, <2>5, <2>6, <2>7, Zenon DEF OperationStep
<1>2. ASSUME NEW w \in Workers, DeleteEntry(w) \/ WriteBack(w) \/ EraseNotInBaseStore(w)
      PROVE  CInv' /\ [Store2!Next]_<<Content, answer>>
  BY <1>2, DeleteEntryKeeps, WriteBackKeeps, EraseKeeps, Zenon
<1>3. ASSUME UNCHANGED vars PROVE CInv' /\ [Store2!Next]_<<Content, answer>>
  <2>1. /\ base' = base /\ queue' = queue /\ notInBase' = notInBase /\ op' = op
        /\ victim' = victim /\ answer' = answer
    BY <1>3, Zenon DEF vars
  <2>2. Structure'
    <3>1. TypeOK' /\ DistinctIds(queue')
      BY <2>1, Zenon DEF CInv, Structure, TypeOK
    <3>2. OpFacts' /\ VictimFacts'
      BY <2>1, Zenon DEF CInv, Structure, OpFacts, VictimFacts, NotCached, NotFlushing
    <3> QED
      BY <3>1, <3>2, Zenon DEF Structure
  <2>3. BaseFacts'
    <3>1. ASSUME NEW j \in BlockIds PROVE BaseFactsOf(j)'
      BY <2>1, LeftAlone, Zenon DEF CInv, BaseFacts, NotFlushing
    <3> QED
      BY <3>1, Zenon DEF BaseFacts
  <2>4. Content' = Content
    BY <2>1, ContentStays, Zenon
  <2> QED
    BY <2>1, <2>2, <2>3, <2>4, Zenon DEF CInv
<1> QED
  BY <1>1, <1>2, <1>3, Zenon DEF Next

\* With the cache in front, the base store is a plain map to its clients, whatever is evicted,
\* written back or loaded again meanwhile: CachingBlockStore2 implements BlockStore2.
THEOREM CacheIsInvisible == ASSUME PromptInsert PROVE Spec => ImplementsBlockStore
<1>1. Init => CInv /\ Store2!Init
  <2> SUFFICES ASSUME Init PROVE CInv /\ Store2!Init
    BY Zenon
  <2> QED
    BY InitC, Zenon DEF Init, Store2!Init
<1>2. CInv /\ [Next]_vars => CInv' /\ [Store2!Next]_<<Content, answer>>
  BY StepC, Zenon
<1> QED
  BY <1>1, <1>2, PTL DEF Spec, ImplementsBlockStore, Store2!Spec

\* A set in which any two elements are equal has at most one.
LEMMA AtMostOne ==
    ASSUME NEW S, \A b, c \in S : b = c
    PROVE  Cardinality(S) <= 1
<1>1. CASE S = {}
  BY <1>1, FS_EmptySet
<1>2. CASE S # {}
  <2>1. PICK b \in S : TRUE
    BY <1>2, Zenon
  <2>2. S = {b}
    BY <2>1, Zenon
  <2> QED
    BY <2>2, FS_Singleton
<1> QED
  BY <1>1, <1>2, Zenon

\* With nothing running, the blocks that exist are those in the base store and those noted as only
\* cached, and none is both.
LEMMA QuietStore ==
    ASSUME CInv, \A id \in BlockIds : op[id] = NoBlock, Flushing = {}
    PROVE  /\ notInBase \cap InBase = {}
           /\ notInBase \cup InBase = {id \in BlockIds : Content[id] # NoBlock}
<1>u. Structure /\ BaseFacts
  BY Zenon DEF CInv
<1>1. notInBase \subseteq BlockIds /\ \A id \in BlockIds : NotFlushing(id)
  BY <1>u, CachedAndFlushing, Zenon DEF Structure, TypeOK
<1>2. \A id \in BlockIds : /\ BaseFactsOf(id) /\ ~Creating(id)
  BY <1>u, Zenon DEF BaseFacts, Creating
<1>3. notInBase \cap InBase = {}
  BY <1>u, <1>1, <1>2, Zenon DEF BaseFactsOf, InBase
<1>4. ASSUME NEW id \in BlockIds PROVE id \in notInBase \cup InBase <=> Content[id] # NoBlock
  <2>1. CASE Objects(queue, op, victim, id) = {}
    BY Zenon, <1>u, <1>2, <2>1, ContentIsValue, ValueOfOne DEF BaseFactsOf, InBase
  <2>2. CASE Objects(queue, op, victim, id) # {}
    <3>1. PICK b \in CachedBlock : Objects(queue, op, victim, id) = {b}
      BY <1>u, <2>2, OneObject
    <3>2. Content[id] # NoBlock
      BY <1>u, <3>1, ContentIsValue, ValueOfOne, CachingAssumption DEF CachedBlock
    <3> QED
      BY <1>u, <1>2, <2>2, <3>2, Zenon DEF BaseFactsOf, InBase
  <2> QED
    BY <2>1, <2>2, Zenon
<1>5. notInBase \cup InBase \subseteq BlockIds
  BY <1>1, Zenon DEF InBase
<1> QED
  BY <1>3, <1>4, <1>5, Zenon DEF CInv

\* The cache accounts for every block: it never has more than MaxEntries of them, has one object of
\* each, and answers exactly which blocks exist (numBlocks, forEachBlock).
THEOREM CacheAccountsForEveryBlock == ASSUME PromptInsert PROVE Spec => []CacheIsExact
<1>1. CInv => TypeOK
  BY Zenon DEF CInv, Structure
<1>2. CInv => OneObjectPerBlock
  <2> SUFFICES ASSUME CInv, NEW id \in BlockIds
               PROVE  Cardinality(ObjectsOf(id)) <= 1 /\ (At(id, "pushing", Kinds) => Cached(id) = {})
    BY Zenon DEF OneObjectPerBlock
  <2>1. ObjectsOf(id) = Objects(queue, op, victim, id)
    BY Zenon DEF ObjectsOf, Cached, Objects
  <2>2. At(id, "pushing", Kinds) => Cached(id) = {}
    BY CachedAndFlushing, Zenon DEF At, CInv, Structure, OpFacts
  <2> QED
    BY <2>1, <2>2, OneObject, AtMostOne, Zenon DEF CInv
<1>3. CInv => NumBlocksIsExact
  <2> SUFFICES ASSUME CInv, \A id \in BlockIds : op[id] = NoBlock, Flushing = {}
               PROVE  /\ numBlocks = Cardinality({id \in BlockIds : Content[id] # NoBlock})
                      /\ \A id \in BlockIds : forEachBlock(id) = IF Content[id] # NoBlock THEN 1 ELSE 0
    BY Zenon DEF NumBlocksIsExact
  <2>1. /\ notInBase \cap InBase = {}
        /\ notInBase \cup InBase = {id \in BlockIds : Content[id] # NoBlock}
    BY QuietStore, Zenon
  <2>2. IsFiniteSet(notInBase) /\ IsFiniteSet(InBase)
    <3>1. notInBase \subseteq BlockIds /\ InBase \subseteq BlockIds /\ IsFiniteSet(BlockIds)
      BY CachingAssumption, Zenon DEF CInv, Structure, TypeOK, InBase
    <3> QED
      BY <3>1, FS_Subset, Zenon
  <2>3. Cardinality(notInBase \cup InBase) = Cardinality(notInBase) + Cardinality(InBase)
    <3>1. Cardinality(notInBase) \in Nat /\ Cardinality(InBase) \in Nat /\ Cardinality(notInBase \cap InBase) = 0
      BY Zenon, <2>1, <2>2, FS_CardinalityType, FS_EmptySet
    <3>2. Cardinality(notInBase \cup InBase)
            = Cardinality(notInBase) + Cardinality(InBase) - Cardinality(notInBase \cap InBase)
      BY <2>2, FS_Union, Zenon
    <3> QED
      BY <3>1, <3>2
  <2>4. ASSUME NEW id \in BlockIds PROVE forEachBlock(id) = IF Content[id] # NoBlock THEN 1 ELSE 0
    <3> DEFINE A == {id} \cap notInBase
               B == {id} \cap InBase
    <3>1. Content[id] # NoBlock => (A = {id} /\ B = {}) \/ (A = {} /\ B = {id})
      BY <2>1, Zenon
    <3>2. Content[id] = NoBlock => A = {} /\ B = {}
      BY <2>1, Zenon
    <3>3. Cardinality({id}) = 1 /\ Cardinality({}) = 0
      BY FS_Singleton, FS_EmptySet, Zenon
    <3>4. forEachBlock(id) = Cardinality(A) + Cardinality(B)
      BY Zenon DEF forEachBlock
    <3> HIDE DEF A, B
    <3> QED
      BY <3>1, <3>2, <3>3, <3>4
  <2> QED
    BY <2>1, <2>3, <2>4, Zenon DEF numBlocks
<1>4. Init => CInv
  BY InitC, Zenon
<1>5. CInv /\ [Next]_vars => CInv'
  BY StepC, Zenon
<1>6. CInv => CacheIsExact
  BY <1>1, <1>2, <1>3, Zenon DEF CacheIsExact
<1> QED
  BY <1>4, <1>5, <1>6, PTL DEF Spec

=============================================================================
