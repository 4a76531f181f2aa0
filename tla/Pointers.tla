------------------------------ MODULE Pointers ------------------------------
(***************************************************************************)
(* The owners of heap objects that the other components pass around:       *)
(* unique_ref and dynamic_pointer_move (cpp-utils/pointer), the            *)
(* optional_ownership_ptr, either (cpp-utils/either.h) and Data            *)
(* (cpp-utils/data/Data.h).  A variable of one of these types is a name    *)
(* that is either out of scope or holds a target; memory is reused, so a   *)
(* pointer that is left over may come to point to somebody else's object.  *)
(*                                                                         *)
(* A client keeps the rule of unique_ref.h: "Never use the old instance    *)
(* after moving!".  It may still destroy or overwrite it.                  *)
(***************************************************************************)
EXTENDS Integers, FiniteSets

CONSTANTS
    Objects,        \* heap memory: objects and the blocks of Data
    Refs,           \* variables of type unique_ref<SRC>
    Ptrs,           \* variables of type unique_ptr or optional_ownership_ptr
    Eithers,        \* variables of type either<Left, Right>
    Datas,          \* variables of type Data
    Castable,       \* the objects whose dynamic type is the DST of a dynamic_pointer_move
    MaxDataSize,    \* largest size of a Data
    Null

VARIABLES
    alive,          \* the objects that are constructed (or allocated) and not yet destroyed
    refs,           \* _target of each unique_ref, or OutOfScope
    ptrs,           \* the pointer and whether its deleter deletes
    eithers,        \* _side and the target of the member of the union that is constructed
    datas,          \* _allocator (present or not), _size and _data
    terminated      \* an ASSERT failed in a noexcept function

ptvars == <<alive, refs, ptrs, eithers, datas, terminated>>

OutOfScope == [scope |-> FALSE]
Ref(o) == [scope |-> TRUE, target |-> o]
Ptr(o, deletes) == [scope |-> TRUE, target |-> o, deletes |-> deletes]
Either(side, o) == [scope |-> TRUE, side |-> side, target |-> o]
DataOf(o, size) == [scope |-> TRUE, allocator |-> o # Null, size |-> size, target |-> o]

PtInit ==
    /\ alive = {}
    /\ refs = [r \in Refs |-> OutOfScope]
    /\ ptrs = [p \in Ptrs |-> OutOfScope]
    /\ eithers = [e \in Eithers |-> OutOfScope]
    /\ datas = [d \in Datas |-> OutOfScope]
    /\ terminated = FALSE

Running == ~terminated

(***************************************************************************)
(* unique_ref                                                              *)
(***************************************************************************)
is_valid(r) == refs[r].scope /\ refs[r].target # Null

\* what every use of a unique_ref asserts; the functions that check it are noexcept
_invariant(ref) == ref.target # Null

make_unique_ref(r, o) ==
    /\ Running /\ ~refs[r].scope /\ o \notin alive
    /\ alive' = alive \cup {o}
    /\ refs' = [refs EXCEPT ![r] = Ref(o)]
    /\ UNCHANGED <<ptrs, eithers, datas, terminated>>

MoveConstructRef(r, from) ==
    /\ Running /\ ~refs[r].scope /\ is_valid(from)
    /\ refs' = [refs EXCEPT ![r] = refs[from], ![from] = Ref(Null)]
    /\ UNCHANGED <<alive, ptrs, eithers, datas, terminated>>

\* the old target is deleted; moving onto itself deletes the only target, and _invariant() fails
MoveAssignRef(r, from) ==
    /\ Running /\ refs[r].scope /\ is_valid(from)
    /\ alive' = alive \ {refs[r].target}
    /\ refs' = IF r = from THEN [refs EXCEPT ![r] = Ref(Null)]
                           ELSE [refs EXCEPT ![r] = refs[from], ![from] = Ref(Null)]
    /\ terminated' = ~_invariant(refs'[r])
    /\ UNCHANGED <<ptrs, eithers, datas>>

SwapRefs(r, s) ==
    /\ Running /\ r # s /\ refs[r].scope /\ refs[s].scope
    /\ refs' = [refs EXCEPT ![r] = refs[s], ![s] = refs[r]]
    /\ UNCHANGED <<alive, ptrs, eithers, datas, terminated>>

\* destruct(), and the end of a unique_ref's scope
DestructRef(r) ==
    /\ Running /\ refs[r].scope
    /\ alive' = alive \ {refs[r].target}
    /\ refs' = [refs EXCEPT ![r] = OutOfScope]
    /\ UNCHANGED <<ptrs, eithers, datas, terminated>>

(***************************************************************************)
(* unique_ptr and optional_ownership_ptr                                   *)
(***************************************************************************)
\* operator std::unique_ptr<T2>() &&, and WithOwnership(unique_ref), which keeps the deleter
WithOwnership(p, r) ==
    /\ Running /\ ~ptrs[p].scope /\ is_valid(r)
    /\ ptrs' = [ptrs EXCEPT ![p] = Ptr(refs[r].target, TRUE)]
    /\ refs' = [refs EXCEPT ![r] = Ref(Null)]
    /\ UNCHANGED <<alive, eithers, datas, terminated>>

\* WithoutOwnership(ref.get()), and null()
WithoutOwnership(p, o) ==
    /\ Running /\ ~ptrs[p].scope
    /\ o = Null \/ \E r \in Refs : is_valid(r) /\ refs[r].target = o
    /\ ptrs' = [ptrs EXCEPT ![p] = Ptr(o, FALSE)]
    /\ UNCHANGED <<alive, refs, eithers, datas, terminated>>

\* nullcheck(std::move(p)): a unique_ref, or none for a null pointer; p is a parameter and ends
nullcheck(r, p) ==
    /\ Running /\ ~refs[r].scope /\ ptrs[p].scope /\ ptrs[p].deletes
    /\ refs' = IF ptrs[p].target = Null THEN refs ELSE [refs EXCEPT ![r] = Ref(ptrs[p].target)]
    /\ ptrs' = [ptrs EXCEPT ![p] = OutOfScope]
    /\ UNCHANGED <<alive, eithers, datas, terminated>>

\* mutant: the source keeps its pointer although the cast succeeded
CastsWithoutRelease(r, source) ==
    /\ Running /\ ~refs[r].scope /\ is_valid(source)
    /\ refs' = IF refs[source].target \in Castable THEN [refs EXCEPT ![r] = refs[source]] ELSE refs
    /\ UNCHANGED <<alive, ptrs, eithers, datas, terminated>>

\* dynamic_pointer_move<DST>(source): a failed cast leaves the source as it was
dynamic_pointer_move(r, source) ==
    /\ Running /\ ~refs[r].scope /\ is_valid(source)
    /\ refs' = IF refs[source].target \in Castable
               THEN [refs EXCEPT ![r] = refs[source], ![source] = Ref(Null)]
               ELSE refs
    /\ UNCHANGED <<alive, ptrs, eithers, datas, terminated>>

DestructPtr(p) ==
    /\ Running /\ ptrs[p].scope
    /\ alive' = IF ptrs[p].deletes THEN alive \ {ptrs[p].target} ELSE alive
    /\ ptrs' = [ptrs EXCEPT ![p] = OutOfScope]
    /\ UNCHANGED <<refs, eithers, datas, terminated>>

(***************************************************************************)
(* either: a union and the side that is constructed.  Both sides own a     *)
(* target; a copy owns a target of its own.                                *)
(***************************************************************************)
\* the two converting constructors, make_left() and make_right(), from a unique_ref
ConstructEither(e, side, r) ==
    /\ Running /\ ~eithers[e].scope /\ is_valid(r)
    /\ eithers' = [eithers EXCEPT ![e] = Either(side, refs[r].target)]
    /\ refs' = [refs EXCEPT ![r] = Ref(Null)]
    /\ UNCHANGED <<alive, ptrs, datas, terminated>>

CopyConstructEither(e, rhs, o) ==
    /\ Running /\ ~eithers[e].scope /\ eithers[rhs].scope /\ eithers[rhs].target # Null /\ o \notin alive
    /\ alive' = alive \cup {o}
    /\ eithers' = [eithers EXCEPT ![e] = Either(eithers[rhs].side, o)]
    /\ UNCHANGED <<refs, ptrs, datas, terminated>>

MoveConstructEither(e, rhs) ==
    /\ Running /\ ~eithers[e].scope /\ eithers[rhs].scope /\ eithers[rhs].target # Null
    /\ eithers' = [eithers EXCEPT ![e] = eithers[rhs], ![rhs].target = Null]
    /\ UNCHANGED <<alive, refs, ptrs, datas, terminated>>

\* the side that is constructed is destroyed, whichever it is
_destruct(e) == alive \ {eithers[e].target}

\* the copy's constructor does not throw: the member would stay unconstructed
CopyAssignEither(e, rhs, o) ==
    /\ Running /\ eithers[e].scope /\ eithers[rhs].scope /\ eithers[rhs].target # Null
    /\ IF e = rhs
       THEN UNCHANGED <<alive, eithers>>
       ELSE /\ o \notin _destruct(e)
            /\ alive' = _destruct(e) \cup {o}
            /\ eithers' = [eithers EXCEPT ![e] = Either(eithers[rhs].side, o)]
    /\ UNCHANGED <<refs, ptrs, datas, terminated>>

MoveAssignEither(e, rhs) ==
    /\ Running /\ eithers[e].scope /\ eithers[rhs].scope /\ eithers[rhs].target # Null
    /\ IF e = rhs
       THEN UNCHANGED <<alive, eithers>>
       ELSE /\ alive' = _destruct(e)
            /\ eithers' = [eithers EXCEPT ![e] = eithers[rhs], ![rhs].target = Null]
    /\ UNCHANGED <<refs, ptrs, datas, terminated>>

DestructEither(e) ==
    /\ Running /\ eithers[e].scope
    /\ alive' = _destruct(e)
    /\ eithers' = [eithers EXCEPT ![e] = OutOfScope]
    /\ UNCHANGED <<refs, ptrs, datas, terminated>>

\* left() &&, right() &&, left_opt() && and right_opt() &&: the wrong side throws or gives none
TakeSide(e, side, r) ==
    /\ Running /\ eithers[e].scope /\ eithers[e].target # Null /\ ~refs[r].scope
    /\ IF eithers[e].side = side
       THEN /\ refs' = [refs EXCEPT ![r] = Ref(eithers[e].target)]
            /\ eithers' = [eithers EXCEPT ![e].target = Null]
       ELSE UNCHANGED <<refs, eithers>>
    /\ UNCHANGED <<alive, ptrs, datas, terminated>>

(***************************************************************************)
(* Data: a block, its size and the allocator that gives the block back.    *)
(* An allocation that fails throws std::bad_alloc and leaves everything.   *)
(***************************************************************************)
ConstructData(d, size, o) ==
    /\ Running /\ ~datas[d].scope /\ o \notin alive
    /\ alive' = alive \cup {o}
    /\ datas' = [datas EXCEPT ![d] = DataOf(o, size)]
    /\ UNCHANGED <<refs, ptrs, eithers, terminated>>

MoveConstructData(d, rhs) ==
    /\ Running /\ ~datas[d].scope /\ datas[rhs].scope
    /\ datas' = [datas EXCEPT ![d] = datas[rhs], ![rhs] = DataOf(Null, 0)]
    /\ UNCHANGED <<alive, refs, ptrs, eithers, terminated>>

\* _free(): without an allocator there is nothing to give back
_free(d) == IF datas[d].allocator THEN alive \ {datas[d].target} ELSE alive

\* moving a Data onto itself frees its block and leaves it empty
MoveAssignData(d, rhs) ==
    /\ Running /\ datas[d].scope /\ datas[rhs].scope
    /\ alive' = _free(d)
    /\ datas' = IF d = rhs THEN [datas EXCEPT ![d] = DataOf(Null, 0)]
                           ELSE [datas EXCEPT ![d] = datas[rhs], ![rhs] = DataOf(Null, 0)]
    /\ UNCHANGED <<refs, ptrs, eithers, terminated>>

DestructData(d) ==
    /\ Running /\ datas[d].scope
    /\ alive' = _free(d)
    /\ datas' = [datas EXCEPT ![d] = OutOfScope]
    /\ UNCHANGED <<refs, ptrs, eithers, terminated>>

\* copy() is the case prefixSize = 0; a longer prefix than there is fails the ASSERT and throws
copyAndRemovePrefix(d, rhs, prefixSize, o) ==
    /\ Running /\ ~datas[d].scope /\ datas[rhs].scope /\ o \notin alive
    /\ prefixSize <= datas[rhs].size
    /\ alive' = alive \cup {o}
    /\ datas' = [datas EXCEPT ![d] = DataOf(o, datas[rhs].size - prefixSize)]
    /\ UNCHANGED <<refs, ptrs, eithers, terminated>>

PtNext ==
    \/ \E r \in Refs :
          \/ \E o \in Objects : make_unique_ref(r, o)
          \/ \E from \in Refs : \/ MoveConstructRef(r, from) \/ MoveAssignRef(r, from) \/ SwapRefs(r, from)
                                \/ dynamic_pointer_move(r, from)
          \/ \E p \in Ptrs : WithOwnership(p, r) \/ nullcheck(r, p)
          \/ \E e \in Eithers, side \in {"left", "right"} : ConstructEither(e, side, r) \/ TakeSide(e, side, r)
          \/ DestructRef(r)
    \/ \E p \in Ptrs : \/ \E o \in Objects \cup {Null} : WithoutOwnership(p, o)
                       \/ DestructPtr(p)
    \/ \E e \in Eithers :
          \/ \E rhs \in Eithers : \/ \E o \in Objects : CopyConstructEither(e, rhs, o) \/ CopyAssignEither(e, rhs, o)
                                  \/ MoveConstructEither(e, rhs) \/ MoveAssignEither(e, rhs)
          \/ DestructEither(e)
    \/ \E d \in Datas :
          \/ \E size \in 0..MaxDataSize, o \in Objects : ConstructData(d, size, o)
          \/ \E rhs \in Datas : \/ MoveConstructData(d, rhs) \/ MoveAssignData(d, rhs)
                                \/ \E n \in 0..MaxDataSize, o \in Objects : copyAndRemovePrefix(d, rhs, n, o)
          \/ DestructData(d)

PtSpec == PtInit /\ [][PtNext]_ptvars

(***************************************************************************)
(* Properties                                                              *)
(***************************************************************************)
Owning(f, names, o) == {n \in names : f[n].scope /\ f[n].target = o}

OwnersOf(o) ==
    Cardinality(Owning(refs, Refs, o)) + Cardinality(Owning(eithers, Eithers, o))
      + Cardinality(Owning(datas, Datas, o)) + Cardinality({p \in Owning(ptrs, Ptrs, o) : ptrs[p].deletes})

\* However objects are moved, copied, cast and put into an either or a Data, every
\* object has exactly one owner while it is alive and none afterwards: nothing leaks,
\* nothing is destroyed twice, and no owner is left pointing to memory that was given back.
EveryObjectHasOneOwner == \A o \in Objects : OwnersOf(o) = IF o \in alive THEN 1 ELSE 0
=============================================================================
