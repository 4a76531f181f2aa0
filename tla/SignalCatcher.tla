--------------------------- MODULE SignalCatcher ---------------------------
(***************************************************************************)
(* cpp-utils/process/SignalCatcher.cpp and SignalHandler.h: objects that   *)
(* note in a flag that a signal arrived, for as long as they live.  The    *)
(* signal handler finds the newest catcher of its signal in a registry     *)
(* that is a LeftRight, because a handler must not wait for a mutex.       *)
(*                                                                         *)
(* Each owner thread nests catchers of a signal of its own (the stacking   *)
(* SignalHandlerRAII documents), so the owners meet only in the registry.  *)
(* A signal is handled either on its owner's thread, whose own code stands *)
(* still meanwhile, or on some other thread, next to everything else.      *)
(***************************************************************************)
EXTENDS Integers, FiniteSets, Sequences, SequencesExt

CONSTANTS
    Owners,         \* threads that create catchers; also the name of the signal each one catches
    OtherThreads,   \* further threads the system may run a handler on
    MaxCatchers,    \* bound: catchers alive at a time
    None

VARIABLES
    owner,          \* per owner: where it is in a constructor or destructor
    depth,          \* per owner: its living catchers are <<o, 1>> .. <<o, depth[o]>>
    sigaction,      \* per signal: the handler the system would run
    old_handler,    \* per catcher: SignalHandlerRAII::_old_handler
    handling,       \* per handler thread: the signal, where it is, and the catcher found
    occurred,       \* living catchers whose _signal_occurred flag is set
    leaked,         \* an add() threw in its second call, after the entry became visible
    _foregroundCounterIndex, _foregroundDataIndex, _counters,
    _copies,        \* LeftRight::_data, the two copies of the registry
    _inDestruction, writer, reader, destructor

Catchers == Owners \X (1 .. MaxCatchers)
Handlers == Owners \cup OtherThreads

\* what a handler may hold besides a catcher: nothing, or the address of a destroyed one
NotFound == <<None, 0>>
Dangling == <<None, 1>>

Top(o) == <<o, depth[o]>>
Alive == {c \in Catchers : c[2] <= depth[c[1]]}

\* SignalCatcherRegistry::add and ::remove, as done to one copy of the registry
RegistryWrite(op, catchers) ==
    CASE op.name = "add" -> Append(catchers, op.catcher)
      [] op.name = "remove" ->
           LET found == SelectLastInSeq(catchers, LAMBDA c : c = op.catcher)
           IN  IF found = 0 THEN catchers ELSE RemoveAt(catchers, found)

_catchers == INSTANCE LeftRight WITH
    Readers <- Handlers, Writers <- Owners, Apply <- RegistryWrite, Empty <- <<>>, _data <- _copies

lrvars == <<_foregroundCounterIndex, _foregroundDataIndex, _counters, _copies,
            _inDestruction, writer, reader, destructor>>
signalVars == <<owner, depth, sigaction, old_handler, handling, occurred, leaked, lrvars>>

NotHandling == [pc |-> "none", signal |-> None, catcher |-> NotFound]

SignalsInit ==
    /\ _catchers!LRInit
    /\ owner = [o \in Owners |-> "idle"]
    /\ depth = [o \in Owners |-> 0]
    /\ sigaction = [o \in Owners |-> "default"]
    /\ old_handler = [c \in Catchers |-> "default"]
    /\ handling = [h \in Handlers |-> NotHandling]
    /\ occurred = {}
    /\ leaked = FALSE

\* an owner's own code runs only while no handler runs on its thread
Runs(o, pc) == owner[o] = pc /\ handling[o] = NotHandling

Goes(o, pc) == owner' = [owner EXCEPT ![o] = pc]

(***************************************************************************)
(* Constructors, in member order: the flag, the registerer, the handler.   *)
(***************************************************************************)
Construct(o) ==
    /\ Runs(o, "idle")
    /\ Cardinality(Alive) < MaxCatchers
    /\ depth' = [depth EXCEPT ![o] = @ + 1]
    /\ Goes(o, "register")
    /\ UNCHANGED <<sigaction, old_handler, handling, occurred, leaked, lrvars>>

Register(o) ==
    /\ Runs(o, "register")
    /\ _catchers!BeginWrite(o, [name |-> "add", catcher |-> Top(o)])
    /\ Goes(o, "adding")
    /\ UNCHANGED <<depth, sigaction, old_handler, handling, occurred, leaked>>

\* one step of write() that is not its last
WriteStep(o) ==
    /\ handling[o] = NotHandling
    /\ \/ _catchers!FirstWrite(o)
       \/ _catchers!SwapData(o)
       \/ _catchers!Waited(o)
       \/ _catchers!SwapCounters(o)
       \/ _catchers!WaitedAgain(o)
    /\ UNCHANGED <<owner, depth, sigaction, old_handler, handling, occurred, leaked>>

\* a handler on another thread that still holds the catcher's address is left with a dangling one
Dangle(c) == handling' = [h \in Handlers |->
    IF handling[h].catcher = c THEN [handling[h] EXCEPT !.catcher = Dangling] ELSE handling[h]]

FreeTop(o) ==
    /\ depth' = [depth EXCEPT ![o] = @ - 1]
    /\ occurred' = occurred \ {Top(o)}
    /\ Dangle(Top(o))

\* emplace_back may fail to get memory; the constructor is left without undoing a finished first call
AddThrows(o) ==
    /\ Runs(o, "adding")
    /\ ~leaked
    /\ _catchers!WriteThrows(o)
    /\ leaked' = (writer.pc = "second")
    /\ FreeTop(o)
    /\ Goes(o, "idle")
    /\ UNCHANGED <<sigaction, old_handler>>

Added(o) ==
    /\ Runs(o, "adding")
    /\ _catchers!SecondWrite(o)
    /\ Goes(o, "install")
    /\ UNCHANGED <<depth, sigaction, old_handler, handling, occurred, leaked>>

\* SignalHandlerRAII(): sigaction() replaces the handler, or fails and the registerer is destroyed again
Install(o) ==
    /\ Runs(o, "install")
    /\ \/ /\ sigaction' = [sigaction EXCEPT ![o] = "got_signal"]
          /\ old_handler' = [old_handler EXCEPT ![Top(o)] = sigaction[o]]
          /\ Goes(o, "idle")
       \/ Goes(o, "unregister") /\ UNCHANGED <<sigaction, old_handler>>
    /\ UNCHANGED <<depth, handling, occurred, leaked, lrvars>>

(***************************************************************************)
(* Destructors, in the opposite order.                                     *)
(***************************************************************************)
\* mutant: the registerer is destroyed while the handler is still installed
UnregistersFirst(o) ==
    /\ Runs(o, "idle")
    /\ depth[o] > 0
    /\ Goes(o, "unregister")
    /\ UNCHANGED <<sigaction, depth, old_handler, handling, occurred, leaked, lrvars>>

Destruct(o) ==
    /\ Runs(o, "idle")
    /\ depth[o] > 0
    /\ sigaction' = [sigaction EXCEPT ![o] = old_handler[Top(o)]]
    /\ Goes(o, "unregister")
    /\ UNCHANGED <<depth, old_handler, handling, occurred, leaked, lrvars>>

Unregister(o) ==
    /\ Runs(o, "unregister")
    /\ _catchers!BeginWrite(o, [name |-> "remove", catcher |-> Top(o)])
    /\ Goes(o, "removing")
    /\ UNCHANGED <<depth, sigaction, old_handler, handling, occurred, leaked>>

Removed(o) ==
    /\ Runs(o, "removing")
    /\ _catchers!SecondWrite(o)
    /\ FreeTop(o)
    /\ Goes(o, "idle")
    /\ UNCHANGED <<sigaction, old_handler, leaked>>

(***************************************************************************)
(* got_signal(), on the thread h.                                          *)
(***************************************************************************)
Deliver(h, s) ==
    /\ handling[h] = NotHandling
    /\ h \in Owners => s = h
    /\ sigaction[s] = "got_signal"
    /\ _catchers!LoadCounterIndex(h)
    /\ handling' = [handling EXCEPT ![h] = [pc |-> "find", signal |-> s, catcher |-> NotFound]]
    /\ UNCHANGED <<owner, depth, sigaction, old_handler, occurred, leaked>>

ReadStep(h) ==
    /\ handling[h].pc = "find"
    /\ \/ _catchers!IncrementCounter(h)
       \/ _catchers!CheckDestruction(h)
       \/ _catchers!LoadDataIndex(h)
    /\ UNCHANGED <<owner, depth, sigaction, old_handler, handling, occurred, leaked>>

\* find(): the newest entry of the signal; without one the ASSERT fails in the handler
Find(h) ==
    /\ handling[h].pc = "find"
    /\ _catchers!EndRead(h)
    /\ LET catchers == _copies[reader[h].data]
           i == SelectLastInSeq(catchers, LAMBDA c : c[1] = handling[h].signal)
           found == IF reader[h].pc = "throwing" \/ i = 0 THEN NotFound
                    ELSE IF catchers[i] \notin Alive THEN Dangling
                    ELSE catchers[i]
       IN  handling' = [handling EXCEPT ![h].pc = "found", ![h].catcher = found]
    /\ UNCHANGED <<owner, depth, sigaction, old_handler, occurred, leaked>>

SetSignalOccurred(h) ==
    /\ handling[h].pc = "found"
    /\ occurred' = IF handling[h].catcher \in Catchers THEN occurred \cup {handling[h].catcher} ELSE occurred
    /\ handling' = [handling EXCEPT ![h] = NotHandling]
    /\ UNCHANGED <<owner, depth, sigaction, old_handler, leaked, lrvars>>

(***************************************************************************)
(* The registry is a static object: it is destroyed at the end of the      *)
(* process, when the owners are done, while a handler may still run.  An   *)
(* entry left in it fails the ASSERT of its destructor.                    *)
(***************************************************************************)
DestroyRegistry ==
    /\ \A o \in Owners : Runs(o, "idle") /\ depth[o] = 0
    /\ \/ _copies[_foregroundDataIndex] = <<>> /\ _catchers!BeginDestruction
       \/ _catchers!WritersGone
       \/ _catchers!ReadersGone
    /\ UNCHANGED <<owner, depth, sigaction, old_handler, handling, occurred, leaked>>

OwnerStep(o) ==
    \/ Register(o) \/ WriteStep(o) \/ AddThrows(o) \/ Added(o)
    \/ Install(o) \/ Unregister(o) \/ Removed(o)

HandlerStep(h) == ReadStep(h) \/ Find(h) \/ SetSignalOccurred(h)

SignalsNext ==
    \/ \E o \in Owners :
         \/ ~_inDestruction /\ Construct(o)
         \/ Destruct(o)
         \/ OwnerStep(o)
    \/ \E h \in Handlers : HandlerStep(h) \/ \E s \in Owners : Deliver(h, s)
    \/ DestroyRegistry

SignalsSpec == SignalsInit /\ [][SignalsNext]_signalVars

(***************************************************************************)
(* Properties                                                              *)
(***************************************************************************)
\* see LeftRight: no handler ever reads a copy of the registry that is being changed
RegistryIsNotReadWhileWritten == _catchers!ReadersAndWritersApart /\ _catchers!NobodyInsideWhenDestroyed

\* A handler that interrupts the owner's own thread, wherever in a constructor or
\* destructor that is, finds a catcher of its signal that is alive: the order of
\* the members registers before the handler is set and resets it before unregistering.
OwnSignalFindsALivingCatcher ==
    \A o \in Owners : handling[o].pc = "found" /\ ~leaked => handling[o].catcher \in Catchers
=============================================================================
