---------------------------- MODULE MCProcess ----------------------------
(***************************************************************************)
(* The parts of the process that run beside the file system, each checked  *)
(* on its own: a behaviour chooses one component and only that one moves.  *)
(***************************************************************************)
EXTENDS SignalCatcher, ThreadSystem, Subprocess, CallAfterTimeout, Pointers

VARIABLE component

\* every order of up to four operations of the child, with and without input
MCPrograms == UNION {[1..n -> {"out", "err", "in"}] : n \in 0..4}
MCInvocations ==
    [found : {TRUE}, exists : {TRUE}, checked : {FALSE}, input : 0..2, program : MCPrograms, exitcode : {0}]
      \cup [found : BOOLEAN, exists : BOOLEAN, checked : BOOLEAN, input : {0}, program : {<<"out">>}, exitcode : {0, 1}]

vars == <<component, signalVars, threadVars, subvars, catvars, ptvars>>

Init ==
    /\ component \in {"signals", "threads", "processes", "timer", "owned"}
    /\ SignalsInit /\ ThreadsInit /\ CATInit /\ PtInit /\ SubInit
    /\ component # "processes" => invocation.program = <<"out", "out", "out", "out">> /\ invocation.input = 0

OfSignals(A) == component = "signals" /\ A /\ UNCHANGED <<component, threadVars, subvars, catvars, ptvars>>
OfThreads(A) == component = "threads" /\ A /\ UNCHANGED <<component, signalVars, subvars, catvars, ptvars>>
OfProcesses(A) == component = "processes" /\ A /\ UNCHANGED <<component, signalVars, threadVars, catvars, ptvars>>
OfTimer(A) == component = "timer" /\ A /\ UNCHANGED <<component, signalVars, threadVars, subvars, ptvars>>
OfOwned(A) == component = "owned" /\ A /\ UNCHANGED <<component, signalVars, threadVars, subvars, catvars>>

Next == OfSignals(SignalsNext) \/ OfThreads(ThreadsNext) \/ OfProcesses(SubNext) \/ OfTimer(CATNext) \/ OfOwned(PtNext)

\* the fairness that ThreadSystem and Subprocess state
Fairness ==
    /\ \A t \in LoopThreads : WF_vars(OfThreads(ThreadStep(t)))
    /\ \A g \in Getters : SF_vars(OfThreads(GetStep(g)))
    /\ \A f \in Forkers : SF_vars(OfThreads(ForkStep(f)))
    /\ WF_vars(OfThreads(Joined))
    /\ WF_vars(OfProcesses(_find_executable \/ call \/ wait))
    /\ WF_vars(OfProcesses(async_write))
    /\ \A o \in Outputs : WF_vars(OfProcesses(async_read(o)))
    /\ WF_vars(OfProcesses(Child))

Spec == Init /\ [][Next]_vars /\ Fairness

\* Subprocess::call ends with all output of the child, whatever the child does with its pipes.
SubprocessCallsEnd == component = "processes" => CallEndsWithAllOutput
=============================================================================
