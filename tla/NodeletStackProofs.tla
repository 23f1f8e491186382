-------------------------- MODULE NodeletStackProofs --------------------------
(***************************************************************************)
(* The reconciliation loop implements the ordered stack of PhaseStack, for  *)
(* any number of phases.                                                    *)
(***************************************************************************)
EXTENDS NodeletProofs

Known == {i \in Phases : hist[i] # "none"}

\* The abstract state variables are not touched.
HostSame == up' = up /\ hist' = hist

LEMMA KnownBelow ==
    ASSUME NEW i \in Phases, ReadyBelow(i)
    PROVE  Stack!ReadyUpTo(i)
  BY DEF ReadyBelow, Stack!ReadyUpTo, Stack!Levels, Phases

LEMMA KnownAdd ==
    ASSUME TypeOK, NEW i \in Phases, NEW v \in {"ran", "seen"},
           hist' = [hist EXCEPT ![i] = v]
    PROVE  Known' = Known \cup {i}
  BY DEF TypeOK, Known

LEMMA KnownDrop ==
    ASSUME TypeOK, NEW i \in Phases, hist' = [hist EXCEPT ![i] = "none"]
    PROVE  Known' = Known \ {i}
  BY DEF TypeOK, Known

LEMMA IdxInPhases ==
    ASSUME TypeOK, IndicesInRange,
           \/ pc = "status" /\ idx < NumPhases(cfg)
           \/ pc = "start"
           \/ pc = "stop" /\ idx >= goal
    PROVE  idx \in Phases
  <1>1. /\ idx \in -1 .. N /\ (pc \in {"idle", "status", "start"} => idx >= 0)
        /\ goal \in Phases /\ cfg \in Configs
    BY DEF TypeOK
  <1>2. idx < NumPhases(cfg)
    BY DEF IndicesInRange
  <1>3. NumPhases(cfg) \in 1 .. N
    BY <1>1, NumPhasesRange
  <1>. QED
    BY <1>1, <1>2, <1>3, PhasesAssumption DEF Phases

LEMMA StackInit == Init => Stack!Init
  BY DEF Init, Stack!Init, Phases

\* Every step of the loop is a step of the stack, or leaves it alone.
LEMMA StackStep == IInv /\ [Next]_vars => [Stack!Next]_<<up, Known>>
  <1>. SUFFICES ASSUME IInv, [Next]_vars PROVE Stack!Next \/ (up' = up /\ Known' = Known)
    OBVIOUS
  <1>a. TypeOK /\ IndicesInRange /\ ReadyInv /\ StopsFromTheTop
    BY DEF IInv
  <1>b. Phases = Stack!Levels
    BY DEF Stack!Levels, Phases
  <1>1. CASE HostSame
    BY <1>1 DEF HostSame, Known
  <1>2. CASE cfg.role = "none" /\ (StopPhase \/ StopPhaseFails)
    <2>1. hist' = [j \in Phases |-> "none"] /\ \E k \in 0 .. N : up' = {j \in up : j < k}
      <3>1. CASE StopPhase
        <4>1. up' = {} /\ hist' = [j \in Phases |-> "none"]
          BY <1>2, <3>1 DEF StopPhase, PhaseStopOk
        <4>2. up \subseteq 0 .. N - 1
          BY <1>a DEF TypeOK, Phases
        <4>3. \A j \in up : ~(j < 0)
          BY <4>2, PhasesAssumption
        <4>4. up' = {j \in up : j < 0} /\ 0 \in 0 .. N
          BY <4>1, <4>3, PhasesAssumption
        <4>. QED
          BY <4>1, <4>4
      <3>2. CASE StopPhaseFails
        BY <1>2, <3>2 DEF StopPhaseFails, PhaseStopFail
      <3>. QED
        BY <1>2, <3>1, <3>2
    <2>2. Known' = {}
      BY <2>1 DEF Known
    <2>. QED
      BY <2>1, <2>2 DEF Stack!Next, Stack!CleanUp, Known
  <1>3. CASE cfg.role # "none" /\ StatusPass
    <2>1. idx \in Phases /\ ReadyBelow(idx) /\ up' = up
      BY <1>3, <1>a, IdxInPhases DEF StatusPass, ReadyInv, host
    <2>2. Known' = Known \cup {idx}
      <3>1. CASE hist[idx] = "ran"
        BY <1>3, <2>1, <3>1 DEF StatusPass, Seen, Known
      <3>2. CASE hist[idx] # "ran"
        <4>1. hist' = [hist EXCEPT ![idx] = "seen"]
          BY <1>3, <3>2 DEF StatusPass, Seen
        <4>. QED
          BY <1>a, <2>1, <4>1, KnownAdd
      <3>. QED
        BY <3>1, <3>2
    <2>. QED
      BY <1>b, <2>1, <2>2, KnownBelow DEF Stack!Next, Stack!Check, Known
  <1>4. CASE cfg.role # "none" /\ StatusFail
    <2>1. /\ idx \in Phases /\ ReadyBelow(idx) /\ up' = up
          /\ hist' = [hist EXCEPT ![idx] = "none"]
      BY <1>4, <1>a, IdxInPhases DEF StatusFail, ReadyInv, host
    <2>2. Known' = Known \ {idx}
      BY <1>a, <2>1, KnownDrop
    <2>. QED
      BY <1>b, <2>1, <2>2, KnownBelow DEF Stack!Next, Stack!Check, Known
  <1>5. CASE cfg.role # "none" /\ (StopPhase \/ StopPhaseFails)
    <2>1. /\ idx \in Phases /\ Stack!IsTop(idx) /\ up' \in {up, up \ {idx}}
          /\ hist' = [hist EXCEPT ![idx] = "none"]
      BY <1>5, <1>a, IdxInPhases DEF StopPhase, StopPhaseFails, PhaseStopOk, PhaseStopFail,
         StopsFromTheTop, Stack!IsTop, host
    <2>2. Known' = Known \ {idx}
      BY <1>a, <2>1, KnownDrop
    <2>. QED
      BY <1>b, <2>1, <2>2 DEF Stack!Next, Stack!Stop, Known
  <1>6. CASE cfg.role # "none" /\ (StartPhase \/ StartLastPhase)
    <2>1. /\ idx \in Phases /\ ReadyBelow(idx) /\ up' = up \cup {idx}
          /\ hist' = [hist EXCEPT ![idx] = "ran"]
      BY <1>6, <1>a, IdxInPhases DEF StartPhase, StartLastPhase, PhaseStartOk, ReadyInv
    <2>2. Known' = Known \cup {idx}
      BY <1>a, <2>1, KnownAdd
    <2>. QED
      BY <1>b, <2>1, <2>2, KnownBelow DEF Stack!Next, Stack!Start, Known
  <1>7. CASE cfg.role # "none" /\ StartPhaseFails
    <2>1. /\ idx \in Phases /\ ReadyBelow(idx) /\ up' \in {up, up \cup {idx}}
          /\ hist' = [hist EXCEPT ![idx] = "none"]
      BY <1>7, <1>a, IdxInPhases DEF StartPhaseFails, PhaseStartFail, ReadyInv, host
    <2>2. Known' = Known \ {idx}
      BY <1>a, <2>1, KnownDrop
    <2>. QED
      BY <1>b, <2>1, <2>2, KnownBelow DEF Stack!Next, Stack!Start, Known
  <1>8. CASE PhaseDies
    <2>1. PICK i \in up : up' = up \ {i}
      BY <1>8 DEF PhaseDies
    <2>2. i \in Phases /\ Known' = Known
      BY <1>8, <1>a, <2>1 DEF PhaseDies, TypeOK, Known
    <2>. QED
      BY <1>b, <2>1, <2>2 DEF Stack!Next, Stack!Lose, Known
  <1>9. CASE cfg.role = "none" /\ (StatusPass \/ StatusFail \/ StartPhase \/ StartLastPhase \/ StartPhaseFails)
    <2>1. HostSame
      BY <1>9 DEF StatusPass, Seen, StatusFail, StartPhase, StartLastPhase, StartPhaseFails,
         PhaseStartOk, PhaseStartFail, HostSame, host
    <2>. QED
      BY <1>1, <2>1
  <1>10. \/ HostSame \/ StatusPass \/ StatusFail \/ StopPhase \/ StopPhaseFails
         \/ StartPhase \/ StartLastPhase \/ StartPhaseFails \/ PhaseDies
    BY DEF Next, Reconcile, Launch, Status, StatusAllPassed, AlreadyRunning, Restart,
       handleServiceStopState, IgnoreState, StopSkipsGenCerts, StopReturns, ServiceStopped,
       BeginStart, ReconcileDone, Tick, Crash, CrashInWrite, BecomeCalm, HostSame, host, vars
  <1>. QED
    BY <1>1, <1>2, <1>3, <1>4, <1>5, <1>6, <1>7, <1>8, <1>9, <1>10

\* The reconciliation loop with its faults and restarts implements PhaseStack.
THEOREM ImplementsStack == Spec => IsPhaseStack
  <1>1. Spec => Stack!Init /\ [][Stack!Next]_<<up, Known>>
    BY StackInit, StackStep, InvHolds, PTL DEF Spec
  <1>. QED
    BY <1>1, PTL DEF IsPhaseStack, Stack!Spec, Known
=============================================================================
