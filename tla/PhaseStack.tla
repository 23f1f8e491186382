------------------------------ MODULE PhaseStack ------------------------------
(***************************************************************************)
(* What nodeletd promises about the stack of phases on its host, whatever   *)
(* it is told and however often it dies: a phase is started only on top of  *)
(* phases that are ready (started, or checked, and not stopped or found     *)
(* failing since), and stopped only when nothing above it is up.            *)
(***************************************************************************)
EXTENDS Integers

CONSTANT N      \* phases of the stack

VARIABLES
    up,         \* phases whose work is in place on the host
    ready       \* phases nodeletd relies on

Levels == 0 .. N - 1

ReadyUpTo(i) == \A j \in Levels : j < i => j \in ready
IsTop(i) == \A j \in up : j <= i

Init == up = {} /\ ready = {}

\* Phase i starts, or fails to and may leave its work in place all the same.
Start(i) ==
    /\ ReadyUpTo(i)
    /\ \/ up' = up \cup {i} /\ ready' = ready \cup {i}
       \/ up' \in {up, up \cup {i}} /\ ready' = ready \ {i}

\* Phase i stops, or fails to.
Stop(i) == IsTop(i) /\ up' \in {up, up \ {i}} /\ ready' = ready \ {i}

\* Phase i is checked.
Check(i) ==
    /\ ReadyUpTo(i) /\ up' = up
    /\ ready' = ready \cup {i} \/ ready' = ready \ {i}

\* The node leaves its cluster: everything from some level on is taken down.
CleanUp == \E k \in 0 .. N : up' = {j \in up : j < k} /\ ready' = {}

\* The environment takes a phase's work away.
Lose(i) == up' = up \ {i} /\ ready' = ready

Next == CleanUp \/ \E i \in Levels : Start(i) \/ Stop(i) \/ Check(i) \/ Lose(i)

Spec == Init /\ [][Next]_<<up, ready>>
=============================================================================
