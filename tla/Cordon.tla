------------------------------- MODULE Cordon -------------------------------
(***************************************************************************)
(* How nodeletd cordons and uncordons its own Node object.  The drain phase  *)
(* cordons the node when the stack stops and leaves the annotation           *)
(* KubeStackShutDown; the uncordon phase lifts the cordon when the stack     *)
(* starts, unless the annotation UserNodeCordon says that a user wanted it.  *)
(* UserNodeCordon is written by the uncordon phase's periodic check, which   *)
(* takes a cordon without KubeStackShutDown for a user's.                    *)
(*                                                                           *)
(* One step is one call to the API server.  An annotation is changed by Get  *)
(* and Update of the whole object, which the server refuses when the object  *)
(* changed in between; the cordon is set and lifted by Get and Patch of the  *)
(* one field, which is never refused.  Users cordon and uncordon at any time.*)
(***************************************************************************)
EXTENDS Integers, FiniteSetsExt

CONSTANTS
    Flaky,      \* phases that can die or fail to start, in a quiet environment
    LocalApi,   \* the API server runs on this node (a master)
    Quiet       \* the environments to look at

VARIABLES
    node,       \* the Node object: [cordoned, user, shut]
    \* nodeletd
    pc,         \* the next call
    idx,        \* the phase a start has come to
    goal,       \* the phase a stop goes down to
    failed,     \* FailedStatusCheck
    fail,       \* StartFailStep
    svc,        \* the configured service state
    serving,    \* ServiceState
    op,         \* "start" or "stop"
    snap,       \* the Node object last read
    fresh,      \* nothing wrote the object since
    \* the host
    up,         \* phases other than uncordon and drain whose work is in place
    marker,     \* the file KubeStackStartFileMarker
    quiet,      \* no user cordons the node, no call fails and nodeletd is not killed
    \* history
    wish,       \* the user's last act was to cordon
    noted,      \* a check has recorded that cordon
    above       \* drained for a restart from a phase above uncordon, and not started since

proc == <<pc, idx, goal, failed, fail, svc, serving, op>>
api == <<node, snap, fresh>>
host == <<up, marker, quiet>>
history == <<wish, noted, above>>
vars == <<proc, api, host, history>>

(***************************************************************************)
(* The phases in their order, as far as they matter here: gen_certs, which   *)
(* leaves the marker; every phase between it and uncordon; uncordon; what    *)
(* follows it on a master (app catalog, keepalived, coredns); drain.         *)
(***************************************************************************)
GenCerts == 0
Lower == 1
Uncordon == 2
Upper == 3
Drain == 4
Others == {GenCerts, Lower, Upper}

ASSUME FlakyAssumption == Flaky \subseteq Others
ASSUME FlagsAssumption == LocalApi \in BOOLEAN /\ Quiet \subseteq BOOLEAN

Nodes == [cordoned : BOOLEAN, user : BOOLEAN, shut : BOOLEAN]

\* The calls, by the operation they belong to.
StatusCalls == {"s_get", "s_add_get", "s_add_put", "s_rm_get", "s_rm_put"}
StopCalls == {"d_get", "d_cordon", "d_evict", "d_add_get", "d_add_put"}
StartCalls == {"u_rm_get", "u_rm_put", "u_read", "u_get", "u_patch"}

Init ==
    /\ node = [cordoned |-> FALSE, user |-> FALSE, shut |-> FALSE]
    /\ snap = node /\ fresh = TRUE
    /\ pc = "idle" /\ idx = 0 /\ goal = 0 /\ failed = 0 /\ fail = -1
    /\ svc = TRUE /\ serving = FALSE /\ op = "stop"
    /\ up = {} /\ marker = FALSE /\ quiet \in Quiet
    /\ wish = FALSE /\ noted = FALSE /\ above = FALSE

(***************************************************************************)
(* Users, faults and new configurations                                    *)
(***************************************************************************)
\* kubectl cordon and kubectl uncordon patch the one field.
UserActs ==
    /\ ~quiet
    /\ \E c \in BOOLEAN :
        /\ node' = [node EXCEPT !.cordoned = c]
        /\ wish' = c
    /\ fresh' = FALSE /\ noted' = FALSE
    /\ UNCHANGED <<proc, snap, host, above>>

\* The phases whose work can be lost.
Mortal == IF quiet THEN Flaky ELSE Others

\* A phase's process dies.
PhaseDies ==
    /\ \E i \in up \cap Mortal : up' = up \ {i}
    /\ UNCHANGED <<proc, api, marker, quiet, history>>

\* A new process knows neither the failed start nor the service state; with a
\* new configuration the old process exits between two rounds.
Relaunch ==
    /\ quiet => pc = "idle"
    /\ pc' = "idle" /\ idx' = 0 /\ goal' = 0 /\ failed' = 0 /\ fail' = -1
    /\ svc' \in BOOLEAN /\ serving' = FALSE /\ op' = "stop"
    /\ snap' = node /\ fresh' = TRUE
    /\ UNCHANGED <<node, host, history>>

(***************************************************************************)
(* Calls to the API server                                                 *)
(***************************************************************************)
Get ==
    /\ snap' = node /\ fresh' = TRUE
    /\ UNCHANGED node

Mut_Update(n) == node' = n /\ UNCHANGED <<snap, fresh>>

\* The object is replaced as a whole; a stale one is refused.
Update(n) ==
    /\ fresh
    /\ node' = n
    /\ UNCHANGED <<snap, fresh>>

\* RunCordonOrUncordon does nothing when the object it was given is as desired.
Patch(c) ==
    /\ node' = IF snap.cordoned = c THEN node ELSE [node EXCEPT !.cordoned = c]
    /\ UNCHANGED <<snap, fresh>>

Goto(label) == pc' = label /\ UNCHANGED <<idx, goal, failed, fail, svc, serving, op>>

\* A call fails, or an Update is refused.
CallFails == ~quiet \/ (pc \in {"s_add_put", "s_rm_put", "d_add_put", "u_rm_put"} /\ ~fresh)

(***************************************************************************)
(* Reconcile: the checks                                                   *)
(***************************************************************************)
\* A check of phase i failed.
CheckFailed(i) ==
    \/ /\ pc' = "handle" /\ failed' = IF serving THEN i ELSE 0
       /\ UNCHANGED <<idx, goal, fail, svc, serving, op>>
    \/ \* within the toleration the service counts as running
       /\ serving /\ pc' = "running" /\ failed' = 0
       /\ UNCHANGED <<idx, goal, fail, svc, serving, op>>

\* After an incomplete start no check is run.
StatusAfterFailedStart ==
    /\ pc = "idle" /\ fail # -1
    /\ pc' = "handle" /\ failed' = fail
    /\ UNCHANGED <<idx, goal, fail, svc, serving, op, api, host, history>>

\* The checks of the phases below uncordon.  While the marker is there the check
\* of uncordon passes without a call.
StatusLower ==
    /\ pc = "idle" /\ fail = -1
    /\ IF {GenCerts, Lower} \subseteq up
       THEN Goto(IF marker THEN "s_upper" ELSE "s_get")
       ELSE CheckFailed(Min({GenCerts, Lower} \ up))
    /\ UNCHANGED <<api, host, history>>

\* The check of uncordon.
StatusGet ==
    /\ pc = "s_get" /\ Get
    /\ Goto(IF node.shut THEN "s_upper"
            ELSE IF node.cordoned THEN "s_add_get" ELSE "s_rm_get")
    /\ UNCHANGED <<host, history>>

StatusReadsAgain ==
    /\ \/ pc = "s_add_get" /\ Goto("s_add_put")
       \/ pc = "s_rm_get" /\ Goto("s_rm_put")
    /\ Get
    /\ UNCHANGED <<host, history>>

StatusAnnotates ==
    /\ pc = "s_add_put"
    /\ Update([snap EXCEPT !.user = TRUE])
    /\ noted' = wish
    /\ Goto("s_upper")
    /\ UNCHANGED <<host, wish, above>>

StatusRemovesAnnotation ==
    /\ pc = "s_rm_put"
    /\ Update([snap EXCEPT !.user = FALSE])
    /\ Goto("s_upper")
    /\ UNCHANGED <<host, history>>

StatusCallFails ==
    /\ pc \in StatusCalls /\ CallFails
    /\ CheckFailed(Uncordon)
    /\ UNCHANGED <<api, host, history>>

\* The checks of the phases above uncordon; that of drain always passes.
StatusUpper ==
    /\ pc = "s_upper"
    /\ IF Upper \in up \/ Upper \notin Mortal
       THEN /\ pc' = "running" /\ failed' = 0
            /\ UNCHANGED <<idx, goal, fail, svc, serving, op>>
       ELSE CheckFailed(Upper)
    /\ UNCHANGED <<api, host, history>>

(***************************************************************************)
(* Reconcile: what follows from them                                       *)
(***************************************************************************)
HandleRunning ==
    /\ pc = "running"
    /\ IF svc
       THEN pc' = "idle" /\ serving' = TRUE /\ op' = "start" /\ fail' = -1 /\ UNCHANGED goal
       ELSE pc' = "d_get" /\ goal' = 0 /\ op' = "stop" /\ UNCHANGED <<serving, fail>>
    /\ UNCHANGED <<idx, failed, svc, api, host, history>>

\* Some attempts restart the whole chain whatever check failed.
HandleNotRunning ==
    /\ pc = "handle"
    /\ IF svc
       THEN pc' = "d_get" /\ goal' \in {0, failed} /\ op' = "start"
       ELSE pc' = "idle" /\ op' = "stop" /\ UNCHANGED goal
    /\ UNCHANGED <<idx, failed, fail, svc, serving, api, host, history>>

(***************************************************************************)
(* The stop chain                                                          *)
(***************************************************************************)
\* After Stop, failed or not, a restart goes on to Start.
AfterStop ==
    /\ serving' = FALSE
    /\ pc' = IF op = "start" THEN "start" ELSE "idle"
    /\ idx' = goal
    /\ fail' = IF op = "start" THEN fail ELSE -1
    /\ UNCHANGED <<goal, failed, svc, op>>

ApiAvailable == LocalApi => Lower \in up

\* Stop of drain.
DrainGet ==
    /\ pc = "d_get" /\ ApiAvailable
    /\ Get /\ Goto("d_cordon")
    /\ UNCHANGED <<host, history>>

DrainCordons ==
    /\ pc = "d_cordon"
    /\ Patch(TRUE) /\ Goto("d_evict")
    /\ above' = (above \/ goal > Uncordon)
    /\ UNCHANGED <<host, wish, noted>>

DrainEvicts ==
    /\ pc = "d_evict"
    /\ Goto("d_add_get")
    /\ UNCHANGED <<api, host, history>>

DrainReadsAgain ==
    /\ pc = "d_add_get"
    /\ Get /\ Goto("d_add_put")
    /\ UNCHANGED <<host, history>>

DrainAnnotates ==
    /\ pc = "d_add_put"
    /\ Update([snap EXCEPT !.shut = TRUE]) /\ Goto("stop")
    /\ UNCHANGED <<host, history>>

\* A failing call ends the stop chain at its first phase.
DrainFails ==
    /\ \/ pc \in StopCalls /\ CallFails
       \/ pc = "d_get" /\ ~ApiAvailable
    /\ AfterStop
    /\ UNCHANGED <<api, host, history>>

\* The rest of the chain, which may break half way; gen_certs is only stopped in
\* a restart when it is the failed check.
StopRest ==
    /\ pc = "stop"
    /\ \E k \in (IF quiet THEN {goal} ELSE goal .. Drain) :
         up' = {i \in up : i < k \/ (i = GenCerts /\ op = "start" /\ failed # 0)}
    /\ AfterStop
    /\ UNCHANGED <<api, marker, quiet, history>>

(***************************************************************************)
(* The start chain                                                         *)
(***************************************************************************)
Advance ==
    /\ idx' = idx + 1 /\ pc' = "start"
    /\ UNCHANGED <<goal, failed, fail, svc, serving, op>>

StartPhase ==
    /\ pc = "start" /\ idx \in Others
    /\ up' = up \cup {idx}
    /\ marker' = (marker \/ idx = GenCerts)
    /\ Advance
    /\ UNCHANGED <<quiet, api, history>>

BeginUncordon ==
    /\ pc = "start" /\ idx = Uncordon
    /\ Goto("u_rm_get")
    /\ UNCHANGED <<api, host, history>>

UncordonReads ==
    /\ \/ pc = "u_rm_get" /\ Goto("u_rm_put")
       \/ pc = "u_get" /\ Goto("u_patch")
    /\ Get
    /\ UNCHANGED <<host, history>>

UncordonRemovesAnnotation ==
    /\ pc = "u_rm_put"
    /\ Update([snap EXCEPT !.shut = FALSE]) /\ Goto("u_read")
    /\ UNCHANGED <<host, history>>

Mut_UncordonDecides ==
    /\ pc = "u_read" /\ Get
    /\ Goto("u_get")
    /\ UNCHANGED <<host, history>>

Mut_UncordonDecides2 ==
    /\ pc = "u_read" /\ Get
    /\ IF node.user THEN Goto("u_get") ELSE Advance
    /\ UNCHANGED <<host, history>>

\* A user's cordon is left alone.
UncordonDecides ==
    /\ pc = "u_read" /\ Get
    /\ IF node.user THEN Advance ELSE Goto("u_get")
    /\ UNCHANGED <<host, history>>

UncordonPatches ==
    /\ pc = "u_patch"
    /\ Patch(FALSE) /\ Advance
    /\ above' = FALSE
    /\ UNCHANGED <<host, wish, noted>>

\* Start of drain: the stack has started.
StartDrain ==
    /\ pc = "start" /\ idx = Drain
    /\ marker' = FALSE
    /\ pc' = "idle" /\ serving' = TRUE /\ fail' = -1
    /\ UNCHANGED <<idx, goal, failed, svc, op, up, quiet, api, history>>

Mut_StartFails ==
    /\ \/ pc = "start" /\ (idx \in Flaky \/ ~quiet) /\ idx # Uncordon
       \/ pc \in StartCalls /\ CallFails
    /\ marker' \in {marker, marker \/ (pc = "start" /\ idx = GenCerts)}
    /\ up' \in {up, IF quiet THEN up ELSE up \cup ({idx} \cap Others)}
    /\ pc' = "idle" /\ fail' = idx + 1
    /\ UNCHANGED <<idx, goal, failed, svc, serving, op, quiet, api, history>>

\* A phase fails to start; gen_certs may have left the marker.  A fault may strike
\* after the phase has done its work.
StartFails ==
    /\ \/ pc = "start" /\ (idx \in Flaky \/ ~quiet) /\ idx # Uncordon
       \/ pc \in StartCalls /\ CallFails
    /\ marker' \in {marker, marker \/ (pc = "start" /\ idx = GenCerts)}
    /\ up' \in {up, IF quiet THEN up ELSE up \cup ({idx} \cap Others)}
    /\ pc' = "idle" /\ fail' = idx
    /\ UNCHANGED <<idx, goal, failed, svc, serving, op, quiet, api, history>>

Next ==
    \/ UserActs \/ PhaseDies \/ Relaunch
    \/ StatusAfterFailedStart \/ StatusLower \/ StatusGet \/ StatusReadsAgain
    \/ StatusAnnotates \/ StatusRemovesAnnotation \/ StatusCallFails \/ StatusUpper
    \/ HandleRunning \/ HandleNotRunning
    \/ DrainGet \/ DrainCordons \/ DrainEvicts \/ DrainReadsAgain \/ DrainAnnotates
    \/ DrainFails \/ StopRest
    \/ StartPhase \/ BeginUncordon \/ UncordonReads \/ UncordonRemovesAnnotation
    \/ UncordonDecides \/ UncordonPatches \/ StartDrain \/ StartFails

Spec == Init /\ [][Next]_vars

(***************************************************************************)
(* Properties                                                              *)
(***************************************************************************)
\* Every variable has its type.
TypeOK ==
    /\ node \in Nodes /\ snap \in Nodes /\ fresh \in BOOLEAN
    /\ pc \in {"idle", "s_upper", "running", "handle", "stop", "start"}
              \cup StatusCalls \cup StopCalls \cup StartCalls
    /\ idx \in 0 .. 4 /\ goal \in 0 .. 4 /\ failed \in 0 .. 4 /\ fail \in -1 .. 4
    /\ svc \in BOOLEAN /\ serving \in BOOLEAN /\ op \in {"start", "stop"}
    /\ up \subseteq Others /\ marker \in BOOLEAN /\ quiet \in BOOLEAN
    /\ wish \in BOOLEAN /\ noted \in BOOLEAN /\ above \in BOOLEAN

\* A cordon that a user made, and that a check has recorded, is never lifted by
\* nodeletd: not by a restart, a stop and a start, or a crash anywhere in them.
NotedCordonIsKept == wish /\ noted => node.cordoned

\* Writing an annotation never reverts what a user did to the cordon in between:
\* the cordon changes only in a user's act and in the two patches.
AnnotationsKeepTheCordon ==
    [][node'.cordoned # node.cordoned =>
          \/ pc \in {"d_cordon", "u_patch"}
          \/ wish' = node'.cordoned /\ UNCHANGED proc]_vars

\* When no user cordons the node and no call fails, a node whose stack has started
\* takes pods again, through stops, restarts and new configurations, unless it was
\* drained for a restart that left uncordon out.
ServingIsSchedulable == quiet /\ pc = "idle" /\ serving => ~node.cordoned \/ above
=============================================================================
