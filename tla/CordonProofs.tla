---------------------------- MODULE CordonProofs ----------------------------
(***************************************************************************)
(* On masters and on workers, whichever phases fail: a user's cordon that    *)
(* was noted is kept, an annotation never reverts a cordon, and a node that  *)
(* serves in a quiet environment takes pods.                                 *)
(***************************************************************************)
EXTENDS Cordon, TLAPS

\* The calls that write what was read before.
Writes == {"s_add_put", "s_rm_put", "d_cordon", "d_add_put", "u_rm_put", "u_patch"}

\* The start of uncordon is at uncordon, and a stop goes down to the first phase.
AtInv ==
    /\ pc \in StartCalls => idx = Uncordon
    /\ pc \in StopCalls \cup {"stop"} /\ op = "stop" => goal = 0

\* What is about to be written was read from the object as it is, unless somebody
\* wrote it since.
SnapInv == fresh /\ pc \in Writes => snap = node

\* A noted cordon carries the annotation; the check that removes the annotation and
\* the start that lifts the cordon have seen a node without such a cordon, and
\* the check that sets it has seen a cordon.
NotedInv ==
    /\ wish /\ noted => node.cordoned /\ node.user
    /\ pc \in {"s_rm_get", "s_rm_put", "u_get", "u_patch"} => ~(wish /\ noted)
    /\ pc \in {"s_add_get", "s_add_put"} /\ wish => node.cordoned

\* The steps of a drain and of uncordon at which a cordon has no annotation.
Draining == {"d_evict", "d_add_get", "d_add_put"}
Lifting == {"u_read", "u_get", "u_patch"}

\* In a quiet environment the calls do not fail, and every cordon is nodeletd's
\* own and has its annotation between two rounds.
OwnInv ==
    quiet => /\ fresh /\ ~node.user /\ ~snap.user
             /\ pc \notin {"s_add_get", "s_add_put"}
             /\ node.cordoned => node.shut \/ pc \in Draining \cup Lifting

\* The node is cordoned, and not for a restart that leaves uncordon out.
ToLift == node.cordoned /\ ~above

\* In a quiet environment uncordon will follow such a cordon: the phases below it are not
\* all up, or about to be stopped, and neither the failed start nor the failed
\* check lies above it.
LiftInv ==
    quiet /\ ToLift =>
        /\ pc \notin StatusCalls \cup {"s_upper", "running"}
        /\ serving => pc \in Draining \cup {"stop"}
        /\ pc \in {"idle", "handle"} => fail <= Uncordon
        /\ pc = "handle" => failed <= Uncordon
        /\ pc \in StopCalls \cup {"stop"} => goal <= Uncordon
        /\ pc = "start" => idx <= Uncordon
        /\ Lower \in up => \/ pc \in StopCalls \cup {"stop"} \cup StartCalls
                           \/ pc = "start" /\ idx = Uncordon

IInv == TypeOK /\ AtInv /\ SnapInv /\ NotedInv /\ OwnInv /\ LiftInv

USE FlakyAssumption, FlagsAssumption
    DEF GenCerts, Lower, Uncordon, Upper, Drain, Others, Nodes, StatusCalls, StopCalls,
        StartCalls, Writes, Draining, Lifting, ToLift, proc, api, host, history

-----------------------------------------------------------------------------
\* The smaller of the phases below uncordon that are down.
LEMMA MinLower ==
  ASSUME {GenCerts, Lower} \ up # {}
  PROVE  Min({GenCerts, Lower} \ up) \in {GenCerts, Lower}
  <1>1. \E x \in {0, 1} \ up : \A y \in {0, 1} \ up : x =< y
      OBVIOUS
  <1>. QED
      BY <1>1 DEF Min

\* At the start the node takes pods and nothing is up.
LEMMA InitInv == Init => IInv
  <1> SUFFICES ASSUME Init PROVE IInv
      OBVIOUS
  <1>1. node \in Nodes /\ -1 \in -1 .. 4 /\ 0 \in 0 .. 4
      BY DEF Init
  <1>2. fresh \in BOOLEAN /\ svc \in BOOLEAN /\ serving \in BOOLEAN /\ marker \in BOOLEAN
      BY DEF Init
  <1>3. quiet \in BOOLEAN /\ wish \in BOOLEAN /\ noted \in BOOLEAN /\ above \in BOOLEAN
      BY DEF Init
  <1>4. TypeOK
      BY <1>1, <1>2, <1>3 DEF Init, TypeOK
  <1>5. AtInv /\ SnapInv /\ NotedInv /\ OwnInv /\ LiftInv
      BY DEF Init, AtInv, SnapInv, NotedInv, OwnInv, LiftInv
  <1>. QED
      BY <1>4, <1>5 DEF IInv

\* Every step keeps the types.
LEMMA TypeStep ==
  ASSUME TypeOK, AtInv, [Next]_vars
  PROVE  TypeOK'
  <1> USE DEF TypeOK, AtInv
  <1>a. -1 \in -1 .. 4
      OBVIOUS
  <1>1. CASE UserActs
    <2>1. node' \in Nodes
        BY <1>1 DEF UserActs
    <2>2. wish' \in BOOLEAN /\ fresh' \in BOOLEAN /\ noted' \in BOOLEAN
        BY <1>1 DEF UserActs
    <2>. QED
        BY <1>1, <2>1, <2>2 DEF UserActs
  <1>2. CASE PhaseDies
      BY <1>2 DEF PhaseDies, Mortal
  <1>3. CASE Relaunch
    <2>1. fail' \in -1 .. 4
        BY <1>3, <1>a DEF Relaunch
    <2>2. serving' \in BOOLEAN
        BY <1>3 DEF Relaunch
    <2>. QED
        BY <1>3, <2>1, <2>2 DEF Relaunch
  <1>4. CASE StatusAfterFailedStart
      BY <1>4 DEF StatusAfterFailedStart
  <1>5. CASE StatusLower
      BY <1>5, MinLower DEF StatusLower, Goto, CheckFailed
  <1>6. CASE StatusGet
      BY <1>6 DEF StatusGet, Get, Goto
  <1>7. CASE StatusReadsAgain
      BY <1>7 DEF StatusReadsAgain, Get, Goto
  <1>8. CASE StatusAnnotates
    <2>1. node' \in Nodes
        BY <1>8 DEF StatusAnnotates, Update, Goto
    <2>2. noted' \in BOOLEAN
        BY <1>8 DEF StatusAnnotates, Update, Goto
    <2>. QED
        BY <1>8, <2>1, <2>2 DEF StatusAnnotates, Update, Goto
  <1>9. CASE StatusRemovesAnnotation
    <2>1. node' \in Nodes
        BY <1>9 DEF StatusRemovesAnnotation, Update, Goto
    <2>. QED
        BY <1>9, <2>1 DEF StatusRemovesAnnotation, Update, Goto
  <1>10. CASE StatusCallFails
      BY <1>10 DEF StatusCallFails, CallFails, CheckFailed
  <1>11. CASE StatusUpper
      BY <1>11 DEF StatusUpper, Mortal, CheckFailed
  <1>12. CASE HandleRunning
    <2>1. fail' \in -1 .. 4
        BY <1>12, <1>a DEF HandleRunning
    <2>2. serving' \in BOOLEAN
        BY <1>12 DEF HandleRunning
    <2>. QED
        BY <1>12, <2>1, <2>2 DEF HandleRunning
  <1>13. CASE HandleNotRunning
      BY <1>13 DEF HandleNotRunning
  <1>14. CASE DrainGet
      BY <1>14 DEF DrainGet, Get, Goto
  <1>15. CASE DrainCordons
    <2>1. node' \in Nodes
        BY <1>15 DEF DrainCordons, Patch, Goto
    <2>2. above' \in BOOLEAN
        BY <1>15 DEF DrainCordons, Patch, Goto
    <2>. QED
        BY <1>15, <2>1, <2>2 DEF DrainCordons, Patch, Goto
  <1>16. CASE DrainEvicts
      BY <1>16 DEF DrainEvicts, Goto
  <1>17. CASE DrainReadsAgain
      BY <1>17 DEF DrainReadsAgain, Get, Goto
  <1>18. CASE DrainAnnotates
    <2>1. node' \in Nodes
        BY <1>18 DEF DrainAnnotates, Update, Goto
    <2>. QED
        BY <1>18, <2>1 DEF DrainAnnotates, Update, Goto
  <1>19. CASE DrainFails
    <2>1. fail' \in -1 .. 4 /\ idx' \in 0 .. 4
        BY <1>19, <1>a DEF DrainFails, CallFails, ApiAvailable, AfterStop
    <2>2. pc' \in {"start", "idle"}
        BY <1>19 DEF DrainFails, CallFails, ApiAvailable, AfterStop
    <2>3. serving' \in BOOLEAN
        BY <1>19 DEF DrainFails, CallFails, ApiAvailable, AfterStop
    <2>. QED
        BY <1>19, <2>1, <2>2, <2>3 DEF DrainFails, CallFails, ApiAvailable, AfterStop
  <1>20. CASE StopRest
    <2>1. fail' \in -1 .. 4 /\ idx' \in 0 .. 4
        BY <1>20, <1>a DEF StopRest, AfterStop
    <2>2. up' \subseteq Others
        BY <1>20 DEF StopRest, AfterStop
    <2>3. pc' \in {"start", "idle"}
        BY <1>20 DEF StopRest, AfterStop
    <2>4. serving' \in BOOLEAN
        BY <1>20 DEF StopRest, AfterStop
    <2>. QED
        BY <1>20, <2>1, <2>2, <2>3, <2>4 DEF StopRest, AfterStop
  <1>21. CASE StartPhase
      BY <1>21 DEF StartPhase, Advance
  <1>22. CASE BeginUncordon
      BY <1>22 DEF BeginUncordon, Goto
  <1>23. CASE UncordonReads
      BY <1>23 DEF UncordonReads, Get, Goto
  <1>24. CASE UncordonRemovesAnnotation
    <2>1. node' \in Nodes
        BY <1>24 DEF UncordonRemovesAnnotation, Update, Goto
    <2>. QED
        BY <1>24, <2>1 DEF UncordonRemovesAnnotation, Update, Goto
  <1>25. CASE UncordonDecides
    <2>1. idx' \in 0 .. 4
        BY <1>25 DEF UncordonDecides, Get, Goto, Advance
    <2>. QED
        BY <1>25, <2>1 DEF UncordonDecides, Get, Goto, Advance
  <1>26. CASE UncordonPatches
    <2>1. node' \in Nodes
        BY <1>26 DEF UncordonPatches, Patch, Advance
    <2>2. idx' \in 0 .. 4
        BY <1>26 DEF UncordonPatches, Patch, Advance
    <2>3. above' \in BOOLEAN
        BY <1>26 DEF UncordonPatches, Patch, Advance
    <2>. QED
        BY <1>26, <2>1, <2>2, <2>3 DEF UncordonPatches, Patch, Advance
  <1>27. CASE StartDrain
    <2>1. fail' \in -1 .. 4
        BY <1>27, <1>a DEF StartDrain
    <2>2. serving' \in BOOLEAN
        BY <1>27 DEF StartDrain
    <2>3. marker' \in BOOLEAN
        BY <1>27 DEF StartDrain
    <2>. QED
        BY <1>27, <2>1, <2>2, <2>3 DEF StartDrain
  <1>28. CASE StartFails
    <2>1. fail' \in -1 .. 4
        BY <1>28 DEF StartFails, CallFails
    <2>2. up' \subseteq Others
        BY <1>28 DEF StartFails, CallFails
    <2>3. marker' \in BOOLEAN
        BY <1>28 DEF StartFails, CallFails
    <2>. QED
        BY <1>28, <2>1, <2>2, <2>3 DEF StartFails, CallFails
  <1>29. CASE UNCHANGED vars
      BY <1>29 DEF vars
  <1>. QED
      BY <1>1, <1>2, <1>3, <1>4, <1>5, <1>6, <1>7, <1>8, <1>9, <1>10, <1>11,
         <1>12, <1>13, <1>14, <1>15, <1>16, <1>17, <1>18, <1>19, <1>20, <1>21,
         <1>22, <1>23, <1>24, <1>25, <1>26, <1>27, <1>28, <1>29 DEF Next

\* The calls of uncordon follow each other.
LEMMA AtStep ==
  ASSUME TypeOK, AtInv, [Next]_vars
  PROVE  AtInv'
  <1> USE DEF TypeOK, AtInv
  <1>1. CASE UserActs
      BY <1>1 DEF UserActs
  <1>2. CASE PhaseDies
      BY <1>2 DEF PhaseDies, Mortal
  <1>3. CASE Relaunch
      BY <1>3 DEF Relaunch
  <1>4. CASE StatusAfterFailedStart
      BY <1>4 DEF StatusAfterFailedStart
  <1>5. CASE StatusLower
      BY <1>5 DEF StatusLower, Goto, CheckFailed
  <1>6. CASE StatusGet
      BY <1>6 DEF StatusGet, Get, Goto
  <1>7. CASE StatusReadsAgain
      BY <1>7 DEF StatusReadsAgain, Get, Goto
  <1>8. CASE StatusAnnotates
      BY <1>8 DEF StatusAnnotates, Update, Goto
  <1>9. CASE StatusRemovesAnnotation
      BY <1>9 DEF StatusRemovesAnnotation, Update, Goto
  <1>10. CASE StatusCallFails
      BY <1>10 DEF StatusCallFails, CallFails, CheckFailed
  <1>11. CASE StatusUpper
      BY <1>11 DEF StatusUpper, Mortal, CheckFailed
  <1>12. CASE HandleRunning
      BY <1>12 DEF HandleRunning
  <1>13. CASE HandleNotRunning
      BY <1>13 DEF HandleNotRunning
  <1>14. CASE DrainGet
      BY <1>14 DEF DrainGet, Get, Goto
  <1>15. CASE DrainCordons
      BY <1>15 DEF DrainCordons, Patch, Goto
  <1>16. CASE DrainEvicts
      BY <1>16 DEF DrainEvicts, Goto
  <1>17. CASE DrainReadsAgain
      BY <1>17 DEF DrainReadsAgain, Get, Goto
  <1>18. CASE DrainAnnotates
      BY <1>18 DEF DrainAnnotates, Update, Goto
  <1>19. CASE DrainFails
      BY <1>19 DEF DrainFails, CallFails, ApiAvailable, AfterStop
  <1>20. CASE StopRest
      BY <1>20 DEF StopRest, AfterStop
  <1>21. CASE StartPhase
      BY <1>21 DEF StartPhase, Advance
  <1>22. CASE BeginUncordon
      BY <1>22 DEF BeginUncordon, Goto
  <1>23. CASE UncordonReads
      BY <1>23 DEF UncordonReads, Get, Goto
  <1>24. CASE UncordonRemovesAnnotation
      BY <1>24 DEF UncordonRemovesAnnotation, Update, Goto
  <1>25. CASE UncordonDecides
      BY <1>25 DEF UncordonDecides, Get, Goto, Advance
  <1>26. CASE UncordonPatches
      BY <1>26 DEF UncordonPatches, Patch, Advance
  <1>27. CASE StartDrain
      BY <1>27 DEF StartDrain
  <1>28. CASE StartFails
      BY <1>28 DEF StartFails, CallFails
  <1>29. CASE UNCHANGED vars
      BY <1>29 DEF vars
  <1>. QED
      BY <1>1, <1>2, <1>3, <1>4, <1>5, <1>6, <1>7, <1>8, <1>9, <1>10, <1>11,
         <1>12, <1>13, <1>14, <1>15, <1>16, <1>17, <1>18, <1>19, <1>20, <1>21,
         <1>22, <1>23, <1>24, <1>25, <1>26, <1>27, <1>28, <1>29 DEF Next

\* Nobody but a user writes the object between the read and the write of a call.
LEMMA SnapStep ==
  ASSUME TypeOK, SnapInv, [Next]_vars
  PROVE  SnapInv'
  <1> USE DEF TypeOK, SnapInv
  <1>1. CASE UserActs
      BY <1>1 DEF UserActs
  <1>2. CASE PhaseDies
      BY <1>2 DEF PhaseDies, Mortal
  <1>3. CASE Relaunch
      BY <1>3 DEF Relaunch
  <1>4. CASE StatusAfterFailedStart
      BY <1>4 DEF StatusAfterFailedStart
  <1>5. CASE StatusLower
      BY <1>5 DEF StatusLower, Goto, CheckFailed
  <1>6. CASE StatusGet
      BY <1>6 DEF StatusGet, Get, Goto
  <1>7. CASE StatusReadsAgain
      BY <1>7 DEF StatusReadsAgain, Get, Goto
  <1>8. CASE StatusAnnotates
      BY <1>8 DEF StatusAnnotates, Update, Goto
  <1>9. CASE StatusRemovesAnnotation
      BY <1>9 DEF StatusRemovesAnnotation, Update, Goto
  <1>10. CASE StatusCallFails
      BY <1>10 DEF StatusCallFails, CallFails, CheckFailed
  <1>11. CASE StatusUpper
      BY <1>11 DEF StatusUpper, Mortal, CheckFailed
  <1>12. CASE HandleRunning
      BY <1>12 DEF HandleRunning
  <1>13. CASE HandleNotRunning
      BY <1>13 DEF HandleNotRunning
  <1>14. CASE DrainGet
      BY <1>14 DEF DrainGet, Get, Goto
  <1>15. CASE DrainCordons
      BY <1>15 DEF DrainCordons, Patch, Goto
  <1>16. CASE DrainEvicts
      BY <1>16 DEF DrainEvicts, Goto
  <1>17. CASE DrainReadsAgain
      BY <1>17 DEF DrainReadsAgain, Get, Goto
  <1>18. CASE DrainAnnotates
      BY <1>18 DEF DrainAnnotates, Update, Goto
  <1>19. CASE DrainFails
      BY <1>19 DEF DrainFails, CallFails, ApiAvailable, AfterStop
  <1>20. CASE StopRest
      BY <1>20 DEF StopRest, AfterStop
  <1>21. CASE StartPhase
      BY <1>21 DEF StartPhase, Advance
  <1>22. CASE BeginUncordon
      BY <1>22 DEF BeginUncordon, Goto
  <1>23. CASE UncordonReads
      BY <1>23 DEF UncordonReads, Get, Goto
  <1>24. CASE UncordonRemovesAnnotation
      BY <1>24 DEF UncordonRemovesAnnotation, Update, Goto
  <1>25. CASE UncordonDecides
      BY <1>25 DEF UncordonDecides, Get, Goto, Advance
  <1>26. CASE UncordonPatches
      BY <1>26 DEF UncordonPatches, Patch, Advance
  <1>27. CASE StartDrain
      BY <1>27 DEF StartDrain
  <1>28. CASE StartFails
      BY <1>28 DEF StartFails, CallFails
  <1>29. CASE UNCHANGED vars
      BY <1>29 DEF vars
  <1>. QED
      BY <1>1, <1>2, <1>3, <1>4, <1>5, <1>6, <1>7, <1>8, <1>9, <1>10, <1>11,
         <1>12, <1>13, <1>14, <1>15, <1>16, <1>17, <1>18, <1>19, <1>20, <1>21,
         <1>22, <1>23, <1>24, <1>25, <1>26, <1>27, <1>28, <1>29 DEF Next

\* Only a user disturbs a noted cordon, and then it is no longer a noted one.
LEMMA NotedStep ==
  ASSUME TypeOK, SnapInv, NotedInv, [Next]_vars
  PROVE  NotedInv'
  <1> USE DEF TypeOK, SnapInv, NotedInv
  <1>1. CASE UserActs
      BY <1>1 DEF UserActs
  <1>2. CASE PhaseDies
      BY <1>2 DEF PhaseDies, Mortal
  <1>3. CASE Relaunch
      BY <1>3 DEF Relaunch
  <1>4. CASE StatusAfterFailedStart
      BY <1>4 DEF StatusAfterFailedStart
  <1>5. CASE StatusLower
      BY <1>5 DEF StatusLower, Goto, CheckFailed
  <1>6. CASE StatusGet
      BY <1>6 DEF StatusGet, Get, Goto
  <1>7. CASE StatusReadsAgain
      BY <1>7 DEF StatusReadsAgain, Get, Goto
  <1>8. CASE StatusAnnotates
      BY <1>8 DEF StatusAnnotates, Update, Goto
  <1>9. CASE StatusRemovesAnnotation
      BY <1>9 DEF StatusRemovesAnnotation, Update, Goto
  <1>10. CASE StatusCallFails
      BY <1>10 DEF StatusCallFails, CallFails, CheckFailed
  <1>11. CASE StatusUpper
      BY <1>11 DEF StatusUpper, Mortal, CheckFailed
  <1>12. CASE HandleRunning
      BY <1>12 DEF HandleRunning
  <1>13. CASE HandleNotRunning
      BY <1>13 DEF HandleNotRunning
  <1>14. CASE DrainGet
      BY <1>14 DEF DrainGet, Get, Goto
  <1>15. CASE DrainCordons
      BY <1>15 DEF DrainCordons, Patch, Goto
  <1>16. CASE DrainEvicts
      BY <1>16 DEF DrainEvicts, Goto
  <1>17. CASE DrainReadsAgain
      BY <1>17 DEF DrainReadsAgain, Get, Goto
  <1>18. CASE DrainAnnotates
      BY <1>18 DEF DrainAnnotates, Update, Goto
  <1>19. CASE DrainFails
      BY <1>19 DEF DrainFails, CallFails, ApiAvailable, AfterStop
  <1>20. CASE StopRest
      BY <1>20 DEF StopRest, AfterStop
  <1>21. CASE StartPhase
      BY <1>21 DEF StartPhase, Advance
  <1>22. CASE BeginUncordon
      BY <1>22 DEF BeginUncordon, Goto
  <1>23. CASE UncordonReads
      BY <1>23 DEF UncordonReads, Get, Goto
  <1>24. CASE UncordonRemovesAnnotation
      BY <1>24 DEF UncordonRemovesAnnotation, Update, Goto
  <1>25. CASE UncordonDecides
      BY <1>25 DEF UncordonDecides, Get, Goto, Advance
  <1>26. CASE UncordonPatches
      BY <1>26 DEF UncordonPatches, Patch, Advance
  <1>27. CASE StartDrain
      BY <1>27 DEF StartDrain
  <1>28. CASE StartFails
      BY <1>28 DEF StartFails, CallFails
  <1>29. CASE UNCHANGED vars
      BY <1>29 DEF vars
  <1>. QED
      BY <1>1, <1>2, <1>3, <1>4, <1>5, <1>6, <1>7, <1>8, <1>9, <1>10, <1>11,
         <1>12, <1>13, <1>14, <1>15, <1>16, <1>17, <1>18, <1>19, <1>20, <1>21,
         <1>22, <1>23, <1>24, <1>25, <1>26, <1>27, <1>28, <1>29 DEF Next

\* In a quiet environment a cordon keeps its annotation until it is lifted.
LEMMA OwnStep ==
  ASSUME TypeOK, SnapInv, OwnInv, [Next]_vars
  PROVE  OwnInv'
  <1> USE DEF TypeOK, SnapInv, OwnInv
  <1>1. CASE UserActs
      BY <1>1 DEF UserActs
  <1>2. CASE PhaseDies
      BY <1>2 DEF PhaseDies, Mortal
  <1>3. CASE Relaunch
      BY <1>3 DEF Relaunch
  <1>4. CASE StatusAfterFailedStart
      BY <1>4 DEF StatusAfterFailedStart
  <1>5. CASE StatusLower
      BY <1>5 DEF StatusLower, Goto, CheckFailed
  <1>6. CASE StatusGet
      BY <1>6 DEF StatusGet, Get, Goto
  <1>7. CASE StatusReadsAgain
      BY <1>7 DEF StatusReadsAgain, Get, Goto
  <1>8. CASE StatusAnnotates
      BY <1>8 DEF StatusAnnotates, Update, Goto
  <1>9. CASE StatusRemovesAnnotation
      BY <1>9 DEF StatusRemovesAnnotation, Update, Goto
  <1>10. CASE StatusCallFails
      BY <1>10 DEF StatusCallFails, CallFails, CheckFailed
  <1>11. CASE StatusUpper
      BY <1>11 DEF StatusUpper, Mortal, CheckFailed
  <1>12. CASE HandleRunning
      BY <1>12 DEF HandleRunning
  <1>13. CASE HandleNotRunning
      BY <1>13 DEF HandleNotRunning
  <1>14. CASE DrainGet
      BY <1>14 DEF DrainGet, Get, Goto
  <1>15. CASE DrainCordons
      BY <1>15 DEF DrainCordons, Patch, Goto
  <1>16. CASE DrainEvicts
      BY <1>16 DEF DrainEvicts, Goto
  <1>17. CASE DrainReadsAgain
      BY <1>17 DEF DrainReadsAgain, Get, Goto
  <1>18. CASE DrainAnnotates
      BY <1>18 DEF DrainAnnotates, Update, Goto
  <1>19. CASE DrainFails
      BY <1>19 DEF DrainFails, CallFails, ApiAvailable, AfterStop
  <1>20. CASE StopRest
      BY <1>20 DEF StopRest, AfterStop
  <1>21. CASE StartPhase
      BY <1>21 DEF StartPhase, Advance
  <1>22. CASE BeginUncordon
      BY <1>22 DEF BeginUncordon, Goto
  <1>23. CASE UncordonReads
      BY <1>23 DEF UncordonReads, Get, Goto
  <1>24. CASE UncordonRemovesAnnotation
      BY <1>24 DEF UncordonRemovesAnnotation, Update, Goto
  <1>25. CASE UncordonDecides
      BY <1>25 DEF UncordonDecides, Get, Goto, Advance
  <1>26. CASE UncordonPatches
      BY <1>26 DEF UncordonPatches, Patch, Advance
  <1>27. CASE StartDrain
      BY <1>27 DEF StartDrain
  <1>28. CASE StartFails
      BY <1>28 DEF StartFails, CallFails
  <1>29. CASE UNCHANGED vars
      BY <1>29 DEF vars
  <1>. QED
      BY <1>1, <1>2, <1>3, <1>4, <1>5, <1>6, <1>7, <1>8, <1>9, <1>10, <1>11,
         <1>12, <1>13, <1>14, <1>15, <1>16, <1>17, <1>18, <1>19, <1>20, <1>21,
         <1>22, <1>23, <1>24, <1>25, <1>26, <1>27, <1>28, <1>29 DEF Next

\* A cordon that uncordon is to lift stays before uncordon.
LEMMA LiftStep ==
  ASSUME TypeOK, AtInv, SnapInv, OwnInv, LiftInv, [Next]_vars
  PROVE  LiftInv'
  <1> USE DEF TypeOK, AtInv, SnapInv, OwnInv, LiftInv
  <1>1. CASE UserActs
      BY <1>1 DEF UserActs
  <1>2. CASE PhaseDies
      BY <1>2 DEF PhaseDies, Mortal
  <1>3. CASE Relaunch
      BY <1>3 DEF Relaunch
  <1>4. CASE StatusAfterFailedStart
      BY <1>4 DEF StatusAfterFailedStart
  <1>5. CASE StatusLower
      BY <1>5, MinLower DEF StatusLower, Goto, CheckFailed
  <1>6. CASE StatusGet
      BY <1>6 DEF StatusGet, Get, Goto
  <1>7. CASE StatusReadsAgain
      BY <1>7 DEF StatusReadsAgain, Get, Goto
  <1>8. CASE StatusAnnotates
      BY <1>8 DEF StatusAnnotates, Update, Goto
  <1>9. CASE StatusRemovesAnnotation
      BY <1>9 DEF StatusRemovesAnnotation, Update, Goto
  <1>10. CASE StatusCallFails
      BY <1>10 DEF StatusCallFails, CallFails, CheckFailed
  <1>11. CASE StatusUpper
      BY <1>11 DEF StatusUpper, Mortal, CheckFailed
  <1>12. CASE HandleRunning
      BY <1>12 DEF HandleRunning
  <1>13. CASE HandleNotRunning
    <2>1. quiet /\ ToLift
          => failed <= Uncordon /\ goal' \in {0, failed} \cup {goal} /\ ~serving
        BY <1>13 DEF HandleNotRunning
    <2>. QED
        BY <1>13, <2>1 DEF HandleNotRunning
  <1>14. CASE DrainGet
      BY <1>14 DEF DrainGet, Get, Goto
  <1>15. CASE DrainCordons
    <2>1. goal <= Uncordon \/ goal > Uncordon
        BY <1>15 DEF DrainCordons, Patch, Goto
    <2>2. goal > Uncordon => above'
        BY <1>15 DEF DrainCordons, Patch, Goto
    <2>3. pc' = "d_evict"
        BY <1>15 DEF DrainCordons, Patch, Goto
    <2>. QED
        BY <1>15, <2>1, <2>2, <2>3 DEF DrainCordons, Patch, Goto
  <1>16. CASE DrainEvicts
      BY <1>16 DEF DrainEvicts, Goto
  <1>17. CASE DrainReadsAgain
      BY <1>17 DEF DrainReadsAgain, Get, Goto
  <1>18. CASE DrainAnnotates
      BY <1>18 DEF DrainAnnotates, Update, Goto
  <1>19. CASE DrainFails
      BY <1>19 DEF DrainFails, CallFails, ApiAvailable, AfterStop
  <1>20. CASE StopRest
    <2>1. quiet /\ ToLift
          => /\ goal <= Uncordon
             /\ up' = {i \in up : i < goal \/ (i = GenCerts /\ op = "start" /\ failed # 0)}
        BY <1>20 DEF StopRest, AfterStop
    <2>2. quiet /\ ToLift => Lower \notin up' \/ (goal = Uncordon /\ op = "start")
        BY <1>20, <2>1 DEF StopRest, AfterStop
    <2>. QED
        BY <1>20, <2>1, <2>2 DEF StopRest, AfterStop
  <1>21. CASE StartPhase
      BY <1>21 DEF StartPhase, Advance
  <1>22. CASE BeginUncordon
      BY <1>22 DEF BeginUncordon, Goto
  <1>23. CASE UncordonReads
      BY <1>23 DEF UncordonReads, Get, Goto
  <1>24. CASE UncordonRemovesAnnotation
      BY <1>24 DEF UncordonRemovesAnnotation, Update, Goto
  <1>25. CASE UncordonDecides
      BY <1>25 DEF UncordonDecides, Get, Goto, Advance
  <1>26. CASE UncordonPatches
      BY <1>26 DEF UncordonPatches, Patch, Advance
  <1>27. CASE StartDrain
      BY <1>27 DEF StartDrain
  <1>28. CASE StartFails
      BY <1>28 DEF StartFails, CallFails
  <1>29. CASE UNCHANGED vars
      BY <1>29 DEF vars
  <1>. QED
      BY <1>1, <1>2, <1>3, <1>4, <1>5, <1>6, <1>7, <1>8, <1>9, <1>10, <1>11,
         <1>12, <1>13, <1>14, <1>15, <1>16, <1>17, <1>18, <1>19, <1>20, <1>21,
         <1>22, <1>23, <1>24, <1>25, <1>26, <1>27, <1>28, <1>29 DEF Next

\* Every reachable state satisfies the invariant.
THEOREM Invariance == Spec => []IInv
  <1>1. Init => IInv
      BY InitInv
  <1>2. IInv /\ [Next]_vars => IInv'
      BY TypeStep, AtStep, SnapStep, NotedStep, OwnStep, LiftStep DEF IInv
  <1>. QED
      BY <1>1, <1>2, PTL DEF Spec

\* Every variable keeps its type.
THEOREM TypeCorrect == Spec => []TypeOK
  BY Invariance, PTL DEF IInv

\* nodeletd never lifts a cordon that a user made and a check has recorded, through
\* any failures, restarts and crashes.
THEOREM KeepsNotedCordon == Spec => []NotedCordonIsKept
  <1>1. IInv => NotedCordonIsKept
      BY DEF IInv, NotedInv, NotedCordonIsKept
  <1>. QED
      BY <1>1, Invariance, PTL

\* A node whose stack serves, in an environment without users and faults of the API
\* server, takes pods, unless it was drained for a restart that leaves uncordon out.
THEOREM ServesSchedulable == Spec => []ServingIsSchedulable
  <1>1. IInv => ServingIsSchedulable
      BY DEF IInv, TypeOK, LiftInv, ServingIsSchedulable
  <1>. QED
      BY <1>1, Invariance, PTL

\* The cordon changes only in the two patches and in a user's act.
LEMMA CordonChanges ==
  ASSUME TypeOK, SnapInv, [Next]_vars
  PROVE  node'.cordoned # node.cordoned =>
           \/ pc \in {"d_cordon", "u_patch"}
           \/ wish' = node'.cordoned /\ UNCHANGED proc
  <1> USE DEF TypeOK, SnapInv
  <1>1. CASE UserActs
      BY <1>1 DEF UserActs
  <1>2. CASE PhaseDies
      BY <1>2 DEF PhaseDies, Mortal
  <1>3. CASE Relaunch
      BY <1>3 DEF Relaunch
  <1>4. CASE StatusAfterFailedStart
      BY <1>4 DEF StatusAfterFailedStart
  <1>5. CASE StatusLower
      BY <1>5 DEF StatusLower, Goto, CheckFailed
  <1>6. CASE StatusGet
      BY <1>6 DEF StatusGet, Get, Goto
  <1>7. CASE StatusReadsAgain
      BY <1>7 DEF StatusReadsAgain, Get, Goto
  <1>8. CASE StatusAnnotates
      BY <1>8 DEF StatusAnnotates, Update, Goto
  <1>9. CASE StatusRemovesAnnotation
      BY <1>9 DEF StatusRemovesAnnotation, Update, Goto
  <1>10. CASE StatusCallFails
      BY <1>10 DEF StatusCallFails, CallFails, CheckFailed
  <1>11. CASE StatusUpper
      BY <1>11 DEF StatusUpper, Mortal, CheckFailed
  <1>12. CASE HandleRunning
      BY <1>12 DEF HandleRunning
  <1>13. CASE HandleNotRunning
      BY <1>13 DEF HandleNotRunning
  <1>14. CASE DrainGet
      BY <1>14 DEF DrainGet, Get, Goto
  <1>15. CASE DrainCordons
      BY <1>15 DEF DrainCordons, Patch, Goto
  <1>16. CASE DrainEvicts
      BY <1>16 DEF DrainEvicts, Goto
  <1>17. CASE DrainReadsAgain
      BY <1>17 DEF DrainReadsAgain, Get, Goto
  <1>18. CASE DrainAnnotates
      BY <1>18 DEF DrainAnnotates, Update, Goto
  <1>19. CASE DrainFails
      BY <1>19 DEF DrainFails, CallFails, ApiAvailable, AfterStop
  <1>20. CASE StopRest
      BY <1>20 DEF StopRest, AfterStop
  <1>21. CASE StartPhase
      BY <1>21 DEF StartPhase, Advance
  <1>22. CASE BeginUncordon
      BY <1>22 DEF BeginUncordon, Goto
  <1>23. CASE UncordonReads
      BY <1>23 DEF UncordonReads, Get, Goto
  <1>24. CASE UncordonRemovesAnnotation
      BY <1>24 DEF UncordonRemovesAnnotation, Update, Goto
  <1>25. CASE UncordonDecides
      BY <1>25 DEF UncordonDecides, Get, Goto, Advance
  <1>26. CASE UncordonPatches
      BY <1>26 DEF UncordonPatches, Patch, Advance
  <1>27. CASE StartDrain
      BY <1>27 DEF StartDrain
  <1>28. CASE StartFails
      BY <1>28 DEF StartFails, CallFails
  <1>29. CASE UNCHANGED vars
      BY <1>29 DEF vars
  <1>. QED
      BY <1>1, <1>2, <1>3, <1>4, <1>5, <1>6, <1>7, <1>8, <1>9, <1>10, <1>11,
         <1>12, <1>13, <1>14, <1>15, <1>16, <1>17, <1>18, <1>19, <1>20, <1>21,
         <1>22, <1>23, <1>24, <1>25, <1>26, <1>27, <1>28, <1>29 DEF Next

\* Writing an annotation never reverts what a user did to the cordon.
THEOREM AnnotationsAreSafe == Spec => AnnotationsKeepTheCordon
  <1>1. IInv /\ [Next]_vars =>
          [node'.cordoned # node.cordoned =>
              \/ pc \in {"d_cordon", "u_patch"}
              \/ wish' = node'.cordoned /\ UNCHANGED proc]_vars
      BY CordonChanges DEF IInv
  <1>. QED
      BY <1>1, Invariance, PTL DEF Spec, AnnotationsKeepTheCordon
=============================================================================
