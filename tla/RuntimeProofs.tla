--------------------------- MODULE RuntimeProofs ----------------------------
(***************************************************************************)
(* For any number of containers, image files, uploads and faults: no         *)
(* container outlives containerd, the checksums recorded are those of images *)
(* that were imported, and what is started runs with the configuration.      *)
(***************************************************************************)
EXTENDS Runtime, WellFoundedInduction, TLAPS

Destroying == {"destroy", "term", "wait", "kill", "remove"}

\* Where the loop can be.
LoopInv ==
    /\ mode \in {"idle", "status", "stop", "start"}
    /\ at \in 1 .. Rest /\ from \in 1 .. Rest /\ failStep \in None .. Rest
    /\ mode = "idle" => step = "enter"
    /\ mode = "status" => failStep = None
    /\ mode = "stop" => at >= from
    /\ step \in Destroying => mode = "stop" /\ at = RunContainerd
    /\ step \in {"hash", "record", "load"} => mode \in {"status", "start"} /\ at = LoadImages
    /\ step \in {"setup", "start"} => mode = "start" /\ at = Kubelet
    /\ step \in {"enter", "hash", "record", "load", "setup", "start"} \cup Destroying

\* The kubelet, which creates containers, is down while containerd is stopped.
KubeletInv ==
    /\ kubelet \in {"inactive", "active", "activating"}
    /\ mode = "stop" /\ at < Kubelet => kubelet = "inactive"

Alive == {c \in Containers : ctr[c] \in {"running", "paused"}}

\* What runs is among the containers that Stop still has to destroy.
DrainInv ==
    /\ ctr \in [Containers -> Tasks] /\ queue \subseteq Containers
    /\ step \in Destroying \ {"destroy"} => victim \in Containers
    /\ Without({"containerd", "container"}) =>
        /\ containerd = "inactive" => Alive = {}
        /\ step = "destroy" => Alive \subseteq queue
        /\ step \in Destroying \ {"destroy"} => Alive \subseteq queue \cup {victim}
        /\ step \in {"wait", "kill"} => ctr[victim] # "paused"

\* containerd runs when the phases that need it do.
ContainerdInv ==
    /\ containerd \in {"active", "inactive"}
    /\ Without({"kill", "containerd"}) =>
        /\ mode \in {"status", "start"} /\ at > RunContainerd => containerd = "active"
        /\ mode = "idle" /\ failStep > RunContainerd => containerd = "active"
        /\ mode = "stop" /\ from > RunContainerd => containerd = "active"

\* What was hashed is not younger than what is there, and a line that is true
\* belongs to a file that was imported or that the import comes to.
LinesInv ==
    /\ files \in [Files -> Nat]
    /\ hash \in [Files -> Nat] /\ \A f \in Files : hash[f] <= files[f]
    /\ sums # Missing => sums \in [Files -> Nat] /\ \A f \in Files : sums[f] <= files[f]

ImportInv ==
    Without({"kill", "images", "containerd"}) /\ sums # Missing =>
        \A f \in Files : files[f] > 0 /\ sums[f] = files[f] =>
            <<f, files[f]>> \in images \/ (step = "load" /\ f \in todo)

\* The table of nodelet's configuration is in the file, and containerd runs, or
\* will run, with it.
Configured == conf = 1 /\ launched = 1

\* Until then nothing counts as started: the first stop takes down the containerd
\* of the package, and only a start from the first phase on follows.
ConfigInv ==
    /\ conf \in 0 .. 1 /\ launched \in 0 .. 1
    /\ Without({"other", "version", "containerd", "kubelet"}) /\ ~Configured =>
        /\ kubelet = "inactive" /\ ~serviceState /\ failStep = None /\ from = 1
        /\ mode = "status" => at < Rest
        /\ mode = "stop" /\ at < RunContainerd => containerd = "inactive"
        /\ mode = "start" => /\ at <= RunContainerd /\ containerd = "inactive"
                             /\ at = RunContainerd => conf = 1

\* No file has more versions than there were uploads, and only files that are
\* there are imported.
StoreInv ==
    /\ uploads \in 0 .. MaxUploads /\ dir \in BOOLEAN
    /\ \A f \in Files : files[f] <= uploads
    /\ images \subseteq Files \X (1 .. MaxUploads)
    /\ todo \subseteq Files /\ (step = "load" => todo \subseteq Present)

CountInv ==
    /\ serviceState \in BOOLEAN /\ want \in BOOLEAN
    /\ switches \in 0 .. MaxSwitches /\ faults \subseteq Kinds
    /\ victim \in Containers \cup {NoVictim}

IInv == /\ LoopInv /\ KubeletInv /\ DrainInv /\ ContainerdInv /\ LinesInv /\ ImportInv
        /\ ConfigInv /\ StoreInv /\ CountInv

USE DEF ConfigureContainerd, RunContainerd, LoadImages, Kubelet, Rest, None

-----------------------------------------------------------------------------
(* Where the loop goes when a phase has passed or failed.                    *)

\* The next phase, the end of the iteration, or the next chain.
LEMMA PassedGoes ==
  ASSUME LoopInv, mode # "idle", Passed
  PROVE  /\ LoopInv' /\ step' = "enter"
         /\ mode' = "status" => mode = "status" /\ at' = at + 1
         /\ mode' = "stop" => \/ mode = "stop" /\ at' = at - 1 /\ from' = from
                              \/ mode = "status" /\ at' = Rest /\ from' = 1
         /\ mode' = "start" => \/ mode = "start" /\ at' = at + 1
                               \/ mode = "stop" /\ at' = from /\ at = from
         /\ mode' = "idle" => failStep' = None
  <1>1. CASE mode = "status"
      BY <1>1 DEF LoopInv, Passed, StatusPassed, Running, StopTo, Idle, Go, Destroying
  <1>2. CASE mode = "stop"
      BY <1>2 DEF LoopInv, Passed, StopPassed, StopEnds, Idle, Go, Destroying
  <1>3. CASE mode = "start"
      BY <1>3 DEF LoopInv, Passed, StartPassed, Idle, Go, Destroying
  <1>. QED
      BY <1>1, <1>2, <1>3 DEF LoopInv

LEMMA FailedGoes ==
  ASSUME LoopInv, mode # "idle", Failed
  PROVE  /\ LoopInv' /\ step' = "enter"
         /\ mode' # "status"
         /\ mode' = "stop" => mode = "status" /\ at' = Rest /\ from' \in {1, at}
         /\ mode' = "start" => mode = "stop" /\ at' = from
         /\ mode' = "idle" => failStep' = None \/ (mode = "start" /\ failStep' = at)
  <1>1. CASE mode = "status"
      BY <1>1 DEF LoopInv, Failed, StatusFailed, Running, StopTo, Idle, Go, Destroying
  <1>2. CASE mode = "stop"
      BY <1>2 DEF LoopInv, Failed, StopEnds, Idle, Go, Destroying
  <1>3. CASE mode = "start"
      BY <1>3 DEF LoopInv, Failed, StartFailed, Idle, Go, Destroying
  <1>. QED
      BY <1>1, <1>2, <1>3 DEF LoopInv

-----------------------------------------------------------------------------
\* Every step keeps the loop where it can be.
LEMMA LoopStep ==
  ASSUME LoopInv, [Next]_vars
  PROVE  LoopInv'
  <1>. USE DEF LoopInv, Destroying, loop, store, tasks, service, bounds
  <1>1. CASE Reconcile
      BY <1>1 DEF Reconcile, StopTo, Idle, Go
  <1>2. CASE RestOfPhases
      BY <1>2, PassedGoes DEF RestOfPhases
  <1>3. CASE ConfigureContainerdPasses
      BY <1>3, PassedGoes DEF ConfigureContainerdPasses, In
  <1>4. CASE ConfigureContainerdStart
      BY <1>4, PassedGoes DEF ConfigureContainerdStart, In
  <1>5. CASE RunContainerdStart
      BY <1>5, PassedGoes DEF RunContainerdStart, In, SystemctlStart
  <1>6. CASE RunContainerdStatus
      BY <1>6, PassedGoes, FailedGoes DEF RunContainerdStatus, In
  <1>7. CASE RunContainerdStop
      BY <1>7, FailedGoes DEF RunContainerdStop, In, ContainersInNamespacesList
  <1>8. CASE DestroyNext
      BY <1>8 DEF DestroyNext, Inside, StepTo
  <1>9. CASE Terminate
      BY <1>9 DEF Terminate, Inside, StepTo, Skip
  <1>10. CASE WaitContainerStop
      BY <1>10 DEF WaitContainerStop, Inside, StepTo
  <1>11. CASE Kill
      BY <1>11 DEF Kill, Inside, StepTo, Skip
  <1>12. CASE RemoveContainer
      BY <1>12 DEF RemoveContainer, Inside, StepTo, Skip
  <1>13. CASE StopService
      BY <1>13, PassedGoes DEF StopService, Inside
  <1>14. CASE LoadImagesStop
      BY <1>14, PassedGoes DEF LoadImagesStop, In
  <1>15. CASE LoadImagesStatus
      BY <1>15, PassedGoes, FailedGoes DEF LoadImagesStatus, In, StepTo
  <1>16. CASE LoadImagesStart
      BY <1>16 DEF LoadImagesStart, In, StepTo
  <1>17. CASE GenerateHashForFile
      BY <1>17 DEF GenerateHashForFile
  <1>18. CASE VerifyChecksum
      BY <1>18, PassedGoes DEF VerifyChecksum, StepTo
  <1>19. CASE WriteChecksum
      BY <1>19 DEF WriteChecksum, StepTo
  <1>20. CASE LoadImagesFromFile
      BY <1>20, FailedGoes DEF LoadImagesFromFile
  <1>21. CASE LoadImagesDone
      BY <1>21, PassedGoes DEF LoadImagesDone
  <1>22. CASE KubeletStatus
      BY <1>22, PassedGoes, FailedGoes DEF KubeletStatus, In
  <1>23. CASE PrepareKubeletBootstrapConfig
      BY <1>23, PassedGoes DEF PrepareKubeletBootstrapConfig, In, StepTo
  <1>24. CASE KubeletSetup
      BY <1>24 DEF KubeletSetup, StepTo
  <1>25. CASE KubeletStart
      BY <1>25, PassedGoes DEF KubeletStart
  <1>26. CASE KubeletStop
      BY <1>26, PassedGoes DEF KubeletStop, In, IsKubeletRunning
  <1>27. CASE Panic
      BY <1>27 DEF Panic, Restarted, Idle, Go
  <1>28. CASE OtherPhaseFails
      BY <1>28, FailedGoes DEF OtherPhaseFails, Fault
  <1>29. CASE RunContainerdStartFails
      BY <1>29, FailedGoes DEF RunContainerdStartFails, In, Fault, SystemctlStart
  <1>30. CASE NoVersion
      BY <1>30, PassedGoes DEF NoVersion, In, Fault
  <1>31. CASE ContainerFails
      BY <1>31 DEF ContainerFails, Fault, Skip, StepTo
  <1>32. CASE StopServiceFails
      BY <1>32, FailedGoes DEF StopServiceFails, Inside, Fault
  <1>33. CASE LoadImagesFails
      BY <1>33, FailedGoes DEF LoadImagesFails, Fault
  <1>34. CASE KubeletStartFails
      BY <1>34, FailedGoes DEF KubeletStartFails, Fault
  <1>35. CASE KubeletStopFails
      BY <1>35, FailedGoes DEF KubeletStopFails, In, Fault
  <1>36. CASE Killed
      BY <1>36 DEF Killed, Fault, Restarted, Idle, Go
  <1>37. CASE Reboot
      BY <1>37 DEF Reboot, Fault, Restarted, Idle, Go
  <1>38. CASE KubeletExits
      BY <1>38 DEF KubeletExits, Fault
  <1>39. CASE ContainerdExits
      BY <1>39 DEF ContainerdExits, Fault
  <1>40. ASSUME NEW f \in Files, Upload(f) PROVE LoopInv'
      BY <1>40 DEF Upload
  <1>41. ASSUME NEW c \in Containers, CreateContainer(c) PROVE LoopInv'
      BY <1>41 DEF CreateContainer
  <1>42. ASSUME NEW c \in Containers, TaskChanges(c) PROVE LoopInv'
      BY <1>42 DEF TaskChanges
  <1>43. CASE KubeletReturns
      BY <1>43 DEF KubeletReturns
  <1>44. CASE Switch
      BY <1>44 DEF Switch
  <1>45. CASE UNCHANGED vars
      BY <1>45 DEF vars
  <1>. QED
      BY <1>1, <1>2, <1>3, <1>4, <1>5, <1>6, <1>7, <1>8, <1>9, <1>10, <1>11, <1>12,
         <1>13, <1>14, <1>15, <1>16, <1>17, <1>18, <1>19, <1>20, <1>21, <1>22,
         <1>23, <1>24, <1>25, <1>26, <1>27, <1>28, <1>29, <1>30, <1>31, <1>32,
         <1>33, <1>34, <1>35, <1>36, <1>37, <1>38, <1>39, <1>40, <1>41, <1>42,
         <1>43, <1>44, <1>45
         DEF Next, Loop, Destroy, Faults, Beside

\* No step starts the kubelet while containerd is stopped.
LEMMA KubeletStep ==
  ASSUME LoopInv, KubeletInv, [Next]_vars
  PROVE  KubeletInv'
  <1>. USE DEF LoopInv, KubeletInv, Destroying, loop, store, tasks, service, bounds
  <1>1. CASE Reconcile
      BY <1>1 DEF Reconcile, StopTo, Idle, Go
  <1>2. CASE RestOfPhases
      BY <1>2, PassedGoes DEF RestOfPhases
  <1>3. CASE ConfigureContainerdPasses
      BY <1>3, PassedGoes DEF ConfigureContainerdPasses, In
  <1>4. CASE ConfigureContainerdStart
      BY <1>4, PassedGoes DEF ConfigureContainerdStart, In
  <1>5. CASE RunContainerdStart
      BY <1>5, PassedGoes DEF RunContainerdStart, In, SystemctlStart
  <1>6. CASE RunContainerdStatus
      BY <1>6, PassedGoes, FailedGoes DEF RunContainerdStatus, In
  <1>7. CASE RunContainerdStop
      BY <1>7, FailedGoes DEF RunContainerdStop, In, ContainersInNamespacesList
  <1>8. CASE DestroyNext
      BY <1>8 DEF DestroyNext, Inside, StepTo
  <1>9. CASE Terminate
      BY <1>9 DEF Terminate, Inside, StepTo, Skip
  <1>10. CASE WaitContainerStop
      BY <1>10 DEF WaitContainerStop, Inside, StepTo
  <1>11. CASE Kill
      BY <1>11 DEF Kill, Inside, StepTo, Skip
  <1>12. CASE RemoveContainer
      BY <1>12 DEF RemoveContainer, Inside, StepTo, Skip
  <1>13. CASE StopService
      BY <1>13, PassedGoes DEF StopService, Inside
  <1>14. CASE LoadImagesStop
      BY <1>14, PassedGoes DEF LoadImagesStop, In
  <1>15. CASE LoadImagesStatus
      BY <1>15, PassedGoes, FailedGoes DEF LoadImagesStatus, In, StepTo
  <1>16. CASE LoadImagesStart
      BY <1>16 DEF LoadImagesStart, In, StepTo
  <1>17. CASE GenerateHashForFile
      BY <1>17 DEF GenerateHashForFile
  <1>18. CASE VerifyChecksum
      BY <1>18, PassedGoes DEF VerifyChecksum, StepTo
  <1>19. CASE WriteChecksum
      BY <1>19 DEF WriteChecksum, StepTo
  <1>20. CASE LoadImagesFromFile
      BY <1>20, FailedGoes DEF LoadImagesFromFile
  <1>21. CASE LoadImagesDone
      BY <1>21, PassedGoes DEF LoadImagesDone
  <1>22. CASE KubeletStatus
      BY <1>22, PassedGoes, FailedGoes DEF KubeletStatus, In
  <1>23. CASE PrepareKubeletBootstrapConfig
      BY <1>23, PassedGoes DEF PrepareKubeletBootstrapConfig, In, StepTo
  <1>24. CASE KubeletSetup
      BY <1>24 DEF KubeletSetup, StepTo
  <1>25. CASE KubeletStart
      BY <1>25, PassedGoes DEF KubeletStart
  <1>26. CASE KubeletStop
      BY <1>26, PassedGoes DEF KubeletStop, In, IsKubeletRunning
  <1>27. CASE Panic
      BY <1>27 DEF Panic, Restarted, Idle, Go
  <1>28. CASE OtherPhaseFails
      BY <1>28, FailedGoes DEF OtherPhaseFails, Fault
  <1>29. CASE RunContainerdStartFails
      BY <1>29, FailedGoes DEF RunContainerdStartFails, In, Fault, SystemctlStart
  <1>30. CASE NoVersion
      BY <1>30, PassedGoes DEF NoVersion, In, Fault
  <1>31. CASE ContainerFails
      BY <1>31 DEF ContainerFails, Fault, Skip, StepTo
  <1>32. CASE StopServiceFails
      BY <1>32, FailedGoes DEF StopServiceFails, Inside, Fault
  <1>33. CASE LoadImagesFails
      BY <1>33, FailedGoes DEF LoadImagesFails, Fault
  <1>34. CASE KubeletStartFails
      BY <1>34, FailedGoes DEF KubeletStartFails, Fault
  <1>35. CASE KubeletStopFails
      BY <1>35, FailedGoes DEF KubeletStopFails, In, Fault
  <1>36. CASE Killed
      BY <1>36 DEF Killed, Fault, Restarted, Idle, Go
  <1>37. CASE Reboot
      BY <1>37 DEF Reboot, Fault, Restarted, Idle, Go
  <1>38. CASE KubeletExits
      BY <1>38 DEF KubeletExits, Fault
  <1>39. CASE ContainerdExits
      BY <1>39 DEF ContainerdExits, Fault
  <1>40. ASSUME NEW f \in Files, Upload(f) PROVE KubeletInv'
      BY <1>40 DEF Upload
  <1>41. ASSUME NEW c \in Containers, CreateContainer(c) PROVE KubeletInv'
      BY <1>41 DEF CreateContainer
  <1>42. ASSUME NEW c \in Containers, TaskChanges(c) PROVE KubeletInv'
      BY <1>42 DEF TaskChanges
  <1>43. CASE KubeletReturns
      BY <1>43 DEF KubeletReturns
  <1>44. CASE Switch
      BY <1>44 DEF Switch
  <1>45. CASE UNCHANGED vars
      BY <1>45 DEF vars
  <1>. QED
      BY <1>1, <1>2, <1>3, <1>4, <1>5, <1>6, <1>7, <1>8, <1>9, <1>10, <1>11, <1>12,
         <1>13, <1>14, <1>15, <1>16, <1>17, <1>18, <1>19, <1>20, <1>21, <1>22,
         <1>23, <1>24, <1>25, <1>26, <1>27, <1>28, <1>29, <1>30, <1>31, <1>32,
         <1>33, <1>34, <1>35, <1>36, <1>37, <1>38, <1>39, <1>40, <1>41, <1>42,
         <1>43, <1>44, <1>45
         DEF Next, Loop, Destroy, Faults, Beside

\* Every step keeps what runs among what is still to be destroyed.
LEMMA DrainStep ==
  ASSUME LoopInv, KubeletInv, DrainInv, [Next]_vars
  PROVE  DrainInv'
  <1>. USE DEF LoopInv, KubeletInv, DrainInv, Alive, Without, Tasks, Destroying, loop,
             store, tasks, service, bounds
  <1>1. CASE Reconcile
      BY <1>1 DEF Reconcile, StopTo, Idle, Go
  <1>2. CASE RestOfPhases
      BY <1>2, PassedGoes DEF RestOfPhases
  <1>3. CASE ConfigureContainerdPasses
      BY <1>3, PassedGoes DEF ConfigureContainerdPasses, In
  <1>4. CASE ConfigureContainerdStart
      BY <1>4, PassedGoes DEF ConfigureContainerdStart, In
  <1>5. CASE RunContainerdStart
      BY <1>5, PassedGoes DEF RunContainerdStart, In, SystemctlStart
  <1>6. CASE RunContainerdStatus
      BY <1>6, PassedGoes, FailedGoes DEF RunContainerdStatus, In
  <1>7. CASE RunContainerdStop
      BY <1>7, FailedGoes DEF RunContainerdStop, In, ContainersInNamespacesList
  <1>8. CASE DestroyNext
    <2>1. PICK c \in queue :
             /\ victim' = c /\ queue' = queue \ {c}
             /\ StepTo(IF ctr[c] \in {"running", "paused"} THEN "term" ELSE "remove")
        BY <1>8 DEF DestroyNext
    <2>2. c \in Containers
        BY <1>8, <2>1 DEF DestroyNext, Inside
    <2>. QED
        BY <1>8, <2>1, <2>2 DEF DestroyNext, Inside, StepTo
  <1>9. CASE Terminate
      BY <1>9 DEF Terminate, Inside, StepTo, Skip
  <1>10. CASE WaitContainerStop
      BY <1>10 DEF WaitContainerStop, Inside, StepTo
  <1>11. CASE Kill
      BY <1>11 DEF Kill, Inside, StepTo, Skip
  <1>12. CASE RemoveContainer
      BY <1>12 DEF RemoveContainer, Inside, StepTo, Skip
  <1>13. CASE StopService
      BY <1>13, PassedGoes DEF StopService, Inside
  <1>14. CASE LoadImagesStop
      BY <1>14, PassedGoes DEF LoadImagesStop, In
  <1>15. CASE LoadImagesStatus
      BY <1>15, PassedGoes, FailedGoes DEF LoadImagesStatus, In, StepTo
  <1>16. CASE LoadImagesStart
      BY <1>16 DEF LoadImagesStart, In, StepTo
  <1>17. CASE GenerateHashForFile
      BY <1>17 DEF GenerateHashForFile
  <1>18. CASE VerifyChecksum
      BY <1>18, PassedGoes DEF VerifyChecksum, StepTo
  <1>19. CASE WriteChecksum
      BY <1>19 DEF WriteChecksum, StepTo
  <1>20. CASE LoadImagesFromFile
      BY <1>20, FailedGoes DEF LoadImagesFromFile
  <1>21. CASE LoadImagesDone
      BY <1>21, PassedGoes DEF LoadImagesDone
  <1>22. CASE KubeletStatus
      BY <1>22, PassedGoes, FailedGoes DEF KubeletStatus, In
  <1>23. CASE PrepareKubeletBootstrapConfig
      BY <1>23, PassedGoes DEF PrepareKubeletBootstrapConfig, In, StepTo
  <1>24. CASE KubeletSetup
      BY <1>24 DEF KubeletSetup, StepTo
  <1>25. CASE KubeletStart
      BY <1>25, PassedGoes DEF KubeletStart
  <1>26. CASE KubeletStop
      BY <1>26, PassedGoes DEF KubeletStop, In, IsKubeletRunning
  <1>27. CASE Panic
      BY <1>27 DEF Panic, Restarted, Idle, Go
  <1>28. CASE OtherPhaseFails
      BY <1>28, FailedGoes DEF OtherPhaseFails, Fault
  <1>29. CASE RunContainerdStartFails
      BY <1>29, FailedGoes DEF RunContainerdStartFails, In, Fault, SystemctlStart
  <1>30. CASE NoVersion
      BY <1>30, PassedGoes DEF NoVersion, In, Fault
  <1>31. CASE ContainerFails
      BY <1>31 DEF ContainerFails, Fault, Skip, StepTo
  <1>32. CASE StopServiceFails
      BY <1>32, FailedGoes DEF StopServiceFails, Inside, Fault
  <1>33. CASE LoadImagesFails
      BY <1>33, FailedGoes DEF LoadImagesFails, Fault
  <1>34. CASE KubeletStartFails
      BY <1>34, FailedGoes DEF KubeletStartFails, Fault
  <1>35. CASE KubeletStopFails
      BY <1>35, FailedGoes DEF KubeletStopFails, In, Fault
  <1>36. CASE Killed
      BY <1>36 DEF Killed, Fault, Restarted, Idle, Go
  <1>37. CASE Reboot
      BY <1>37 DEF Reboot, Fault, Restarted, Idle, Go
  <1>38. CASE KubeletExits
      BY <1>38 DEF KubeletExits, Fault
  <1>39. CASE ContainerdExits
      BY <1>39 DEF ContainerdExits, Fault
  <1>40. ASSUME NEW f \in Files, Upload(f) PROVE DrainInv'
      BY <1>40 DEF Upload
  <1>41. ASSUME NEW c \in Containers, CreateContainer(c) PROVE DrainInv'
      BY <1>41 DEF CreateContainer
  <1>42. ASSUME NEW c \in Containers, TaskChanges(c) PROVE DrainInv'
      BY <1>42 DEF TaskChanges
  <1>43. CASE KubeletReturns
      BY <1>43 DEF KubeletReturns
  <1>44. CASE Switch
      BY <1>44 DEF Switch
  <1>45. CASE UNCHANGED vars
      BY <1>45 DEF vars
  <1>. QED
      BY <1>1, <1>2, <1>3, <1>4, <1>5, <1>6, <1>7, <1>8, <1>9, <1>10, <1>11, <1>12,
         <1>13, <1>14, <1>15, <1>16, <1>17, <1>18, <1>19, <1>20, <1>21, <1>22,
         <1>23, <1>24, <1>25, <1>26, <1>27, <1>28, <1>29, <1>30, <1>31, <1>32,
         <1>33, <1>34, <1>35, <1>36, <1>37, <1>38, <1>39, <1>40, <1>41, <1>42,
         <1>43, <1>44, <1>45
         DEF Next, Loop, Destroy, Faults, Beside

\* Every step keeps containerd running where it is needed.
LEMMA ContainerdStep ==
  ASSUME LoopInv, ContainerdInv, [Next]_vars
  PROVE  ContainerdInv'
  <1>. USE DEF LoopInv, ContainerdInv, Without, Destroying, loop, store, tasks, service,
             bounds
  <1>1. CASE Reconcile
      BY <1>1 DEF Reconcile, StopTo, Idle, Go
  <1>2. CASE RestOfPhases
      BY <1>2, PassedGoes DEF RestOfPhases
  <1>3. CASE ConfigureContainerdPasses
      BY <1>3, PassedGoes DEF ConfigureContainerdPasses, In
  <1>4. CASE ConfigureContainerdStart
      BY <1>4, PassedGoes DEF ConfigureContainerdStart, In
  <1>5. CASE RunContainerdStart
      BY <1>5, PassedGoes DEF RunContainerdStart, In, SystemctlStart
  <1>6. CASE RunContainerdStatus
      BY <1>6, PassedGoes, FailedGoes DEF RunContainerdStatus, In
  <1>7. CASE RunContainerdStop
      BY <1>7, FailedGoes DEF RunContainerdStop, In, ContainersInNamespacesList
  <1>8. CASE DestroyNext
      BY <1>8 DEF DestroyNext, Inside, StepTo
  <1>9. CASE Terminate
      BY <1>9 DEF Terminate, Inside, StepTo, Skip
  <1>10. CASE WaitContainerStop
      BY <1>10 DEF WaitContainerStop, Inside, StepTo
  <1>11. CASE Kill
      BY <1>11 DEF Kill, Inside, StepTo, Skip
  <1>12. CASE RemoveContainer
      BY <1>12 DEF RemoveContainer, Inside, StepTo, Skip
  <1>13. CASE StopService
      BY <1>13, PassedGoes DEF StopService, Inside
  <1>14. CASE LoadImagesStop
      BY <1>14, PassedGoes DEF LoadImagesStop, In
  <1>15. CASE LoadImagesStatus
      BY <1>15, PassedGoes, FailedGoes DEF LoadImagesStatus, In, StepTo
  <1>16. CASE LoadImagesStart
      BY <1>16 DEF LoadImagesStart, In, StepTo
  <1>17. CASE GenerateHashForFile
      BY <1>17 DEF GenerateHashForFile
  <1>18. CASE VerifyChecksum
      BY <1>18, PassedGoes DEF VerifyChecksum, StepTo
  <1>19. CASE WriteChecksum
      BY <1>19 DEF WriteChecksum, StepTo
  <1>20. CASE LoadImagesFromFile
      BY <1>20, FailedGoes DEF LoadImagesFromFile
  <1>21. CASE LoadImagesDone
      BY <1>21, PassedGoes DEF LoadImagesDone
  <1>22. CASE KubeletStatus
      BY <1>22, PassedGoes, FailedGoes DEF KubeletStatus, In
  <1>23. CASE PrepareKubeletBootstrapConfig
      BY <1>23, PassedGoes DEF PrepareKubeletBootstrapConfig, In, StepTo
  <1>24. CASE KubeletSetup
      BY <1>24 DEF KubeletSetup, StepTo
  <1>25. CASE KubeletStart
      BY <1>25, PassedGoes DEF KubeletStart
  <1>26. CASE KubeletStop
      BY <1>26, PassedGoes DEF KubeletStop, In, IsKubeletRunning
  <1>27. CASE Panic
      BY <1>27 DEF Panic, Restarted, Idle, Go
  <1>28. CASE OtherPhaseFails
      BY <1>28, FailedGoes DEF OtherPhaseFails, Fault
  <1>29. CASE RunContainerdStartFails
      BY <1>29, FailedGoes DEF RunContainerdStartFails, In, Fault, SystemctlStart
  <1>30. CASE NoVersion
      BY <1>30, PassedGoes DEF NoVersion, In, Fault
  <1>31. CASE ContainerFails
      BY <1>31 DEF ContainerFails, Fault, Skip, StepTo
  <1>32. CASE StopServiceFails
      BY <1>32, FailedGoes DEF StopServiceFails, Inside, Fault
  <1>33. CASE LoadImagesFails
      BY <1>33, FailedGoes DEF LoadImagesFails, Fault
  <1>34. CASE KubeletStartFails
      BY <1>34, FailedGoes DEF KubeletStartFails, Fault
  <1>35. CASE KubeletStopFails
      BY <1>35, FailedGoes DEF KubeletStopFails, In, Fault
  <1>36. CASE Killed
      BY <1>36 DEF Killed, Fault, Restarted, Idle, Go
  <1>37. CASE Reboot
      BY <1>37 DEF Reboot, Fault, Restarted, Idle, Go
  <1>38. CASE KubeletExits
      BY <1>38 DEF KubeletExits, Fault
  <1>39. CASE ContainerdExits
      BY <1>39 DEF ContainerdExits, Fault
  <1>40. ASSUME NEW f \in Files, Upload(f) PROVE ContainerdInv'
      BY <1>40 DEF Upload
  <1>41. ASSUME NEW c \in Containers, CreateContainer(c) PROVE ContainerdInv'
      BY <1>41 DEF CreateContainer
  <1>42. ASSUME NEW c \in Containers, TaskChanges(c) PROVE ContainerdInv'
      BY <1>42 DEF TaskChanges
  <1>43. CASE KubeletReturns
      BY <1>43 DEF KubeletReturns
  <1>44. CASE Switch
      BY <1>44 DEF Switch
  <1>45. CASE UNCHANGED vars
      BY <1>45 DEF vars
  <1>. QED
      BY <1>1, <1>2, <1>3, <1>4, <1>5, <1>6, <1>7, <1>8, <1>9, <1>10, <1>11, <1>12,
         <1>13, <1>14, <1>15, <1>16, <1>17, <1>18, <1>19, <1>20, <1>21, <1>22,
         <1>23, <1>24, <1>25, <1>26, <1>27, <1>28, <1>29, <1>30, <1>31, <1>32,
         <1>33, <1>34, <1>35, <1>36, <1>37, <1>38, <1>39, <1>40, <1>41, <1>42,
         <1>43, <1>44, <1>45
         DEF Next, Loop, Destroy, Faults, Beside

\* Versions of files only grow, and no line is younger than its file.
LEMMA LinesStep ==
  ASSUME LinesInv, [Next]_vars
  PROVE  LinesInv'
  <1>. USE DEF LinesInv, NoLines, loop, store, tasks, service, bounds
  <1>1. CASE Reconcile
      BY <1>1 DEF Reconcile, StopTo, Idle, Go
  <1>2. CASE RestOfPhases
      BY <1>2 DEF RestOfPhases
  <1>3. CASE ConfigureContainerdPasses
      BY <1>3 DEF ConfigureContainerdPasses, In
  <1>4. CASE ConfigureContainerdStart
      BY <1>4 DEF ConfigureContainerdStart, In
  <1>5. CASE RunContainerdStart
      BY <1>5 DEF RunContainerdStart, In, SystemctlStart
  <1>6. CASE RunContainerdStatus
      BY <1>6 DEF RunContainerdStatus, In
  <1>7. CASE RunContainerdStop
      BY <1>7 DEF RunContainerdStop, In, ContainersInNamespacesList
  <1>8. CASE DestroyNext
      BY <1>8 DEF DestroyNext, Inside, StepTo
  <1>9. CASE Terminate
      BY <1>9 DEF Terminate, Inside, StepTo, Skip
  <1>10. CASE WaitContainerStop
      BY <1>10 DEF WaitContainerStop, Inside, StepTo
  <1>11. CASE Kill
      BY <1>11 DEF Kill, Inside, StepTo, Skip
  <1>12. CASE RemoveContainer
      BY <1>12 DEF RemoveContainer, Inside, StepTo, Skip
  <1>13. CASE StopService
      BY <1>13 DEF StopService, Inside
  <1>14. CASE LoadImagesStop
      BY <1>14 DEF LoadImagesStop, In
  <1>15. CASE LoadImagesStatus
    <2>1. UNCHANGED <<files, sums>> /\ hash' \in {hash, NoLines}
        BY <1>15 DEF LoadImagesStatus
    <2>. QED
        BY <2>1
  <1>16. CASE LoadImagesStart
      BY <1>16 DEF LoadImagesStart, In, StepTo
  <1>17. CASE GenerateHashForFile
    <2>. DEFINE f == FirstOf(todo)
    <2>1. hash' = [hash EXCEPT ![f] = files[f]] /\ UNCHANGED <<files, sums>>
        BY <1>17 DEF GenerateHashForFile
    <2>. HIDE DEF f
    <2>2. hash' \in [Files -> Nat]
        BY <2>1
    <2>3. \A g \in Files : hash'[g] = IF g = f THEN files[g] ELSE hash[g]
        BY <2>1
    <2>4. \A g \in Files : hash'[g] <= files[g]
        BY <2>3
    <2>. QED
        BY <2>1, <2>2, <2>4
  <1>18. CASE VerifyChecksum
    <2>1. UNCHANGED <<files, sums>> /\ hash' \in {hash, NoLines}
        BY <1>18 DEF VerifyChecksum
    <2>. QED
        BY <2>1
  <1>19. CASE WriteChecksum
      BY <1>19 DEF WriteChecksum, StepTo
  <1>20. CASE LoadImagesFromFile
      BY <1>20 DEF LoadImagesFromFile
  <1>21. CASE LoadImagesDone
      BY <1>21 DEF LoadImagesDone
  <1>22. CASE KubeletStatus
      BY <1>22 DEF KubeletStatus, In
  <1>23. CASE PrepareKubeletBootstrapConfig
      BY <1>23 DEF PrepareKubeletBootstrapConfig, In, StepTo
  <1>24. CASE KubeletSetup
      BY <1>24 DEF KubeletSetup, StepTo
  <1>25. CASE KubeletStart
      BY <1>25 DEF KubeletStart
  <1>26. CASE KubeletStop
      BY <1>26 DEF KubeletStop, In, IsKubeletRunning
  <1>27. CASE Panic
      BY <1>27 DEF Panic, Restarted, Idle, Go
  <1>28. CASE OtherPhaseFails
      BY <1>28 DEF OtherPhaseFails, Fault
  <1>29. CASE RunContainerdStartFails
      BY <1>29 DEF RunContainerdStartFails, In, Fault, SystemctlStart
  <1>30. CASE NoVersion
      BY <1>30 DEF NoVersion, In, Fault
  <1>31. CASE ContainerFails
      BY <1>31 DEF ContainerFails, Fault, Skip, StepTo
  <1>32. CASE StopServiceFails
      BY <1>32 DEF StopServiceFails, Inside, Fault
  <1>33. CASE LoadImagesFails
      BY <1>33 DEF LoadImagesFails, Fault
  <1>34. CASE KubeletStartFails
      BY <1>34 DEF KubeletStartFails, Fault
  <1>35. CASE KubeletStopFails
      BY <1>35 DEF KubeletStopFails, In, Fault
  <1>36. CASE Killed
    <2>1. UNCHANGED files /\ hash' = NoLines
        BY <1>36 DEF Killed, Restarted
    <2>2. sums' = sums \/ \E n \in 0 .. NumFiles : sums' = FirstLines(n)
        BY <1>36 DEF Killed
    <2>3. ASSUME NEW n \in 0 .. NumFiles
          PROVE  /\ FirstLines(n) \in [Files -> Nat]
                 /\ \A f \in Files : FirstLines(n)[f] <= files[f]
        BY DEF FirstLines, Files
    <2>. QED
        BY <2>1, <2>2, <2>3
  <1>37. CASE Reboot
      BY <1>37 DEF Reboot, Fault, Restarted, Idle, Go
  <1>38. CASE KubeletExits
      BY <1>38 DEF KubeletExits, Fault
  <1>39. CASE ContainerdExits
      BY <1>39 DEF ContainerdExits, Fault
  <1>40. ASSUME NEW f \in Files, Upload(f) PROVE LinesInv'
    <2>1. files' = [files EXCEPT ![f] = files[f] + 1] /\ UNCHANGED <<hash, sums>>
        BY <1>40 DEF Upload
    <2>2. files' \in [Files -> Nat] /\ \A g \in Files : files[g] <= files'[g]
        BY <2>1
    <2>3. \A g \in Files : hash'[g] <= files'[g]
        BY <2>1, <2>2
    <2>4. ASSUME sums # Missing
          PROVE  sums' \in [Files -> Nat] /\ \A g \in Files : sums'[g] <= files'[g]
        BY <2>1, <2>2, <2>4
    <2>. QED
        BY <2>1, <2>2, <2>3, <2>4
  <1>41. ASSUME NEW c \in Containers, CreateContainer(c) PROVE LinesInv'
      BY <1>41 DEF CreateContainer
  <1>42. ASSUME NEW c \in Containers, TaskChanges(c) PROVE LinesInv'
      BY <1>42 DEF TaskChanges
  <1>43. CASE KubeletReturns
      BY <1>43 DEF KubeletReturns
  <1>44. CASE Switch
      BY <1>44 DEF Switch
  <1>45. CASE UNCHANGED vars
      BY <1>45 DEF vars
  <1>. QED
      BY <1>1, <1>2, <1>3, <1>4, <1>5, <1>6, <1>7, <1>8, <1>9, <1>10, <1>11, <1>12,
         <1>13, <1>14, <1>15, <1>16, <1>17, <1>18, <1>19, <1>20, <1>21, <1>22,
         <1>23, <1>24, <1>25, <1>26, <1>27, <1>28, <1>29, <1>30, <1>31, <1>32,
         <1>33, <1>34, <1>35, <1>36, <1>37, <1>38, <1>39, <1>40, <1>41, <1>42,
         <1>43, <1>44, <1>45
         DEF Next, Loop, Destroy, Faults, Beside

\* Every step keeps true lines imported, or about to be.
LEMMA ImportStep ==
  ASSUME LoopInv, ContainerdInv, LinesInv, ImportInv, [Next]_vars
  PROVE  ImportInv'
  <1>. USE DEF LoopInv, ContainerdInv, LinesInv, ImportInv, Without, Destroying, loop,
             store, tasks, service, bounds
  <1>1. CASE Reconcile
      BY <1>1 DEF Reconcile, StopTo, Idle, Go
  <1>2. CASE RestOfPhases
      BY <1>2, PassedGoes DEF RestOfPhases
  <1>3. CASE ConfigureContainerdPasses
      BY <1>3, PassedGoes DEF ConfigureContainerdPasses, In
  <1>4. CASE ConfigureContainerdStart
      BY <1>4, PassedGoes DEF ConfigureContainerdStart, In
  <1>5. CASE RunContainerdStart
      BY <1>5, PassedGoes DEF RunContainerdStart, In, SystemctlStart
  <1>6. CASE RunContainerdStatus
      BY <1>6, PassedGoes, FailedGoes DEF RunContainerdStatus, In
  <1>7. CASE RunContainerdStop
      BY <1>7, FailedGoes DEF RunContainerdStop, In, ContainersInNamespacesList
  <1>8. CASE DestroyNext
      BY <1>8 DEF DestroyNext, Inside, StepTo
  <1>9. CASE Terminate
      BY <1>9 DEF Terminate, Inside, StepTo, Skip
  <1>10. CASE WaitContainerStop
      BY <1>10 DEF WaitContainerStop, Inside, StepTo
  <1>11. CASE Kill
      BY <1>11 DEF Kill, Inside, StepTo, Skip
  <1>12. CASE RemoveContainer
      BY <1>12 DEF RemoveContainer, Inside, StepTo, Skip
  <1>13. CASE StopService
      BY <1>13, PassedGoes DEF StopService, Inside
  <1>14. CASE LoadImagesStop
      BY <1>14, PassedGoes DEF LoadImagesStop, In
  <1>15. CASE LoadImagesStatus
      BY <1>15, PassedGoes, FailedGoes DEF LoadImagesStatus, In, StepTo
  <1>16. CASE LoadImagesStart
      BY <1>16 DEF LoadImagesStart, In, StepTo
  <1>17. CASE GenerateHashForFile
      BY <1>17 DEF GenerateHashForFile
  <1>18. CASE VerifyChecksum
      BY <1>18, PassedGoes DEF VerifyChecksum, StepTo
  <1>19. CASE WriteChecksum
      BY <1>19 DEF WriteChecksum, StepTo, Present
  <1>20. CASE LoadImagesFromFile
      BY <1>20, FailedGoes DEF LoadImagesFromFile
  <1>21. CASE LoadImagesDone
      BY <1>21, PassedGoes DEF LoadImagesDone
  <1>22. CASE KubeletStatus
      BY <1>22, PassedGoes, FailedGoes DEF KubeletStatus, In
  <1>23. CASE PrepareKubeletBootstrapConfig
      BY <1>23, PassedGoes DEF PrepareKubeletBootstrapConfig, In, StepTo
  <1>24. CASE KubeletSetup
      BY <1>24 DEF KubeletSetup, StepTo
  <1>25. CASE KubeletStart
      BY <1>25, PassedGoes DEF KubeletStart
  <1>26. CASE KubeletStop
      BY <1>26, PassedGoes DEF KubeletStop, In, IsKubeletRunning
  <1>27. CASE Panic
      BY <1>27 DEF Panic, Restarted, Idle, Go
  <1>28. CASE OtherPhaseFails
      BY <1>28, FailedGoes DEF OtherPhaseFails, Fault
  <1>29. CASE RunContainerdStartFails
      BY <1>29, FailedGoes DEF RunContainerdStartFails, In, Fault, SystemctlStart
  <1>30. CASE NoVersion
      BY <1>30, PassedGoes DEF NoVersion, In, Fault
  <1>31. CASE ContainerFails
      BY <1>31 DEF ContainerFails, Fault, Skip, StepTo
  <1>32. CASE StopServiceFails
      BY <1>32, FailedGoes DEF StopServiceFails, Inside, Fault
  <1>33. CASE LoadImagesFails
      BY <1>33, FailedGoes DEF LoadImagesFails, Fault
  <1>34. CASE KubeletStartFails
      BY <1>34, FailedGoes DEF KubeletStartFails, Fault
  <1>35. CASE KubeletStopFails
      BY <1>35, FailedGoes DEF KubeletStopFails, In, Fault
  <1>36. CASE Killed
      BY <1>36 DEF Killed, Fault, Restarted, Idle, Go
  <1>37. CASE Reboot
      BY <1>37 DEF Reboot, Fault, Restarted, Idle, Go
  <1>38. CASE KubeletExits
      BY <1>38 DEF KubeletExits, Fault
  <1>39. CASE ContainerdExits
      BY <1>39 DEF ContainerdExits, Fault
  <1>40. ASSUME NEW f \in Files, Upload(f) PROVE ImportInv'
      BY <1>40 DEF Upload
  <1>41. ASSUME NEW c \in Containers, CreateContainer(c) PROVE ImportInv'
      BY <1>41 DEF CreateContainer
  <1>42. ASSUME NEW c \in Containers, TaskChanges(c) PROVE ImportInv'
      BY <1>42 DEF TaskChanges
  <1>43. CASE KubeletReturns
      BY <1>43 DEF KubeletReturns
  <1>44. CASE Switch
      BY <1>44 DEF Switch
  <1>45. CASE UNCHANGED vars
      BY <1>45 DEF vars
  <1>. QED
      BY <1>1, <1>2, <1>3, <1>4, <1>5, <1>6, <1>7, <1>8, <1>9, <1>10, <1>11, <1>12,
         <1>13, <1>14, <1>15, <1>16, <1>17, <1>18, <1>19, <1>20, <1>21, <1>22,
         <1>23, <1>24, <1>25, <1>26, <1>27, <1>28, <1>29, <1>30, <1>31, <1>32,
         <1>33, <1>34, <1>35, <1>36, <1>37, <1>38, <1>39, <1>40, <1>41, <1>42,
         <1>43, <1>44, <1>45
         DEF Next, Loop, Destroy, Faults, Beside


\* The first of some files is one of them.
LEMMA FirstIn ==
  ASSUME NEW S \in SUBSET Files, S # {}
  PROVE  FirstOf(S) \in S
  <1>. DEFINE R == OpToRel(<, Nat)
  <1>0. S \subseteq Nat
      BY RuntimeAssumption DEF Files
  <1>1. IsWellFoundedOn(R, Nat)
      BY NatLessThanWellFounded
  <1>2. \A x, y \in S : y < x => <<y, x>> \in R
      BY <1>0 DEF OpToRel
  <1>. HIDE DEF R
  <1>3. \E x \in S : \A y \in S : ~(<<y, x>> \in R)
      BY <1>0, <1>1, WFMin, Zenon
  <1>4. \E x \in S : \A y \in S : ~(y < x)
      BY <1>2, <1>3, Zenon
  <1>5. \E x \in S : \A y \in S : x <= y
      BY <1>0, <1>4
  <1>. QED
      BY <1>5 DEF FirstOf

-----------------------------------------------------------------------------
(* The configuration in effect.                                              *)

Sound(kinds) == kinds \cap {"other", "version", "containerd", "kubelet"} = {}

\* Only the last phase makes a stack count as started.
LEMMA PassedKeeps ==
  ASSUME LoopInv, mode # "idle", Passed
  PROVE  /\ from' \in {1, from} /\ failStep' \in {None, failStep}
         /\ serviceState' => serviceState \/ (mode \in {"status", "start"} /\ at = Rest)
  <1>1. CASE mode = "status" /\ at < Rest
      BY <1>1 DEF LoopInv, Passed, StatusPassed, Go
  <1>2. CASE mode = "status" /\ at = Rest
      BY <1>2 DEF LoopInv, Passed, StatusPassed, Running, StopTo, Idle, Go
  <1>3. CASE mode = "stop"
      BY <1>3 DEF LoopInv, Passed, StopPassed, StopEnds, Idle, Go
  <1>4. CASE mode = "start" /\ at < Rest
      BY <1>4 DEF LoopInv, Passed, StartPassed, Go
  <1>5. CASE mode = "start" /\ at = Rest
      BY <1>5 DEF LoopInv, Passed, StartPassed, Idle, Go
  <1>. QED
      BY <1>1, <1>2, <1>3, <1>4, <1>5 DEF LoopInv

\* A stop that does not go down to the first phase is one of a stack that counted
\* as started, or whose start failed.
LEMMA FailedKeeps ==
  ASSUME LoopInv, mode # "idle", Failed
  PROVE  /\ from' \in {1, from} \/ serviceState
         /\ failStep' \in {None, failStep} \/ mode = "start"
         /\ serviceState' => serviceState
  <1>1. CASE mode = "status" /\ serviceState
    <2>1. failStep' \in {None, failStep}
        BY <1>1 DEF LoopInv, Failed, StatusFailed, Running, StopTo, Idle, Go
    <2>. QED
        BY <1>1, <2>1
  <1>2. CASE mode = "status" /\ ~serviceState
      BY <1>2 DEF LoopInv, Failed, StatusFailed, StopTo, Idle, Go
  <1>3. CASE mode = "stop"
      BY <1>3 DEF LoopInv, Failed, StopEnds, Idle, Go
  <1>4. CASE mode = "start"
      BY <1>4 DEF LoopInv, Failed, StartFailed, Idle, Go
  <1>. QED
      BY <1>1, <1>2, <1>3, <1>4 DEF LoopInv

\* What a phase that passes has to leave for the next one.
LEMMA ConfigPassed ==
  ASSUME LoopInv, ConfigInv, mode # "idle", Passed, faults \subseteq faults',
         conf' \in 0 .. 1, launched' \in 0 .. 1, Configured => Configured',
         Sound(faults') /\ ~Configured' =>
            /\ kubelet = "inactive" => kubelet' = "inactive"
            /\ containerd = "inactive" => containerd' = "inactive"
            /\ mode = "status" => at < Kubelet
            /\ mode = "stop" /\ at = RunContainerd => containerd' = "inactive"
            /\ mode = "start" => at = ConfigureContainerd /\ conf' = 1
  PROVE  ConfigInv'
  <1>. SUFFICES ASSUME Sound(faults'), ~Configured'
                PROVE  ConfigInv'
      BY DEF ConfigInv, Without, Sound
  <1>1. Sound(faults) /\ ~Configured
      BY DEF Sound
  <1>2. /\ kubelet = "inactive" /\ ~serviceState /\ failStep = None /\ from = 1
        /\ mode = "stop" /\ at < RunContainerd => containerd = "inactive"
        /\ mode = "start" => containerd = "inactive"
      BY <1>1 DEF ConfigInv, Without, Sound
  <1>3. at \in 1 .. Rest /\ mode \in {"status", "stop", "start"}
      BY DEF LoopInv
  <1>4. kubelet' = "inactive" /\ failStep' = None /\ from' = 1
      BY <1>1, <1>2, PassedKeeps
  <1>5. ~serviceState'
      BY <1>1, <1>2, PassedKeeps
  <1>6. mode' = "status" => at' < Rest
      BY <1>3, PassedGoes
  <1>7. mode' = "stop" /\ at' < RunContainerd => containerd' = "inactive"
      BY <1>2, <1>3, PassedGoes
  <1>8. mode' = "start" => /\ at' <= RunContainerd /\ containerd' = "inactive"
                           /\ at' = RunContainerd => conf' = 1
      BY <1>2, <1>3, PassedGoes
  <1>. QED
      BY <1>4, <1>5, <1>6, <1>7, <1>8 DEF ConfigInv

\* A phase that fails without a fault is a status, the stop of a containerd that
\* does not run, or comes after the start of containerd.
LEMMA ConfigFailed ==
  ASSUME LoopInv, ConfigInv, mode # "idle", Failed, faults \subseteq faults',
         UNCHANGED conf, launched' \in 0 .. 1, Configured => Configured',
         Sound(faults') =>
            /\ UNCHANGED <<containerd, kubelet, launched>>
            /\ mode = "stop" => containerd = "inactive"
            /\ mode = "start" => at > RunContainerd
  PROVE  ConfigInv'
  <1>0. conf' \in 0 .. 1
      BY DEF ConfigInv
  <1>. SUFFICES ASSUME Sound(faults'), ~Configured'
                PROVE  ConfigInv'
      BY <1>0 DEF ConfigInv, Without, Sound
  <1>1. Sound(faults) /\ ~Configured
      BY DEF Sound
  <1>2. /\ kubelet = "inactive" /\ ~serviceState /\ failStep = None /\ from = 1
        /\ mode = "start" => at <= RunContainerd
      BY <1>1 DEF ConfigInv, Without, Sound
  <1>3. at \in 1 .. Rest /\ mode \in {"status", "stop"}
      BY <1>2 DEF LoopInv
  <1>4. kubelet' = "inactive" /\ failStep' = None /\ from' = 1
      BY <1>2, <1>3, FailedKeeps
  <1>5. ~serviceState'
      BY <1>2, FailedKeeps
  <1>6. /\ mode' # "status"
        /\ mode' = "stop" => at' = Rest
        /\ mode' = "start" => at' = 1 /\ containerd' = "inactive"
      BY <1>2, <1>3, FailedGoes
  <1>. QED
      BY <1>0, <1>4, <1>5, <1>6 DEF ConfigInv

\* A step that is not one from phase to phase.
LEMMA ConfigSame ==
  ASSUME LoopInv, ConfigInv,
         UNCHANGED <<mode, at, from, serviceState, failStep, conf, launched>>,
         faults \subseteq faults',
         Sound(faults') => /\ kubelet = "inactive" => kubelet' = "inactive"
                           /\ containerd = "inactive" => containerd' = "inactive"
  PROVE  ConfigInv'
  <1>1. conf' \in 0 .. 1 /\ launched' \in 0 .. 1 /\ (Configured' <=> Configured)
      BY DEF ConfigInv, Configured
  <1>. SUFFICES ASSUME Sound(faults'), ~Configured'
                PROVE  ConfigInv'
      BY <1>1 DEF ConfigInv, Without, Sound
  <1>2. Sound(faults) /\ ~Configured
      BY <1>1 DEF Sound
  <1>. QED
      BY <1>1, <1>2 DEF ConfigInv, Without, Sound

\* A new nodeletd knows of nothing that was started.
LEMMA ConfigRestarted ==
  ASSUME LoopInv, ConfigInv, Restarted, faults \subseteq faults', UNCHANGED conf,
         launched' \in {launched, conf}, kubelet' \in {kubelet, "inactive"}
  PROVE  ConfigInv'
  <1>1. conf' \in 0 .. 1 /\ launched' \in 0 .. 1 /\ (Configured => Configured')
      BY DEF ConfigInv, Configured
  <1>. SUFFICES ASSUME Sound(faults'), ~Configured'
                PROVE  ConfigInv'
      BY <1>1 DEF ConfigInv, Without, Sound
  <1>2. Sound(faults) /\ ~Configured
      BY <1>1 DEF Sound
  <1>3. kubelet' = "inactive"
      BY <1>2 DEF ConfigInv, Without, Sound
  <1>. QED
      BY <1>1, <1>3 DEF ConfigInv, Restarted, Idle, Go

\* Every step keeps what is started on a containerd with the table.
LEMMA ConfigStep ==
  ASSUME LoopInv, KubeletInv, ContainerdInv, ConfigInv, [Next]_vars
  PROVE  ConfigInv'
  <1>0. Sound(faults) /\ ~Configured =>
        /\ kubelet = "inactive" /\ failStep = None /\ (mode = "status" => at < Rest)
        /\ mode = "start" => /\ at <= RunContainerd /\ containerd = "inactive"
                             /\ at = RunContainerd => conf = 1
      BY DEF ConfigInv, Without, Sound
  <1>a. conf \in 0 .. 1 /\ launched \in 0 .. 1
      BY DEF ConfigInv
  <1>b. /\ at \in 1 .. Rest
        /\ step \in {"enter", "hash", "record", "load", "setup", "start"} \cup Destroying
        /\ step \in {"hash", "record", "load"} =>
              mode \in {"status", "start"} /\ at = LoadImages
        /\ step \in {"setup", "start"} => mode = "start" /\ at = Kubelet
      BY DEF LoopInv
  <1>1. CASE Reconcile
    <2>1. /\ mode = "idle" /\ UNCHANGED <<serviceState, conf, launched, kubelet, faults>>
          /\ UNCHANGED failStep
          /\ failStep = None => mode' = "status" /\ at' = 1 /\ from' = from
        BY <1>1 DEF Reconcile, Go, service, bounds
    <2>. QED
        BY <1>0, <2>1 DEF ConfigInv, Configured, Without, Sound
  <1>2. CASE RestOfPhases
    <2>1. /\ mode # "idle" /\ Passed
          /\ UNCHANGED <<conf, launched, containerd, kubelet, faults>>
          /\ at = Rest
        BY <1>2, <1>b DEF RestOfPhases, service, bounds
    <2>. QED
        BY <1>0, <1>a, <1>b, <2>1, ConfigPassed DEF Configured, Sound
  <1>3. CASE ConfigureContainerdPasses
    <2>1. /\ mode # "idle" /\ Passed
          /\ UNCHANGED <<conf, launched, containerd, kubelet, faults>>
          /\ at = ConfigureContainerd /\ mode # "start"
        BY <1>3, <1>b DEF ConfigureContainerdPasses, In, service, bounds
    <2>. QED
        BY <1>0, <1>a, <1>b, <2>1, ConfigPassed DEF Configured, Sound
  <1>4. CASE LoadImagesStop
    <2>1. /\ mode # "idle" /\ Passed
          /\ UNCHANGED <<conf, launched, containerd, kubelet, faults>>
          /\ at = LoadImages /\ mode = "stop"
        BY <1>4, <1>b DEF LoadImagesStop, In, service, bounds
    <2>. QED
        BY <1>0, <1>a, <1>b, <2>1, ConfigPassed DEF Configured, Sound
  <1>5. CASE RunContainerdStatus /\ containerd = "active"
    <2>1. /\ mode # "idle" /\ Passed
          /\ UNCHANGED <<conf, launched, containerd, kubelet, faults>>
          /\ mode = "status" /\ at = RunContainerd
        BY <1>5, <1>b DEF RunContainerdStatus, In, service, bounds
    <2>. QED
        BY <1>0, <1>a, <1>b, <2>1, ConfigPassed DEF Configured, Sound
  <1>6. CASE LoadImagesStatus /\ ~dir
    <2>1. /\ mode # "idle" /\ Passed
          /\ UNCHANGED <<conf, launched, containerd, kubelet, faults>>
          /\ mode = "status" /\ at = LoadImages
        BY <1>6, <1>b DEF LoadImagesStatus, In, service, bounds
    <2>. QED
        BY <1>0, <1>a, <1>b, <2>1, ConfigPassed DEF Configured, Sound
  <1>7. CASE VerifyChecksum /\ sums = hash
    <2>1. /\ mode # "idle" /\ Passed
          /\ UNCHANGED <<conf, launched, containerd, kubelet, faults>>
          /\ mode \in {"status", "start"} /\ at = LoadImages
        BY <1>7, <1>b DEF VerifyChecksum, service, bounds
    <2>. QED
        BY <1>0, <1>a, <1>b, <2>1, ConfigPassed DEF Configured, Sound
  <1>8. CASE LoadImagesDone
    <2>1. /\ mode # "idle" /\ Passed
          /\ UNCHANGED <<conf, launched, containerd, kubelet, faults>>
          /\ mode \in {"status", "start"} /\ at = LoadImages
        BY <1>8, <1>b DEF LoadImagesDone, service, bounds
    <2>. QED
        BY <1>0, <1>a, <1>b, <2>1, ConfigPassed DEF Configured, Sound
  <1>9. CASE KubeletStatus /\ IsKubeletRunning
    <2>1. /\ mode # "idle" /\ Passed
          /\ UNCHANGED <<conf, launched, containerd, kubelet, faults>>
          /\ mode = "status" /\ at = Kubelet /\ kubelet # "inactive"
        BY <1>9, <1>b DEF KubeletStatus, In, IsKubeletRunning, service, bounds
    <2>. QED
        BY <1>0, <1>a, <1>b, <2>1, ConfigPassed DEF Configured, Sound
  <1>10. CASE PrepareKubeletBootstrapConfig /\ IsKubeletRunning
    <2>1. /\ mode # "idle" /\ Passed
          /\ UNCHANGED <<conf, launched, containerd, kubelet, faults>>
          /\ mode = "start" /\ at = Kubelet
        BY <1>10, <1>b DEF PrepareKubeletBootstrapConfig, In, service, bounds
    <2>. QED
        BY <1>0, <1>a, <1>b, <2>1, ConfigPassed DEF Configured, Sound
  <1>11. CASE ConfigureContainerdStart
    <2>1. /\ mode = "start" /\ at = ConfigureContainerd /\ Passed
          /\ conf' = 1 /\ UNCHANGED <<launched, containerd, kubelet, faults>>
        BY <1>11, <1>a DEF ConfigureContainerdStart, In, bounds
    <2>. QED
        BY <1>a, <2>1, ConfigPassed DEF Configured
  <1>12. CASE RunContainerdStart
    <2>1. /\ mode = "start" /\ at = RunContainerd /\ Passed
          /\ UNCHANGED <<conf, kubelet, faults>> /\ launched' \in {launched, conf}
          /\ containerd = "inactive" => launched' = conf
        BY <1>12 DEF RunContainerdStart, In, SystemctlStart, bounds
    <2>2. Configured => Configured'
        BY <1>a, <2>1 DEF Configured
    <2>3. Sound(faults') => Configured'
        BY <1>0, <2>1 DEF Configured
    <2>. QED
        BY <1>a, <2>1, <2>2, <2>3, ConfigPassed
  <1>13. CASE StopService
    <2>1. /\ mode = "stop" /\ Passed /\ containerd' = "inactive"
          /\ UNCHANGED <<conf, launched, kubelet, faults>>
        BY <1>13 DEF StopService, Inside, bounds
    <2>. QED
        BY <1>a, <2>1, ConfigPassed DEF Configured
  <1>14. CASE KubeletStart
    <2>1. /\ mode = "start" /\ at = Kubelet /\ Passed
          /\ UNCHANGED <<conf, launched, containerd, faults>>
        BY <1>14, <1>b DEF KubeletStart, service, bounds
    <2>2. Sound(faults') => Configured'
        BY <1>0, <2>1 DEF Configured
    <2>. QED
        BY <1>a, <2>1, <2>2, ConfigPassed DEF Configured
  <1>15. CASE KubeletStop
    <2>1. /\ mode = "stop" /\ at = Kubelet /\ Passed
          /\ UNCHANGED <<conf, launched, containerd, faults>>
          /\ kubelet = "inactive" => kubelet' = "inactive"
        BY <1>15 DEF KubeletStop, In, IsKubeletRunning, service, bounds
    <2>. QED
        BY <1>a, <2>1, ConfigPassed DEF Configured
  <1>16. CASE NoVersion
    <2>1. /\ mode = "stop" /\ Passed /\ UNCHANGED <<conf, launched>>
          /\ faults' = faults \cup {"version"}
        BY <1>16 DEF NoVersion, In, Fault, service
    <2>2. ~Sound(faults')
        BY <2>1 DEF Sound
    <2>. QED
        BY <1>a, <2>1, <2>2, ConfigPassed DEF Configured
  <1>17. CASE RunContainerdStatus /\ containerd # "active"
    <2>1. /\ mode # "idle" /\ Failed /\ faults \subseteq faults'
          /\ UNCHANGED <<conf, launched, containerd, kubelet>>
          /\ mode = "status"
        BY <1>17, <1>b DEF RunContainerdStatus, In, service, bounds
    <2>. QED
        BY <1>a, <2>1, ConfigFailed DEF Configured
  <1>18. CASE LoadImagesStatus /\ Failed
    <2>1. /\ mode # "idle" /\ Failed /\ faults \subseteq faults'
          /\ UNCHANGED <<conf, launched, containerd, kubelet>>
          /\ mode = "status"
        BY <1>18, <1>b DEF LoadImagesStatus, In, StepTo, service, bounds
    <2>. QED
        BY <1>a, <2>1, ConfigFailed DEF Configured
  <1>19. CASE RunContainerdStop /\ containerd # "active"
    <2>1. /\ mode = "stop" /\ Failed
          /\ UNCHANGED <<conf, launched, containerd, kubelet, faults>>
          /\ containerd = "inactive"
        BY <1>19 DEF RunContainerdStop, In, ContainerdInv, service, bounds
    <2>. QED
        BY <1>a, <2>1, ConfigFailed DEF Configured
  <1>20. CASE LoadImagesFromFile /\ containerd # "active"
    <2>1. /\ mode # "idle" /\ Failed /\ faults \subseteq faults'
          /\ UNCHANGED <<conf, launched, containerd, kubelet>>
          /\ mode \in {"status", "start"} /\ at = LoadImages
        BY <1>20, <1>b DEF LoadImagesFromFile, service, bounds
    <2>. QED
        BY <1>a, <2>1, ConfigFailed DEF Configured
  <1>21. CASE LoadImagesFails
    <2>1. /\ mode # "idle" /\ Failed /\ faults \subseteq faults'
          /\ UNCHANGED <<conf, launched, containerd, kubelet>>
          /\ mode \in {"status", "start"} /\ at = LoadImages
        BY <1>21, <1>b DEF LoadImagesFails, Fault, service, bounds
    <2>. QED
        BY <1>a, <2>1, ConfigFailed DEF Configured
  <1>22. CASE KubeletStatus /\ ~IsKubeletRunning
    <2>1. /\ mode # "idle" /\ Failed /\ faults \subseteq faults'
          /\ UNCHANGED <<conf, launched, containerd, kubelet>>
          /\ mode = "status"
        BY <1>22, <1>b DEF KubeletStatus, In, service, bounds
    <2>. QED
        BY <1>a, <2>1, ConfigFailed DEF Configured
  <1>23. CASE OtherPhaseFails
    <2>1. /\ mode # "idle" /\ Failed /\ UNCHANGED <<conf, launched>>
          /\ faults' = faults \cup {"other"}
        BY <1>23 DEF OtherPhaseFails, Fault, service
    <2>2. ~Sound(faults')
        BY <2>1 DEF Sound
    <2>. QED
        BY <1>a, <2>1, <2>2, ConfigFailed DEF Configured
  <1>24. CASE StopServiceFails
    <2>1. /\ mode # "idle" /\ Failed /\ UNCHANGED <<conf, launched>>
          /\ faults' = faults \cup {"containerd"}
        BY <1>24 DEF StopServiceFails, Fault, service, Inside
    <2>2. ~Sound(faults')
        BY <2>1 DEF Sound
    <2>. QED
        BY <1>a, <2>1, <2>2, ConfigFailed DEF Configured
  <1>25. CASE KubeletStopFails
    <2>1. /\ mode # "idle" /\ Failed /\ UNCHANGED <<conf, launched>>
          /\ faults' = faults \cup {"kubelet"}
        BY <1>25 DEF KubeletStopFails, Fault, service, In
    <2>2. ~Sound(faults')
        BY <2>1 DEF Sound
    <2>. QED
        BY <1>a, <2>1, <2>2, ConfigFailed DEF Configured
  <1>26. CASE RunContainerdStartFails
    <2>1. /\ mode # "idle" /\ Failed /\ UNCHANGED conf /\ launched' \in {launched, conf}
          /\ faults' = faults \cup {"containerd"}
        BY <1>26 DEF RunContainerdStartFails, In, Fault, SystemctlStart
    <2>2. ~Sound(faults')
        BY <2>1 DEF Sound
    <2>. QED
        BY <1>a, <2>1, <2>2, ConfigFailed DEF Configured
  <1>27. CASE KubeletStartFails
    <2>1. /\ mode # "idle" /\ Failed /\ UNCHANGED <<conf, launched>>
          /\ faults' = faults \cup {"kubelet"}
        BY <1>27, <1>b DEF KubeletStartFails, Fault, service
    <2>2. ~Sound(faults')
        BY <2>1 DEF Sound
    <2>. QED
        BY <1>a, <2>1, <2>2, ConfigFailed DEF Configured
  <1>28. CASE \/ RunContainerdStop /\ containerd = "active"
             \/ DestroyNext \/ Terminate \/ WaitContainerStop \/ Kill \/ RemoveContainer
    <2>1. /\ UNCHANGED <<mode, at, from, serviceState, failStep, conf, launched>>
          /\ UNCHANGED <<containerd, kubelet, faults>>
        BY <1>28 DEF RunContainerdStop, DestroyNext, Terminate, WaitContainerStop, Kill,
           RemoveContainer, Skip, StepTo, service, bounds
    <2>. QED
        BY <2>1, ConfigSame
  <1>29. CASE LoadImagesStatus /\ StepTo("hash")
    <2>1. /\ UNCHANGED <<mode, at, from, serviceState, failStep, conf, launched>>
          /\ UNCHANGED <<containerd, kubelet, faults>>
        BY <1>29 DEF LoadImagesStatus, StepTo, service, bounds
    <2>. QED
        BY <2>1, ConfigSame
  <1>30. CASE \/ LoadImagesStart \/ GenerateHashForFile \/ WriteChecksum
    <2>1. /\ UNCHANGED <<mode, at, from, serviceState, failStep, conf, launched>>
          /\ UNCHANGED <<containerd, kubelet, faults>>
        BY <1>30 DEF LoadImagesStart, GenerateHashForFile, WriteChecksum, StepTo, loop,
           service, bounds
    <2>. QED
        BY <2>1, ConfigSame
  <1>31. CASE LoadImagesFromFile /\ containerd = "active"
    <2>1. /\ UNCHANGED <<mode, at, from, serviceState, failStep, conf, launched>>
          /\ UNCHANGED <<containerd, kubelet, faults>>
        BY <1>31 DEF LoadImagesFromFile, loop, service, bounds
    <2>. QED
        BY <2>1, ConfigSame
  <1>32. CASE VerifyChecksum /\ sums # hash
    <2>1. /\ UNCHANGED <<mode, at, from, serviceState, failStep, conf, launched>>
          /\ UNCHANGED <<containerd, kubelet, faults>>
        BY <1>32 DEF VerifyChecksum, StepTo, service, bounds
    <2>. QED
        BY <2>1, ConfigSame
  <1>33. CASE PrepareKubeletBootstrapConfig /\ ~IsKubeletRunning
    <2>1. /\ UNCHANGED <<mode, at, from, serviceState, failStep, conf, launched>>
          /\ UNCHANGED <<containerd, kubelet, faults>>
        BY <1>33 DEF PrepareKubeletBootstrapConfig, StepTo, service, bounds
    <2>. QED
        BY <2>1, ConfigSame
  <1>34. CASE KubeletSetup
    <2>1. /\ UNCHANGED <<mode, at, from, serviceState, failStep, conf, launched>>
          /\ UNCHANGED <<containerd, kubelet, faults>>
        BY <1>34 DEF KubeletSetup, StepTo, service, bounds
    <2>. QED
        BY <2>1, ConfigSame
  <1>35. CASE ContainerFails
    <2>1. /\ UNCHANGED <<mode, at, from, serviceState, failStep, conf, launched>>
          /\ UNCHANGED <<containerd, kubelet>> /\ faults \subseteq faults'
        BY <1>35 DEF ContainerFails, Fault, Skip, StepTo, service
    <2>. QED
        BY <2>1, ConfigSame
  <1>36. CASE KubeletExits \/ KubeletReturns \/ ContainerdExits
    <2>1. /\ UNCHANGED <<mode, at, from, serviceState, failStep, conf, launched>>
          /\ faults \subseteq faults' /\ (kubelet = "inactive" => kubelet' = "inactive")
          /\ containerd' \in {containerd, "inactive"}
        BY <1>36 DEF KubeletExits, KubeletReturns, ContainerdExits, Fault, loop,
           service, bounds
    <2>. QED
        BY <2>1, ConfigSame
  <1>37. CASE Switch
    <2>1. /\ UNCHANGED <<mode, at, from, serviceState, failStep, conf, launched>>
          /\ UNCHANGED <<containerd, kubelet, faults>>
        BY <1>37 DEF Switch, loop, service
    <2>. QED
        BY <2>1, ConfigSame
  <1>38. ASSUME NEW f \in Files, Upload(f) PROVE ConfigInv'
    <2>1. /\ UNCHANGED <<mode, at, from, serviceState, failStep, conf, launched>>
          /\ UNCHANGED <<containerd, kubelet, faults>>
        BY <1>38 DEF Upload, loop, service
    <2>. QED
        BY <2>1, ConfigSame
  <1>39. ASSUME NEW c \in Containers, CreateContainer(c) \/ TaskChanges(c) PROVE ConfigInv'
    <2>1. /\ UNCHANGED <<mode, at, from, serviceState, failStep, conf, launched>>
          /\ UNCHANGED <<containerd, kubelet, faults>>
        BY <1>39 DEF CreateContainer, TaskChanges, loop, service, bounds
    <2>. QED
        BY <2>1, ConfigSame
  <1>40. CASE UNCHANGED vars
    <2>1. /\ UNCHANGED <<mode, at, from, serviceState, failStep, conf, launched>>
          /\ UNCHANGED <<containerd, kubelet, faults>>
        BY <1>40 DEF vars, loop, service, bounds
    <2>. QED
        BY <2>1, ConfigSame
  <1>41. CASE Panic \/ Killed \/ Reboot
    <2>1. /\ Restarted /\ faults \subseteq faults' /\ UNCHANGED conf
          /\ launched' \in {launched, conf} /\ kubelet' \in {kubelet, "inactive"}
        BY <1>41 DEF Panic, Killed, Reboot, Fault, service
    <2>. QED
        BY <2>1, ConfigRestarted
  <1>c. LoadImagesStatus => ~dir \/ Failed \/ StepTo("hash")
      BY DEF LoadImagesStatus
  <1>42. RunContainerdStatus => ConfigInv'
      BY <1>5, <1>17
  <1>43. RunContainerdStop => ConfigInv'
      BY <1>19, <1>28
  <1>44. LoadImagesStatus => ConfigInv'
      BY <1>6, <1>18, <1>29, <1>c
  <1>45. VerifyChecksum => ConfigInv'
      BY <1>7, <1>32, Zenon
  <1>46. LoadImagesFromFile => ConfigInv'
      BY <1>20, <1>31
  <1>47. KubeletStatus => ConfigInv'
      BY <1>9, <1>22
  <1>48. PrepareKubeletBootstrapConfig => ConfigInv'
      BY <1>10, <1>33
  <1>49. CASE Destroy
      BY <1>49, <1>28, <1>13 DEF Destroy
  <1>50. CASE Loop
      BY <1>50, <1>1, <1>2, <1>3, <1>11, <1>12, <1>42, <1>43, <1>49, <1>4, <1>44,
         <1>30, <1>45, <1>46, <1>8, <1>47, <1>48, <1>34, <1>14, <1>15, <1>41 DEF
         Loop
  <1>51. CASE Faults
      BY <1>51, <1>23, <1>26, <1>16, <1>35, <1>24, <1>21, <1>27, <1>25, <1>41,
         <1>36 DEF Faults
  <1>52. CASE Beside
      BY <1>52, <1>38, <1>39, <1>36, <1>37 DEF Beside
  <1>. QED
      BY <1>50, <1>51, <1>52, <1>40 DEF Next

-----------------------------------------------------------------------------
(* The types of the rest.                                                    *)

\* A phase that ends has no step of its own left.
LEMMA Enters ==
  ASSUME Passed \/ Failed
  PROVE  step' = "enter"
  <1>1. CASE Passed
      BY <1>1 DEF Passed, StatusPassed, StopPassed, StartPassed, StopEnds, Running,
         StopTo, Idle, Go
  <1>2. CASE Failed
      BY <1>2 DEF Failed, StatusFailed, StartFailed, StopEnds, Running, StopTo, Idle, Go
  <1>. QED
      BY <1>1, <1>2

LEMMA StoreSame ==
  ASSUME StoreInv, UNCHANGED <<uploads, files, images>>, dir' \in BOOLEAN,
         todo' \subseteq Files, step' = "load" => todo' \subseteq Present
  PROVE  StoreInv'
  BY DEF StoreInv, Present

\* Every step keeps the versions within the uploads.
LEMMA StoreStep ==
  ASSUME LinesInv, StoreInv, [Next]_vars
  PROVE  StoreInv'
  <1>0. dir \in BOOLEAN /\ todo \subseteq Files /\ (step = "load" => todo \subseteq Present)
      BY DEF StoreInv
  <1>p. Present \subseteq Files
      BY DEF Present
  <1>1. ASSUME UNCHANGED <<uploads, store>>, step' = "load" => step = "load"
        PROVE  StoreInv'
      BY <1>0, <1>1, StoreSame DEF store
  <1>2. CASE \/ Reconcile \/ RestOfPhases \/ ConfigureContainerdPasses
             \/ ConfigureContainerdStart \/ RunContainerdStart \/ RunContainerdStatus
             \/ RunContainerdStop
    <2>1. UNCHANGED <<uploads, store>> /\ step' # "load"
        BY <1>2, Enters DEF Reconcile, RestOfPhases, ConfigureContainerdPasses,
           ConfigureContainerdStart, RunContainerdStart, RunContainerdStatus,
           RunContainerdStop, StopTo, Idle, Go, bounds
    <2>. QED
        BY <1>1, <2>1
  <1>3. CASE Destroy
    <2>1. UNCHANGED <<uploads, store>> /\ step' # "load"
        BY <1>3, Enters DEF Destroy, DestroyNext, Terminate, WaitContainerStop, Kill,
           RemoveContainer, StopService, Skip, StepTo, bounds
    <2>. QED
        BY <1>1, <2>1
  <1>4. CASE \/ KubeletStatus \/ PrepareKubeletBootstrapConfig \/ KubeletSetup
             \/ KubeletStart \/ KubeletStop \/ LoadImagesStop \/ LoadImagesDone
    <2>1. UNCHANGED <<uploads, store>> /\ step' # "load"
        BY <1>4, Enters DEF KubeletStatus, PrepareKubeletBootstrapConfig, KubeletSetup,
           KubeletStart, KubeletStop, LoadImagesStop, LoadImagesDone, StepTo, bounds
    <2>. QED
        BY <1>1, <2>1
  <1>5. CASE LoadImagesStatus \/ LoadImagesStart \/ VerifyChecksum
    <2>1. /\ UNCHANGED <<uploads, files, images>> /\ todo' \in {todo, Present}
          /\ step' # "load"
        BY <1>5, Enters DEF LoadImagesStatus, LoadImagesStart, VerifyChecksum, StepTo,
           bounds
    <2>2. dir' \in BOOLEAN
        BY <1>0, <1>5 DEF LoadImagesStatus, LoadImagesStart, VerifyChecksum
    <2>. QED
        BY <1>0, <1>p, <2>1, <2>2, StoreSame
  <1>6. CASE GenerateHashForFile \/ WriteChecksum \/ LoadImagesFails
    <2>1. /\ UNCHANGED <<uploads, files, images, dir>>
          /\ todo' \subseteq todo \/ todo' = Present
          /\ step' = "load" => todo' = Present
        BY <1>6, Enters DEF GenerateHashForFile, WriteChecksum, LoadImagesFails, StepTo,
           Fault, loop, bounds
    <2>. QED
        BY <1>0, <1>p, <2>1, StoreSame
  <1>7. CASE LoadImagesFromFile
    <2>. DEFINE f == FirstOf(todo)
    <2>1. /\ step = "load" /\ todo # {} /\ UNCHANGED <<uploads, files, dir>>
          /\ todo' \subseteq todo /\ images' \in {images, images \cup {<<f, files[f]>>}}
        BY <1>7 DEF LoadImagesFromFile, bounds
    <2>2. f \in todo
        BY <1>0, <2>1, FirstIn
    <2>. HIDE DEF f
    <2>3. f \in Files /\ files[f] \in Nat /\ files[f] > 0 /\ files[f] <= uploads
        BY <1>0, <2>1, <2>2 DEF StoreInv, LinesInv, Present
    <2>4. files[f] \in 1 .. MaxUploads
        BY <2>3, RuntimeAssumption DEF StoreInv
    <2>5. images' \subseteq Files \X (1 .. MaxUploads)
        BY <2>1, <2>3, <2>4 DEF StoreInv
    <2>. QED
        BY <1>0, <2>1, <2>5 DEF StoreInv, Present
  <1>8. CASE Panic \/ Killed \/ Reboot
    <2>1. UNCHANGED <<uploads, files, images, dir>> /\ todo' = {} /\ step' = "enter"
        BY <1>8 DEF Panic, Killed, Reboot, Restarted, Fault, Idle, Go
    <2>. QED
        BY <1>0, <2>1, StoreSame
  <1>9. CASE \/ OtherPhaseFails \/ RunContainerdStartFails \/ NoVersion \/ ContainerFails
             \/ StopServiceFails \/ KubeletStartFails \/ KubeletStopFails
    <2>1. UNCHANGED <<uploads, store>> /\ step' # "load"
        BY <1>9, Enters DEF OtherPhaseFails, RunContainerdStartFails, NoVersion,
           ContainerFails, StopServiceFails, KubeletStartFails, KubeletStopFails, Fault,
           Skip, StepTo
    <2>. QED
        BY <1>1, <2>1
  <1>10. CASE \/ KubeletExits \/ ContainerdExits \/ KubeletReturns \/ Switch
              \/ UNCHANGED vars
    <2>1. UNCHANGED <<uploads, store, step>>
        BY <1>10 DEF KubeletExits, ContainerdExits, KubeletReturns, Switch, Fault, vars,
           loop, bounds
    <2>. QED
        BY <1>1, <2>1
  <1>11. ASSUME NEW c \in Containers, CreateContainer(c) \/ TaskChanges(c)
         PROVE  StoreInv'
    <2>1. UNCHANGED <<uploads, store, step>>
        BY <1>11 DEF CreateContainer, TaskChanges, loop, bounds
    <2>. QED
        BY <1>1, <2>1
  <1>12. ASSUME NEW f \in Files, Upload(f) PROVE StoreInv'
    <2>1. /\ uploads < MaxUploads /\ uploads' = uploads + 1 /\ dir' = TRUE
          /\ files' = [files EXCEPT ![f] = files[f] + 1] /\ UNCHANGED <<images, todo, step>>
        BY <1>12 DEF Upload, loop
    <2>2. uploads \in Nat /\ MaxUploads \in Nat /\ files \in [Files -> Nat]
          /\ \A g \in Files : files[g] <= uploads
        BY RuntimeAssumption DEF StoreInv, LinesInv
    <2>3. uploads' \in 0 .. MaxUploads
        BY <2>1, <2>2
    <2>4. \A g \in Files : files'[g] <= uploads'
        BY <2>1, <2>2
    <2>5. Present \subseteq Present'
        BY <2>1, <2>2 DEF Present
    <2>6. dir' \in BOOLEAN
        BY <2>1
    <2>7. todo' \subseteq Files /\ (step' = "load" => todo' \subseteq Present')
        BY <1>0, <2>1, <2>5
    <2>. QED
        BY <2>1, <2>3, <2>4, <2>6, <2>7 DEF StoreInv
  <1>. QED
      BY <1>2, <1>3, <1>4, <1>5, <1>6, <1>7, <1>8, <1>9, <1>10, <1>11, <1>12
         DEF Next, Loop, Faults, Beside

\* The loop sets the state of the stack to a Boolean value.
LEMMA Booleans ==
  ASSUME serviceState \in BOOLEAN, Passed \/ Failed
  PROVE  serviceState' \in BOOLEAN
  <1>1. serviceState' = serviceState \/ serviceState' = TRUE \/ serviceState' = FALSE
    <2>1. CASE Passed
        BY <2>1, Zenon DEF Passed, StatusPassed, StopPassed, StartPassed, StopEnds, Running
    <2>2. CASE Failed
        BY <2>2, Zenon DEF Failed, StatusFailed, StartFailed, StopEnds, Running
    <2>. QED
        BY <2>1, <2>2, Zenon
  <1>. QED
      BY <1>1, Zenon

LEMMA ServiceStep ==
  ASSUME serviceState \in BOOLEAN, [Next]_vars
  PROVE  serviceState' \in BOOLEAN
  <1>1. CASE \/ RestOfPhases \/ ConfigureContainerdPasses \/ ConfigureContainerdStart
             \/ RunContainerdStart \/ RunContainerdStatus \/ StopService
             \/ LoadImagesStop \/ LoadImagesDone \/ KubeletStatus \/ KubeletStart
             \/ KubeletStop
      BY <1>1, Booleans, Zenon DEF RestOfPhases, ConfigureContainerdPasses,
         ConfigureContainerdStart, RunContainerdStart, RunContainerdStatus, StopService,
         LoadImagesStop, LoadImagesDone, KubeletStatus, KubeletStart, KubeletStop
  <1>2. CASE \/ OtherPhaseFails \/ RunContainerdStartFails \/ NoVersion
             \/ StopServiceFails \/ LoadImagesFails \/ KubeletStartFails \/ KubeletStopFails
      BY <1>2, Booleans, Zenon DEF OtherPhaseFails, RunContainerdStartFails, NoVersion,
         StopServiceFails, LoadImagesFails, KubeletStartFails, KubeletStopFails
  <1>3. CASE \/ RunContainerdStop \/ LoadImagesStatus \/ VerifyChecksum
             \/ LoadImagesFromFile \/ PrepareKubeletBootstrapConfig
    <2>1. Passed \/ Failed \/ serviceState' = serviceState
        BY <1>3 DEF RunContainerdStop, LoadImagesStatus, VerifyChecksum,
           LoadImagesFromFile, PrepareKubeletBootstrapConfig, StepTo, loop
    <2>. QED
        BY <2>1, Booleans, Zenon
  <1>4. CASE Panic \/ Killed \/ Reboot
      BY <1>4 DEF Panic, Killed, Reboot, Restarted
  <1>5. CASE \/ Reconcile \/ DestroyNext \/ Terminate \/ WaitContainerStop \/ Kill
             \/ RemoveContainer \/ ContainerFails \/ LoadImagesStart
             \/ GenerateHashForFile \/ WriteChecksum \/ KubeletSetup
    <2>1. serviceState' = serviceState
        BY <1>5 DEF Reconcile, DestroyNext, Terminate, WaitContainerStop, Kill,
           RemoveContainer, ContainerFails, LoadImagesStart, GenerateHashForFile,
           WriteChecksum, KubeletSetup, Skip, StepTo, loop
    <2>. QED
        BY <2>1, Zenon
  <1>6. CASE KubeletExits \/ ContainerdExits \/ Beside \/ UNCHANGED vars
    <2>1. serviceState' = serviceState
        BY <1>6 DEF KubeletExits, ContainerdExits, Beside, Upload, CreateContainer,
           TaskChanges, KubeletReturns, Switch, vars, loop
    <2>. QED
        BY <2>1, Zenon
  <1>. QED
      BY <1>1, <1>2, <1>3, <1>4, <1>5, <1>6 DEF Next, Loop, Destroy, Faults

\* Every step keeps the types of the bounds and of the container being destroyed.
LEMMA CountStep ==
  ASSUME DrainInv, CountInv, [Next]_vars
  PROVE  CountInv'
  <1>0. /\ serviceState \in BOOLEAN /\ want \in BOOLEAN /\ faults \subseteq Kinds
        /\ victim \in Containers \cup {NoVictim} /\ switches \in 0 .. MaxSwitches
      BY DEF CountInv
  <1>1. serviceState' \in BOOLEAN
      BY <1>0, ServiceStep
  <1>2. ASSUME UNCHANGED <<want, switches>>, faults' \subseteq Kinds,
               victim' \in {victim, NoVictim} \cup Containers
        PROVE  CountInv'
    <2>1. want' \in BOOLEAN
        BY <1>0, <1>2, Zenon
    <2>. QED
        BY <1>0, <1>1, <1>2, <2>1 DEF CountInv
  <1>3. CASE Loop
    <2>1. CASE Destroy
      <3>1. UNCHANGED <<want, switches, faults>>
            /\ (victim' \in {victim, NoVictim} \/ victim' \in queue)
          BY <2>1 DEF Destroy, DestroyNext, Terminate, WaitContainerStop, Kill,
             RemoveContainer, StopService, Skip, tasks, bounds
      <3>. QED
          BY <1>0, <1>2, <3>1 DEF DrainInv
    <2>2. CASE Panic
      <3>1. /\ UNCHANGED <<want, switches>> /\ faults' = faults \cup {"panic"}
            /\ victim' = NoVictim
          BY <2>2 DEF Panic, Restarted
      <3>. QED
          BY <1>0, <1>2, <3>1 DEF Kinds
    <2>3. CASE ~Destroy /\ ~Panic
      <3>1. UNCHANGED <<want, switches, faults, victim>>
          BY <1>3, <2>3 DEF Loop, Reconcile, RestOfPhases, ConfigureContainerdPasses,
             ConfigureContainerdStart, RunContainerdStart, RunContainerdStatus,
             RunContainerdStop, LoadImagesStop, LoadImagesStatus, LoadImagesStart,
             GenerateHashForFile, VerifyChecksum, WriteChecksum, LoadImagesFromFile,
             LoadImagesDone, KubeletStatus, PrepareKubeletBootstrapConfig, KubeletSetup,
             KubeletStart, KubeletStop, tasks, bounds
      <3>. QED
          BY <1>0, <1>2, <3>1
    <2>. QED
        BY <2>1, <2>2, <2>3
  <1>4. CASE Faults
    <2>1. /\ \E k \in Kinds : Fault(k)
          /\ victim' \in {victim, NoVictim}
        BY <1>4 DEF Faults, OtherPhaseFails, RunContainerdStartFails, NoVersion,
           ContainerFails, StopServiceFails, LoadImagesFails, KubeletStartFails,
           KubeletStopFails, Killed, Reboot, KubeletExits, ContainerdExits, Restarted,
           Skip, tasks, Kinds
    <2>2. UNCHANGED <<want, switches>> /\ faults' \subseteq Kinds
        BY <1>0, <2>1 DEF Fault
    <2>. QED
        BY <1>2, <2>1, <2>2
  <1>5. CASE Switch
    <2>1. want' \in BOOLEAN
        BY <1>5 DEF Switch
    <2>2. switches' \in 0 .. MaxSwitches
        BY <1>0, <1>5, RuntimeAssumption DEF Switch
    <2>3. UNCHANGED <<faults, victim>>
        BY <1>5 DEF Switch, tasks
    <2>. QED
        BY <1>0, <1>1, <2>1, <2>2, <2>3 DEF CountInv
  <1>6. CASE Beside /\ ~Switch
    <2>1. UNCHANGED <<want, switches, faults, victim>>
        BY <1>6 DEF Beside, Upload, CreateContainer, TaskChanges, KubeletReturns, tasks,
           bounds
    <2>. QED
        BY <1>0, <1>2, <2>1
  <1>7. CASE UNCHANGED vars
      BY <1>0, <1>2, <1>7 DEF vars, tasks, bounds
  <1>. QED
      BY <1>3, <1>4, <1>5, <1>6, <1>7 DEF Next

\* A fresh host satisfies the invariant.
LEMMA InitInv ==
  ASSUME Init
  PROVE  IInv
  <1>1. LoopInv /\ KubeletInv /\ ContainerdInv
      BY DEF Init, LoopInv, KubeletInv, ContainerdInv, Destroying
  <1>2. DrainInv
      BY DEF Init, DrainInv, Alive, Tasks, Destroying
  <1>3. LinesInv /\ ImportInv
      BY DEF Init, LinesInv, ImportInv, NoLines
  <1>4. ConfigInv
      BY DEF Init, ConfigInv, Configured
  <1>5. StoreInv
    <2>1. 0 \in 0 .. MaxUploads
        BY RuntimeAssumption
    <2>2. \A f \in Files : files[f] <= uploads
        BY DEF Init, NoLines
    <2>3. dir \in BOOLEAN
        BY DEF Init
    <2>. QED
        BY <2>1, <2>2, <2>3 DEF Init, StoreInv
  <1>6. CountInv
    <2>1. 0 \in 0 .. MaxSwitches
        BY RuntimeAssumption
    <2>. QED
        BY <2>1 DEF Init, CountInv
  <1>. QED
      BY <1>1, <1>2, <1>3, <1>4, <1>5, <1>6 DEF IInv

\* The inductive invariant holds in every reachable state.
THEOREM Invariance == Spec => []IInv
  <1>1. Init => IInv
      BY InitInv
  <1>2. IInv /\ [Next]_vars => IInv'
      BY LoopStep, KubeletStep, DrainStep, ContainerdStep, LinesStep, ImportStep,
         ConfigStep, StoreStep, CountStep DEF IInv
  <1>. QED
      BY <1>1, <1>2, PTL DEF Spec

\* When containerd is stopped, with no call to it failing, no container is left
\* running, however many there are and whatever they do while they are stopped.
THEOREM NoneLeftRunning == Spec => []NothingLeftRunning
  <1>1. IInv => NothingLeftRunning
      BY DEF IInv, DrainInv, Alive, NothingLeftRunning
  <1>. QED
      BY <1>1, Invariance, PTL

\* The recorded lines agree with the directory only when its files were imported,
\* however files are replaced while they are hashed, recorded and imported.
THEOREM RecordedWasLoaded == Spec => []RecordedIsLoaded
  <1>1. ASSUME IInv, Without({"kill", "images", "containerd"}), step # "load", sums = files,
               NEW f \in Present
        PROVE  <<f, files[f]>> \in images
    <2>1. f \in Files /\ files[f] > 0 /\ files \in [Files -> Nat]
        BY <1>1 DEF IInv, LinesInv, Present
    <2>2. sums # Missing
        BY <1>1, <2>1 DEF Missing
    <2>. QED
        BY <1>1, <2>1, <2>2 DEF IInv, ImportInv
  <1>2. IInv => RecordedIsLoaded
      BY <1>1 DEF RecordedIsLoaded, Loaded
  <1>. QED
      BY <1>2, Invariance, PTL

\* Every variable has its type, and no version exceeds the number of uploads.
THEOREM TypeCorrect == Spec => []TypeOK
  <1>1. ASSUME IInv PROVE TypeOK
    <2>1. /\ MaxUploads \in Nat /\ uploads \in 0 .. MaxUploads
          /\ files \in [Files -> Nat] /\ \A f \in Files : files[f] <= uploads
        BY <1>1, RuntimeAssumption DEF IInv, StoreInv, LinesInv
    <2>2. ASSUME NEW v \in [Files -> Nat], \A f \in Files : v[f] <= files[f]
          PROVE  v \in Version
      <3>1. \A f \in Files : v[f] \in 0 .. MaxUploads
          BY <2>1, <2>2
      <3>. QED
          BY <2>2, <3>1 DEF Version
    <2>3. files \in Version /\ hash \in Version /\ sums \in Version \cup {Missing}
        BY <1>1, <2>1, <2>2 DEF IInv, LinesInv
    <2>4. serviceState \in BOOLEAN /\ want \in BOOLEAN
        BY <1>1 DEF IInv, CountInv
    <2>5. dir \in BOOLEAN
        BY <1>1 DEF IInv, StoreInv
    <2>6. /\ mode \in {"idle", "status", "stop", "start"}
          /\ at \in 1 .. Rest /\ from \in 1 .. Rest /\ failStep \in None .. Rest
          /\ step \in {"enter", "hash", "record", "load", "destroy", "term", "wait",
                       "kill", "remove", "setup", "start"}
        BY <1>1 DEF IInv, LoopInv, Destroying
    <2>7. /\ ctr \in [Containers -> Tasks] /\ queue \subseteq Containers
          /\ kubelet \in {"inactive", "active", "activating"}
          /\ containerd \in {"inactive", "active"} /\ conf \in 0 .. 1 /\ launched \in 0 .. 1
        BY <1>1 DEF IInv, DrainInv, KubeletInv, ContainerdInv, ConfigInv
    <2>8. /\ images \subseteq Files \X (1 .. MaxUploads) /\ todo \subseteq Files
          /\ victim \in Containers \cup {NoVictim}
          /\ switches \in 0 .. MaxSwitches /\ faults \subseteq Kinds
        BY <1>1 DEF IInv, StoreInv, CountInv
    <2>. QED
        BY <2>1, <2>3, <2>4, <2>5, <2>6, <2>7, <2>8 DEF TypeOK
  <1>. QED
      BY <1>1, Invariance, PTL

\* A stack that counts as started runs on a containerd that was launched with one
\* cgroup table, wherever nodeletd was killed or the host restarted before.
THEOREM RunsConfigured == Spec => []ConfigInEffect
  <1>1. IInv => ConfigInEffect
      BY DEF IInv, ConfigInv, Configured, ConfigInEffect
  <1>. QED
      BY <1>1, Invariance, PTL
=============================================================================
