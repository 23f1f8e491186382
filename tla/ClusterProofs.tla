---------------------------- MODULE ClusterProofs ---------------------------
(***************************************************************************)
(* For any number of masters and workers, any number of operations and any   *)
(* number of faults: what upgrade, regen-certs and delete report is so, and  *)
(* create takes no stack down.                                               *)
(***************************************************************************)
EXTENDS Cluster, SequenceTheorems, WellFoundedInduction, TLAPS

\* The phases of an operation that works on the hosts.
Busy == pc \in {"run", "status", "wait"}

\* Where nodeletctl is: in which operation, in which round, and which hosts its
\* goroutines and SyncNodes work on.
PcInv ==
    /\ pc # "idle" => op # "none"
    /\ pc \in {"rm", "crt", "key", "conf", "trust"} => op \in {"create", "regen"}
    /\ pc \in {"status", "wait"} =>
          op # "delete" /\ (op # "regen" => round = Len(Rounds(op)))
    /\ IF Busy THEN round <= Len(Rounds(op)) ELSE round = 1
    /\ pc # "run" => call = [h \in Hosts |-> 0]
    /\ pc = "run" => \A h \in Hosts : /\ call[h] <= EndOfPlan(op)
                                      /\ call[h] # 0 => h \in InRound
    /\ pc \notin {"status", "wait"} => seen = {}
    /\ helper = "none" <=> pc # "wait"
    /\ helper = "closed" => ToSync \subseteq seen

\* Each operation makes at most one CA.
CAInv == ca <= ops + 1 /\ (pc \in {"rm", "crt"} => ca <= ops)

\* Nothing runs on a host without the package.
PkgInv == \A h \in Hosts : host[h].up \/ host[h].nodeletd # "off" => host[h].pkg # "none"

\* What the package leaves on its removal are the uploaded files.
Erased(r) == /\ r.pkg = "none" /\ r.certs = 0 /\ r.conf = FALSE
             /\ r.nodeletd = "off" /\ r.up = FALSE /\ r.status = "none"

\* A host r on which the next call is the i-th, with the CA a in the state directory
\* and s when it became ok since its last restart.  In an upgrade it is down between the
\* removal and the restart, and its status is ok afterwards only when its stack came
\* up after the restart.  regen-certs brings it the CA before it deletes the
\* certificates of the old one.
After(o, i, r, a, s) ==
    /\ o = "upgrade" =>
          /\ i \in 2 .. 4 => r.nodeletd = "off" /\ r.status = "none"
          /\ i \in 2 .. 3 => r.pkg = "none"
          /\ i \in 4 .. 5 => r.pkg = "new"
          /\ i = 5 /\ r.status = "ok" => s
    /\ o = "regen" =>
          /\ i > 1 => r.crt = a
          /\ i > 2 => r.key = a
          /\ i > 3 => r.certs \in {0, a}
    /\ o = "delete" =>
          /\ i = 2 => Erased(r)
          /\ i = 3 => r = Absent

\* The next call on a host, past the plan when the round of the host is over.
Reached(h) == \E i \in 1 .. round : h \in Rounds(op)[i]
Stage(h) == IF pc = "run" /\ h \in InRound THEN call[h]
            ELSE IF Busy /\ Reached(h) THEN EndOfPlan(op) ELSE 0

IsAfter(i, h) == After(op, i, host[h], local.crt, h \in since)

\* The hosts are as far as the calls.
StageInv == Busy /\ ~failed => \A h \in Hosts : IsAfter(Stage(h), h)

\* In an upgrade SyncNodes has only seen hosts that came up after the restart.
SeenInv == op = "upgrade" /\ ~failed => seen \subseteq since

\* From the kubeconfig on regen-certs has one CA in the state directory.
OneCAInv ==
    op = "regen" /\ pc \in {"trust", "run", "status", "wait"} =>
        local.key = local.crt /\ local.conf = local.crt

\* The operation that has succeeded has gone through all its calls.
DoneInv ==
    pc = "idle" /\ result = "ok" =>
        /\ op = "delete" => ~failed
        /\ ~failed => /\ \A h \in Hosts : IsAfter(EndOfPlan(op), h)
                      /\ op = "upgrade" => Hosts \subseteq since
                      /\ op = "regen" => local.conf = local.crt

IInv == /\ TypeOK /\ PcInv /\ CAInv /\ PkgInv
        /\ StageInv /\ SeenInv /\ OneCAInv /\ DoneInv

Ops == {"create", "upgrade", "regen", "delete"}
CallNames == {"crt", "key", "config", "install", "start", "restart", "clear", "stop",
              "down", "erase", "clean"}
HostRecords == [pkg : {"none", "old", "new"}, crt : CAs, key : CAs, certs : CAs,
                conf : BOOLEAN, nodeletd : {"off", "new", "on"}, up : BOOLEAN,
                status : {"none", "conv", "ok"}]

-----------------------------------------------------------------------------
\* The hosts in sequence.

\* A set of natural numbers has a least element.
LEMMA Least ==
  ASSUME NEW T, T \subseteq Nat, T # {}
  PROVE  \E x \in T : \A y \in T : x <= y
  <1>. DEFINE R == OpToRel(<, Nat)
  <1>1. IsWellFoundedOn(R, Nat)
      BY NatLessThanWellFounded
  <1>2. \A x, y \in T : y < x => <<y, x>> \in R
      BY DEF OpToRel
  <1>. HIDE DEF R
  <1>3. \E x \in T : \A y \in T : ~(<<y, x>> \in R)
      BY <1>1, WFMin, Zenon
  <1>4. \E x \in T : \A y \in T : ~(y < x)
      BY <1>2, <1>3, Zenon
  <1>. QED
      BY <1>4

\* The sequences of the cluster file hold the hosts.
LEMMA HostSeqs ==
  /\ Masters \in Seq(Hosts) /\ Workers \in Seq(Hosts) /\ Nodes \in Seq(Hosts)
  /\ Range(Nodes) = Hosts /\ Len(Nodes) = Len(Workers) + Len(Masters)
  /\ Len(Masters) \in Nat \ {0} /\ Len(Workers) \in Nat /\ Masters # <<>>
  <1>1. Masters \in Seq(Hosts) /\ Workers \in Seq(Hosts)
      BY ClusterAssumption DEF Hosts
  <1>2. Nodes \in Seq(Hosts) /\ Len(Nodes) = Len(Workers) + Len(Masters)
      BY <1>1, ConcatProperties DEF Nodes
  <1>3. Range(Nodes) = Hosts
      BY <1>1, RangeConcatenation DEF Nodes, Hosts
  <1>4. Len(Masters) \in Nat \ {0} /\ Len(Workers) \in Nat /\ Masters # <<>>
      BY <1>1, ClusterAssumption
  <1>. QED
      BY <1>1, <1>2, <1>3, <1>4

\* The first of some hosts is one of them.
LEMMA FirstIn ==
  ASSUME NEW S \in SUBSET Hosts, S # {}
  PROVE  First(S) \in S
  <1>. DEFINE Place(h) == CHOOSE i \in DOMAIN Nodes : Nodes[i] = h
              T == {Place(h) : h \in S}
  <1>1. \A h \in S : Place(h) \in Nat
    <2>. SUFFICES ASSUME NEW h \in S PROVE Place(h) \in Nat
        OBVIOUS
    <2>1. \E i \in DOMAIN Nodes : Nodes[i] = h
        BY HostSeqs DEF Range
    <2>2. Place(h) \in DOMAIN Nodes
        BY <2>1
    <2>. QED
        BY <2>2, HostSeqs
  <1>2. T \subseteq Nat /\ T # {}
      BY <1>1
  <1>3. \E x \in T : \A y \in T : x <= y
      BY <1>2, Least, Zenon
  <1>. HIDE DEF Place
  <1>4. \E h \in S : \A g \in S : Place(h) <= Place(g)
      BY <1>3, Zenon
  <1>5. First(S) = CHOOSE h \in S : \A g \in S : Place(h) <= Place(g)
      BY Zenon DEF First, Place
  <1>. QED
      BY <1>4, <1>5, Zenon

-----------------------------------------------------------------------------
\* The operations: their rounds, their calls and the effects of these.

\* A master after the other, then the workers: every host has its round.
LEMMA OneByOneCovers ==
  /\ Len(DeployCluster) = Len(Masters) + 1
  /\ \A i \in 1 .. Len(DeployCluster) : DeployCluster[i] \subseteq Hosts
  /\ \A h \in Hosts : \E i \in 1 .. Len(DeployCluster) : h \in DeployCluster[i]
  <1>. DEFINE O == OneByOne(Masters)
              R == Append(O, Range(Workers))
              n == Len(Masters)
  <1>1. n \in Nat /\ DOMAIN Masters = 1 .. n /\ Range(Workers) \in SUBSET Hosts
        /\ \A i \in 1 .. n : Masters[i] \in Hosts
      BY HostSeqs DEF Hosts
  <1>2. O = [i \in 1 .. n |-> {Masters[i]}]
      BY <1>1 DEF OneByOne
  <1>3. O \in Seq(SUBSET Hosts) /\ Len(O) = n
    <2>1. \A i \in 1 .. n : {Masters[i]} \in SUBSET Hosts
        BY <1>1
    <2>. QED
        BY <1>1, <1>2, <2>1, IsASeq
  <1>4. \A i \in 1 .. n : O[i] = {Masters[i]}
      BY <1>2
  <1>. HIDE DEF O, n
  <1>5. /\ Len(R) = n + 1 /\ R[n + 1] = Range(Workers)
        /\ \A i \in 1 .. n : R[i] = {Masters[i]}
      BY <1>1, <1>3, <1>4, AppendProperties
  <1>. HIDE DEF R
  <1>6. \A i \in 1 .. Len(R) : R[i] \subseteq Hosts
      BY <1>1, <1>5
  <1>7. ASSUME NEW h \in Hosts PROVE \E i \in 1 .. Len(R) : h \in R[i]
    <2>1. CASE h \in Range(Workers)
        BY <1>1, <1>5, <2>1
    <2>2. CASE h \in Range(Masters)
      <3>1. PICK i \in 1 .. n : h = Masters[i]
          BY <1>1, <2>2 DEF Range
      <3>. QED
          BY <1>1, <1>5, <3>1
    <2>. QED
        BY <2>1, <2>2 DEF Hosts
  <1>. QED
      BY <1>5, <1>6, <1>7 DEF R, O, n, DeployCluster

LEMMA RegenCovers ==
  /\ Len(RegenRounds) = 3
  /\ \A i \in 1 .. 3 : RegenRounds[i] \subseteq Hosts
  /\ \A h \in Hosts : \E i \in 1 .. 3 : h \in RegenRounds[i]
  <1>1. /\ Head(Masters) = Masters[1] /\ Tail(Masters) \in Seq(Hosts)
        /\ Len(Tail(Masters)) = Len(Masters) - 1
        /\ \A i \in 1 .. Len(Tail(Masters)) : Tail(Masters)[i] = Masters[i + 1]
      BY HostSeqs, HeadTailProperties
  <1>2. /\ RegenRounds[1] = Range(Tail(Masters)) /\ RegenRounds[2] = Range(Workers)
        /\ RegenRounds[3] = {Head(Masters)} /\ Len(RegenRounds) = 3
      BY DEF RegenRounds
  <1>3. Range(Tail(Masters)) \subseteq Hosts /\ Range(Workers) \subseteq Hosts
        /\ Head(Masters) \in Hosts
    <2>. DEFINE t == Tail(Masters)
    <2>1. \A i \in DOMAIN t : t[i] \in Hosts
        BY <1>1, ElementOfSeq
    <2>2. Head(Masters) \in Hosts
        BY HostSeqs, HeadTailProperties, Zenon
    <2>. HIDE DEF t
    <2>3. Range(t) \subseteq Hosts
        BY <2>1 DEF Range
    <2>. QED
        BY <2>2, <2>3 DEF Hosts, t
  <1>4. ASSUME NEW h \in Hosts PROVE \E i \in 1 .. 3 : h \in RegenRounds[i]
    <2>1. CASE h \in Range(Workers)
        BY <1>2, <2>1
    <2>2. CASE h \in Range(Masters)
      <3>1. PICK i \in 1 .. Len(Masters) : h = Masters[i]
          BY <2>2, HostSeqs DEF Range
      <3>2. CASE i = 1
          BY <1>1, <1>2, <3>1, <3>2
      <3>3. CASE i > 1
        <4>1. i - 1 \in DOMAIN Tail(Masters) /\ Tail(Masters)[i - 1] = h
            BY <1>1, <3>1, <3>3, HostSeqs
        <4>2. h \in Range(Tail(Masters))
            BY <4>1 DEF Range
        <4>. QED
            BY <1>2, <4>2
      <3>. QED
          BY <3>1, <3>2, <3>3
    <2>. QED
        BY <2>1, <2>2 DEF Hosts
  <1>5. \A i \in 1 .. 3 : RegenRounds[i] \subseteq Hosts
      BY <1>2, <1>3
  <1>. QED
      BY <1>2, <1>4, <1>5

LEMMA DeleteCovers ==
  /\ Len(DeleteRounds) = Len(Masters) + Len(Workers)
  /\ \A i \in 1 .. Len(DeleteRounds) : DeleteRounds[i] \subseteq Hosts
  /\ \A h \in Hosts : \E i \in 1 .. Len(DeleteRounds) : h \in DeleteRounds[i]
  <1>. DEFINE n == Len(Nodes)
  <1>1. /\ n \in Nat /\ n = Len(Masters) + Len(Workers) /\ DOMAIN Nodes = 1 .. n
        /\ \A i \in 1 .. n : Nodes[i] \in Hosts
      BY HostSeqs
  <1>2. DeleteRounds = [i \in 1 .. n |-> {Nodes[i]}]
      BY <1>1 DEF OneByOne, DeleteRounds
  <1>3. Len(DeleteRounds) = n
    <2>1. \A i \in 1 .. n : {Nodes[i]} \in SUBSET Hosts
        BY <1>1
    <2>. QED
        BY <1>1, <1>2, <2>1, IsASeq
  <1>4. \A h \in Hosts : \E i \in 1 .. n : h = Nodes[i]
      BY <1>1, HostSeqs DEF Range
  <1>. QED
      BY <1>1, <1>2, <1>3, <1>4

\* The rounds of every operation take every host.
LEMMA RoundsCover ==
  ASSUME NEW o \in Ops
  PROVE  /\ Len(Rounds(o)) \in 1 .. Len(Masters) + Len(Workers) + 2
         /\ o = "regen" => Len(Rounds(o)) = 3
         /\ \A i \in 1 .. Len(Rounds(o)) : Rounds(o)[i] \subseteq Hosts
         /\ \A h \in Hosts : \E i \in 1 .. Len(Rounds(o)) : h \in Rounds(o)[i]
  <1>1. /\ Rounds("create") = DeployCluster /\ Rounds("upgrade") = UpgradeRounds
        /\ Rounds("regen") = RegenRounds /\ Rounds("delete") = DeleteRounds
      BY Zenon DEF Rounds
  <1>. DEFINE R == Rounds(o)
  <1>2. CASE o \in {"create", "upgrade"}
    <2>1. R = DeployCluster
        BY <1>1, <1>2 DEF DeployCluster, UpgradeRounds
    <2>. HIDE DEF R
    <2>2. Len(R) \in 1 .. Len(Masters) + Len(Workers) + 2
        BY <2>1, OneByOneCovers, HostSeqs
    <2>. QED
        BY <1>2, <2>1, <2>2, OneByOneCovers DEF R
  <1>3. CASE o = "regen"
    <2>1. R = RegenRounds /\ Len(R) = 3
        BY <1>1, <1>3, RegenCovers
    <2>. HIDE DEF R
    <2>2. Len(R) \in 1 .. Len(Masters) + Len(Workers) + 2
        BY <2>1, HostSeqs
    <2>. QED
        BY <1>3, <2>1, <2>2, RegenCovers DEF R
  <1>4. CASE o = "delete"
    <2>1. R = DeleteRounds
        BY <1>1, <1>4
    <2>. HIDE DEF R
    <2>2. Len(R) \in 1 .. Len(Masters) + Len(Workers) + 2
        BY <2>1, DeleteCovers, HostSeqs
    <2>. QED
        BY <1>4, <2>1, <2>2, DeleteCovers DEF R
  <1>. QED
      BY <1>2, <1>3, <1>4 DEF Ops

\* The calls of the operations.
LEMMA Plans ==
  /\ Plan("create") = DeployNodelet /\ Plan("upgrade") = UpgradeMaster
  /\ Plan("regen") = UploadCertsAndRestartStack /\ Plan("delete") = DeleteNodelet
  /\ EndOfPlan("create") = 6 /\ EndOfPlan("upgrade") = 5
  /\ EndOfPlan("regen") = 7 /\ EndOfPlan("delete") = 3
  <1>1. /\ Plan("create") = DeployNodelet /\ Plan("upgrade") = UpgradeMaster
        /\ Plan("regen") = UploadCertsAndRestartStack /\ Plan("delete") = DeleteNodelet
      BY Zenon DEF Plan
  <1>2. /\ Len(DeployNodelet) = 5 /\ Len(UpgradeMaster) = 4
        /\ Len(UploadCertsAndRestartStack) = 6 /\ Len(DeleteNodelet) = 2
      BY DEF DeployNodelet, UpgradeMaster, UploadCertsAndRestartStack, DeleteNodelet
  <1>3. /\ Len(Plan("create")) = 5 /\ Len(Plan("upgrade")) = 4
        /\ Len(Plan("regen")) = 6 /\ Len(Plan("delete")) = 2
      BY <1>1, <1>2, Zenon
  <1>4. 5 + 1 = 6 /\ 4 + 1 = 5 /\ 6 + 1 = 7 /\ 2 + 1 = 3
      OBVIOUS
  <1>. QED
      BY <1>1, <1>3, <1>4, Zenon DEF EndOfPlan

LEMMA PlanTypes ==
  ASSUME NEW o \in Ops
  PROVE  /\ Len(Plan(o)) \in 1 .. 6 /\ EndOfPlan(o) = Len(Plan(o)) + 1
         /\ \A i \in 1 .. Len(Plan(o)) : Plan(o)[i] \in CallNames
  <1>1. CASE o = "create"
      BY <1>1, Plans DEF DeployNodelet, EndOfPlan, CallNames
  <1>2. CASE o = "upgrade"
      BY <1>2, Plans DEF UpgradeMaster, EndOfPlan, CallNames
  <1>3. CASE o = "regen"
      BY <1>3, Plans DEF UploadCertsAndRestartStack, EndOfPlan, CallNames
  <1>4. CASE o = "delete"
      BY <1>4, Plans DEF DeleteNodelet, EndOfPlan, CallNames
  <1>. QED
      BY <1>1, <1>2, <1>3, <1>4 DEF Ops

\* What each call does to a host.
LEMMA Effects ==
  ASSUME NEW r
  PROVE  /\ Effect("crt", r) = UploadCrt(r) /\ Effect("key", r) = UploadKey(r)
         /\ Effect("config", r) = CopyNodeletConfig(r)
         /\ Effect("install", r) = InstallNodelet(op, r)
         /\ Effect("start", r) = StartNodelet(r) /\ Effect("restart", r) = RestartNodelet(r)
         /\ Effect("clear", r) = DeleteOldCerts(r) /\ Effect("stop", r) = StopNodelet(r)
         /\ Effect("down", r) = StopPhases(r) /\ Effect("erase", r) = UninstallNodelet(r)
         /\ Effect("clean", r) = CleanUp(r)
  BY Zenon DEF Effect

LEMMA EffectType ==
  ASSUME local \in [crt : CAs, key : CAs, conf : CAs],
         NEW r \in HostRecords, NEW c \in CallNames
  PROVE  Effect(c, r) \in HostRecords
  <1>. USE DEF HostRecords
  <1>0. 0 \in CAs
      BY OperationsAssumption DEF CAs
  <1>1. UploadCrt(r) \in HostRecords /\ UploadKey(r) \in HostRecords
      BY DEF UploadCrt, UploadKey
  <1>2. CopyNodeletConfig(r) \in HostRecords
      BY DEF CopyNodeletConfig
  <1>3. InstallNodelet(op, r) \in HostRecords
      BY <1>0 DEF InstallNodelet
  <1>4. StartNodelet(r) \in HostRecords /\ RestartNodelet(r) \in HostRecords
      BY DEF StartNodelet, RestartNodelet
  <1>5. StopNodelet(r) \in HostRecords /\ DeleteOldCerts(r) \in HostRecords
      BY <1>0 DEF StopNodelet, DeleteOldCerts
  <1>6. StopPhases(r) \in HostRecords
      BY <1>0 DEF StopPhases
  <1>7. UninstallNodelet(r) \in HostRecords
      BY <1>0 DEF UninstallNodelet
  <1>8. CleanUp(r) \in HostRecords
      BY <1>0 DEF CleanUp
  <1>. HIDE DEF HostRecords
  <1>. QED
      BY <1>1, <1>2, <1>3, <1>4, <1>5, <1>6, <1>7, <1>8, Effects, Zenon DEF CallNames

-----------------------------------------------------------------------------
\* Only the calls of an operation and nodeletd itself change a host.
LEMMA HostChanges ==
  ASSUME [Next]_vars
  PROVE  host' = host \/ \E h \in Hosts : Do(h) \/ DoFails(h) \/ NodeSteps(h)
  <1>1. CASE Command \/ Certs
      BY <1>1 DEF Command, Certs, CreateCluster, UpgradeCluster, RegenClusterCerts,
         DeleteCluster, Begins, RemoveCerts, WriteCrt, WriteKey, GenKubeconfig, trustCA,
         CertsFail, Working
  <1>2. CASE RoundDone \/ Connect \/ Sync \/ HelperReturns
      BY <1>2 DEF RoundDone, Connect, Sync, GetClusterNodeletStatus, Refresh, StatusRead,
         SyncAndRetry, NotSynced, SyncNodesDone, HelperReturns, waiting
  <1>3. CASE Faults
      BY <1>3 DEF Faults, ConnectFails, SyncNodesFails, Killed, HelperPanics
  <1>4. CASE UNCHANGED vars
      BY <1>4 DEF vars
  <1>. QED
      BY <1>1, <1>2, <1>3, <1>4 DEF Next, Calls

\* A call has its effect on its host, or none.
LEMMA CallChanges ==
  ASSUME NEW h \in Hosts, op \in Ops, Do(h) \/ DoFails(h)
  PROVE  \/ host' = host
         \/ \E c \in CallNames : /\ ~CannotRun(c, h) /\ c = Plan(op)[call[h]]
                                 /\ host' = [host EXCEPT ![h] = Effect(c, host[h])]
  <1>. DEFINE c == Plan(op)[call[h]]
  <1>1. call[h] \in 1 .. Len(Plan(op))
      BY DEF Do, DoFails
  <1>2. c \in CallNames
      BY <1>1, PlanTypes
  <1>3. \/ host' = host
        \/ ~CannotRun(c, h) /\ host' = [host EXCEPT ![h] = Effect(c, host[h])]
      BY DEF Do, DoFails
  <1>. QED
      BY <1>2, <1>3

\* The hosts keep their type.
LEMMA HostStep ==
  ASSUME TypeOK, PcInv, [Next]_vars
  PROVE  host' \in [Hosts -> HostRecords]
  <1>1. /\ host \in [Hosts -> HostRecords]
        /\ local \in [crt : CAs, key : CAs, conf : CAs]
      BY DEF TypeOK, HostRecords
  <1>2. ASSUME NEW h \in Hosts, Do(h) \/ DoFails(h) PROVE host' \in [Hosts -> HostRecords]
    <2>1. op \in Ops
        BY <1>2 DEF TypeOK, PcInv, Do, DoFails, Ops
    <2>2. \A c \in CallNames : Effect(c, host[h]) \in HostRecords
        BY <1>1, EffectType
    <2>. QED
        BY <1>1, <1>2, <2>1, <2>2, CallChanges
  <1>3. ASSUME NEW h \in Hosts, NodeSteps(h) PROVE host' \in [Hosts -> HostRecords]
    <2>. USE <1>1 DEF HostRecords
    <2>1. CASE Boots(h)
      <3>. DEFINE r == [host[h] EXCEPT !.nodeletd = "on", !.status = "conv"]
      <3>1. r \in HostRecords
          OBVIOUS
      <3>2. host' = [host EXCEPT ![h] = r]
          BY <2>1 DEF Boots
      <3>. QED
          BY <3>1, <3>2
    <2>2. CASE StackStarts(h)
      <3>. DEFINE a == IF host[h].certs # 0 THEN host[h].certs ELSE host[h].crt
                  r == [host[h] EXCEPT !.up = TRUE, !.certs = a]
      <3>1. a \in CAs
          OBVIOUS
      <3>2. r \in HostRecords
          BY <3>1
      <3>3. host' = [host EXCEPT ![h] = r]
          BY <2>2 DEF StackStarts
      <3>. QED
          BY <3>2, <3>3
    <2>3. CASE Converges(h)
        BY <2>3 DEF Converges
    <2>4. CASE Degrades(h)
        BY <2>4 DEF Degrades
    <2>5. CASE Retries(h)
        BY <2>5 DEF Retries
    <2>. QED
        BY <1>3, <2>1, <2>2, <2>3, <2>4, <2>5 DEF NodeSteps
  <1>. QED
      BY <1>1, <1>2, <1>3, HostChanges

\* Nothing is started on a host without the package, and its removal ends everything.
LEMMA PkgStep ==
  ASSUME TypeOK, PcInv, PkgInv, [Next]_vars
  PROVE  PkgInv'
  <1>1. host \in [Hosts -> HostRecords]
      BY DEF TypeOK, HostRecords
  <1>2. ASSUME NEW h \in Hosts, Do(h) \/ DoFails(h) PROVE PkgInv'
    <2>1. op \in Ops
        BY <1>2 DEF TypeOK, PcInv, Do, DoFails, Ops
    <2>. DEFINE Fine(r) == r.up \/ r.nodeletd # "off" => r.pkg # "none"
    <2>2. ASSUME NEW c \in CallNames, ~CannotRun(c, h) PROVE Fine(Effect(c, host[h]))
      <3>1. host[h] \in HostRecords /\ Fine(host[h])
          BY <1>1 DEF PkgInv
      <3>. DEFINE r == host[h]
      <3>. HIDE DEF r
      <3>2. Fine(UploadCrt(r)) /\ Fine(UploadKey(r)) /\ Fine(CopyNodeletConfig(r))
          BY <3>1 DEF r, HostRecords, UploadCrt, UploadKey, CopyNodeletConfig
      <3>3. Fine(InstallNodelet(op, r))
          BY <3>1 DEF r, HostRecords, InstallNodelet
      <3>4. r.pkg # "none" => Fine(StartNodelet(r)) /\ Fine(RestartNodelet(r))
          BY <3>1 DEF r, HostRecords, StartNodelet, RestartNodelet
      <3>5. Fine(DeleteOldCerts(r)) /\ Fine(StopNodelet(r)) /\ Fine(StopPhases(r))
          BY <3>1 DEF r, HostRecords, DeleteOldCerts, StopNodelet, StopPhases
      <3>6. Fine(UninstallNodelet(r)) /\ Fine(CleanUp(r))
          BY <3>1 DEF r, HostRecords, UninstallNodelet, CleanUp
      <3>7. c \in {"start", "restart"} => r.pkg # "none"
          BY <2>2 DEF CannotRun, r
      <3>. HIDE DEF Fine
      <3>. QED
          BY <3>2, <3>3, <3>4, <3>5, <3>6, <3>7, Effects, Zenon DEF CallNames, r
    <2>3. \A g \in Hosts : Fine(host[g])
        BY DEF PkgInv
    <2>. HIDE DEF Fine
    <2>4. \A g \in Hosts : Fine(host'[g])
        BY <1>1, <1>2, <2>1, <2>2, <2>3, CallChanges
    <2>. QED
        BY <2>4 DEF PkgInv, Fine
  <1>3. ASSUME NEW h \in Hosts, NodeSteps(h) PROVE PkgInv'
    <2>. USE <1>1 DEF HostRecords, PkgInv
    <2>1. CASE Boots(h)
      <3>1. /\ host'[h].pkg = host[h].pkg /\ host[h].pkg # "none"
            /\ \A g \in Hosts \ {h} : host'[g] = host[g]
          BY <2>1 DEF Boots
      <3>. QED
          BY <3>1
    <2>2. CASE StackStarts(h)
      <3>1. /\ host'[h].pkg = host[h].pkg /\ host[h].pkg # "none"
            /\ \A g \in Hosts \ {h} : host'[g] = host[g]
          BY <2>2 DEF StackStarts
      <3>. QED
          BY <3>1
    <2>3. CASE Converges(h)
        BY <2>3 DEF Converges
    <2>4. CASE Degrades(h)
        BY <2>4 DEF Degrades
    <2>5. CASE Retries(h)
        BY <2>5 DEF Retries
    <2>. QED
        BY <1>3, <2>1, <2>2, <2>3, <2>4, <2>5 DEF NodeSteps
  <1>. QED
      BY <1>2, <1>3, HostChanges DEF PkgInv

\* Every step keeps the types of what is on the machine of nodeletctl.
LEMMA LocalTypes ==
  ASSUME TypeOK, CAInv, [Next]_vars
  PROVE  local' \in [crt : CAs, key : CAs, conf : CAs] /\ ca' \in CAs
  <1>. USE DEF TypeOK
  <1>z. 0 \in CAs
      BY OperationsAssumption DEF CAs
  <1>1. CASE UNCHANGED <<local, ca>>
      BY <1>1
  <1>2. CASE RemoveCerts
      BY <1>2, <1>z DEF RemoveCerts, Working
  <1>3. CASE WriteCrt
    <2>1. ca + 1 \in CAs
        BY <1>3, OperationsAssumption DEF WriteCrt, CAInv, CAs
    <2>. QED
        BY <1>3, <2>1 DEF WriteCrt
  <1>4. CASE WriteKey
      BY <1>4 DEF WriteKey, Working
  <1>5. CASE GenKubeconfig
      BY <1>5 DEF GenKubeconfig, Working
  <1>6. CASE Killed
    <2>1. /\ UNCHANGED ca
          /\ \/ local' = local
             \/ \E f \in {"crt", "key", "conf"} : local' = [local EXCEPT ![f] = 0]
        BY <1>6 DEF Killed
    <2>2. \A f \in {"crt", "key", "conf"} :
             [local EXCEPT ![f] = 0] \in [crt : CAs, key : CAs, conf : CAs]
      <3>1. /\ [local EXCEPT !.crt = 0] \in [crt : CAs, key : CAs, conf : CAs]
            /\ [local EXCEPT !.key = 0] \in [crt : CAs, key : CAs, conf : CAs]
            /\ [local EXCEPT !.conf = 0] \in [crt : CAs, key : CAs, conf : CAs]
          BY <1>z
      <3>. QED
          BY <3>1
    <2>. QED
        BY <2>1, <2>2
  <1>7. CASE CreateCluster \/ UpgradeCluster \/ RegenClusterCerts \/ DeleteCluster \/
             trustCA \/ CertsFail \/ RoundDone
    <2>1. UNCHANGED <<local, ca>>
        BY <1>7 DEF CreateCluster, Begins, Refused, UpgradeCluster,
           RegenClusterCerts, DeleteCluster, trustCA, Working, CertsFail, Exits,
           RoundDone, sync, running, waiting, nodeletctl
    <2>. QED
        BY <1>1, <2>1
  <1>8. CASE Connect \/ GetClusterNodeletStatus \/ Refresh \/ StatusRead \/ SyncAndRetry
             \/ NotSynced \/ SyncNodesDone
    <2>1. UNCHANGED <<local, ca>>
        BY <1>8 DEF Connect, GetClusterNodeletStatus, Reads, Refresh,
           StatusRead, SyncAndRetry, NotSynced, SyncNodesDone, NextRound, Exits,
           sync, running, waiting, nodeletctl
    <2>. QED
        BY <1>1, <2>1
  <1>9. CASE HelperReturns \/ ConnectFails \/ SyncNodesFails \/ HelperPanics
    <2>1. UNCHANGED <<local, ca>>
        BY <1>9 DEF HelperReturns, ConnectFails, Exits, SyncNodesFails,
           HelperPanics, sync, running, waiting, nodeletctl
    <2>. QED
        BY <1>1, <2>1
  <1>10. ASSUME NEW h \in Hosts, Do(h) \/ DoFails(h) \/ NodeSteps(h)
         PROVE  local' \in [crt : CAs, key : CAs, conf : CAs] /\ ca' \in CAs
    <2>1. UNCHANGED <<local, ca>>
        BY <1>10 DEF Do, DoFails, Boots, StackStarts, Converges, Degrades,
           Retries, NodeSteps, sync, running, waiting, nodeletctl
    <2>. QED
        BY <1>1, <2>1
  <1>11. CASE UNCHANGED vars
      BY <1>1, <1>11 DEF vars, sync, running, waiting, nodeletctl
  <1>. QED
      BY <1>1, <1>2, <1>3, <1>4, <1>5, <1>6, <1>7, <1>8, <1>9, <1>10, <1>11 DEF
         Next, Command, Certs, Calls, Sync, Faults, NodeSteps

\* Every step keeps the types of op, pc and result.
LEMMA PcTypes ==
  ASSUME TypeOK, [Next]_vars
  PROVE  op' \in Ops \cup {"none"}
         /\ pc' \in {"idle", "rm", "crt", "key", "conf", "trust", "run", "status", "wait"}
         /\ result' \in {"ok", "error", "killed", "panic", "running"}
  <1>. USE DEF TypeOK, Ops, running, waiting
  <1>1. CASE UNCHANGED <<op, pc, result>>
      BY <1>1
  <1>2. CASE CreateCluster
      BY <1>2 DEF CreateCluster, Begins, Refused
  <1>3. CASE UpgradeCluster
      BY <1>3 DEF UpgradeCluster, Begins, Refused
  <1>4. CASE RegenClusterCerts
      BY <1>4 DEF RegenClusterCerts, Begins
  <1>5. CASE DeleteCluster
      BY <1>5 DEF DeleteCluster, Begins
  <1>6. CASE RemoveCerts
      BY <1>6 DEF RemoveCerts, Working
  <1>7. CASE WriteCrt
      BY <1>7 DEF WriteCrt, Working
  <1>8. CASE WriteKey
      BY <1>8 DEF WriteKey, Working
  <1>9. CASE GenKubeconfig
      BY <1>9 DEF GenKubeconfig, Working
  <1>10. CASE trustCA
      BY <1>10 DEF trustCA, Working
  <1>11. CASE CertsFail
      BY <1>11 DEF CertsFail, Exits
  <1>12. CASE RoundDone
      BY <1>12 DEF RoundDone
  <1>13. CASE StatusRead
      BY <1>13 DEF StatusRead
  <1>14. CASE SyncNodesDone
      BY <1>14 DEF SyncNodesDone, NextRound, Exits
  <1>15. CASE ConnectFails
      BY <1>15 DEF ConnectFails, Exits
  <1>16. CASE SyncNodesFails
      BY <1>16 DEF SyncNodesFails, Exits
  <1>17. CASE Killed
      BY <1>17 DEF Killed, Exits
  <1>18. CASE HelperPanics
      BY <1>18 DEF HelperPanics, Exits
  <1>19. CASE Connect \/ GetClusterNodeletStatus \/ Refresh \/ SyncAndRetry \/ NotSynced
              \/ HelperReturns
    <2>1. UNCHANGED <<op, pc, result>>
        BY <1>19 DEF Connect, GetClusterNodeletStatus, Reads, Refresh,
           SyncAndRetry, NotSynced, HelperReturns, sync, running, waiting,
           nodeletctl
    <2>. QED
        BY <1>1, <2>1
  <1>20. ASSUME NEW h \in Hosts, Do(h) \/ DoFails(h) \/ NodeSteps(h)
         PROVE  op' \in Ops \cup {"none"}
         /\ pc' \in {"idle", "rm", "crt", "key", "conf", "trust", "run", "status", "wait"}
         /\ result' \in {"ok", "error", "killed", "panic", "running"}
    <2>1. UNCHANGED <<op, pc, result>>
        BY <1>20 DEF Do, DoFails, Boots, StackStarts, Converges, Degrades,
           Retries, NodeSteps, sync, running, waiting, nodeletctl
    <2>. QED
        BY <1>1, <2>1
  <1>21. CASE UNCHANGED vars
      BY <1>1, <1>21 DEF vars, sync, running, waiting, nodeletctl
  <1>. QED
      BY <1>1, <1>2, <1>3, <1>4, <1>5, <1>6, <1>7, <1>8, <1>9, <1>10, <1>11,
         <1>12, <1>13, <1>14, <1>15, <1>16, <1>17, <1>18, <1>19, <1>20, <1>21 DEF
         Next, Command, Certs, Calls, Sync, Faults, NodeSteps

\* Every step keeps the counters within their bounds.
LEMMA CountTypes ==
  ASSUME TypeOK, [Next]_vars
  PROVE  ops' \in 0 .. MaxOps /\ faults' \in 0 .. MaxFaults /\ failed' \in BOOLEAN
  <1>. USE OperationsAssumption DEF TypeOK, running, waiting
  <1>1. CASE UNCHANGED <<ops, faults, failed>>
      BY <1>1
  <1>2. CASE CreateCluster
    <2>1. ops' \in 0 .. MaxOps /\ faults' = faults
        BY <1>2 DEF CreateCluster, Begins
    <2>2. failed' \in BOOLEAN
        BY <1>2 DEF CreateCluster, Begins
    <2>. QED
        BY <2>1, <2>2
  <1>3. CASE UpgradeCluster
    <2>1. ops' \in 0 .. MaxOps /\ faults' = faults
        BY <1>3 DEF UpgradeCluster, Begins
    <2>2. failed' \in BOOLEAN
        BY <1>3 DEF UpgradeCluster, Begins
    <2>. QED
        BY <2>1, <2>2
  <1>4. CASE RegenClusterCerts
    <2>1. ops' \in 0 .. MaxOps /\ faults' = faults
        BY <1>4 DEF RegenClusterCerts, Begins
    <2>2. failed' \in BOOLEAN
        BY <1>4 DEF RegenClusterCerts, Begins
    <2>. QED
        BY <2>1, <2>2
  <1>5. CASE DeleteCluster
    <2>1. ops' \in 0 .. MaxOps /\ faults' = faults
        BY <1>5 DEF DeleteCluster, Begins
    <2>2. failed' \in BOOLEAN
        BY <1>5 DEF DeleteCluster, Begins
    <2>. QED
        BY <2>1, <2>2
  <1>6. CASE CertsFail
    <2>1. faults' \in 0 .. MaxFaults
        BY <1>6 DEF CertsFail, Exits
    <2>. QED
        BY <1>6, <2>1 DEF CertsFail, Exits
  <1>7. CASE GetClusterNodeletStatus
    <2>1. ops' = ops /\ faults' \in 0 .. MaxFaults
        BY <1>7 DEF GetClusterNodeletStatus, Reads
    <2>2. failed' \in BOOLEAN
        BY <1>7 DEF GetClusterNodeletStatus, Reads
    <2>. QED
        BY <2>1, <2>2
  <1>8. CASE Refresh
    <2>1. ops' = ops /\ faults' \in 0 .. MaxFaults
        BY <1>8 DEF Refresh, Reads
    <2>2. failed' \in BOOLEAN
        BY <1>8 DEF Refresh, Reads
    <2>. QED
        BY <2>1, <2>2
  <1>9. CASE SyncNodesDone
    <2>1. faults' \in 0 .. MaxFaults
        BY <1>9 DEF SyncNodesDone, Exits, NextRound
    <2>. QED
        BY <1>9, <2>1 DEF SyncNodesDone, Exits, NextRound
  <1>10. CASE ConnectFails
    <2>1. faults' \in 0 .. MaxFaults
        BY <1>10 DEF ConnectFails, Exits
    <2>. QED
        BY <1>10, <2>1 DEF ConnectFails, Exits
  <1>11. CASE SyncNodesFails
    <2>1. faults' \in 0 .. MaxFaults
        BY <1>11 DEF SyncNodesFails, Exits
    <2>. QED
        BY <1>11, <2>1 DEF SyncNodesFails, Exits
  <1>12. CASE Killed
    <2>1. faults' \in 0 .. MaxFaults
        BY <1>12 DEF Killed, Exits
    <2>. QED
        BY <1>12, <2>1 DEF Killed, Exits
  <1>13. CASE HelperPanics
    <2>1. faults' \in 0 .. MaxFaults
        BY <1>13 DEF HelperPanics, Exits
    <2>. QED
        BY <1>13, <2>1 DEF HelperPanics, Exits
  <1>14. ASSUME NEW h \in Hosts, DoFails(h)
         PROVE  ops' \in 0 .. MaxOps /\ faults' \in 0 .. MaxFaults /\ failed' \in BOOLEAN
      BY <1>14 DEF DoFails
  <1>15. CASE RemoveCerts \/ WriteCrt \/ WriteKey \/ GenKubeconfig \/ trustCA \/
              RoundDone \/ Connect
    <2>1. UNCHANGED <<ops, faults, failed>>
        BY <1>15 DEF RemoveCerts, Working, WriteCrt, WriteKey, GenKubeconfig,
           trustCA, RoundDone, Connect, sync, running, waiting, nodeletctl
    <2>. QED
        BY <1>1, <2>1
  <1>16. CASE StatusRead \/ SyncAndRetry \/ NotSynced \/ HelperReturns
    <2>1. UNCHANGED <<ops, faults, failed>>
        BY <1>16 DEF StatusRead, SyncAndRetry, NotSynced, HelperReturns, sync,
           running, waiting, nodeletctl
    <2>. QED
        BY <1>1, <2>1
  <1>17. ASSUME NEW h \in Hosts, Do(h) \/ NodeSteps(h)
         PROVE  ops' \in 0 .. MaxOps /\ faults' \in 0 .. MaxFaults /\ failed' \in BOOLEAN
    <2>1. UNCHANGED <<ops, faults, failed>>
        BY <1>17 DEF Do, Boots, StackStarts, Converges, Degrades, Retries,
           NodeSteps, sync, running, waiting, nodeletctl
    <2>. QED
        BY <1>1, <2>1
  <1>18. CASE UNCHANGED vars
      BY <1>1, <1>18 DEF vars, sync, running, waiting, nodeletctl
  <1>. QED
      BY <1>1, <1>2, <1>3, <1>4, <1>5, <1>6, <1>7, <1>8, <1>9, <1>10, <1>11,
         <1>12, <1>13, <1>14, <1>15, <1>16, <1>17, <1>18 DEF Next, Command, Certs,
         Calls, Sync, Faults, NodeSteps

\* Every step keeps the types of the round and of the calls.
LEMMA RoundTypes ==
  ASSUME TypeOK, PcInv, [Next]_vars
  PROVE  round' \in 1 .. Len(Masters) + Len(Workers) + 2 /\ call' \in [Hosts -> 0 .. 7]
  <1>. USE DEF TypeOK, running, waiting
  <1>p. pc # "idle" => op \in Ops
      BY DEF PcInv, Ops
  <1>1. CASE UNCHANGED <<round, call>>
      BY <1>1
  <1>2. CASE CertsFail
      BY <1>2, HostSeqs DEF CertsFail, Exits
  <1>3. CASE RoundDone
    <2>1. op \in Ops
        BY <1>p, <1>3 DEF RoundDone
    <2>2. round' \in 1 .. Len(Masters) + Len(Workers) + 2
      <3>. DEFINE n == Len(Masters) + Len(Workers) + 2
                  m == Len(Rounds(op))
      <3>1. n \in Nat /\ 1 <= n /\ m \in 1 .. n /\ round \in 1 .. n
          BY <2>1, RoundsCover, HostSeqs
      <3>2. (round < m /\ round' = round + 1) \/ round' = 1 \/ round' = round
          BY <1>3 DEF RoundDone
      <3>. HIDE DEF n, m
      <3>3. round' \in 1 .. n
          BY <3>1, <3>2
      <3>. QED
          BY <3>3 DEF n
    <2>3. call' = [h \in Hosts |-> 0]
        BY <1>3 DEF RoundDone
    <2>. QED
        BY <2>2, <2>3
  <1>4. CASE Connect
    <2>1. PICK g : call' = [call EXCEPT ![g] = 1]
        BY <1>4 DEF Connect
    <2>2. round' = round
        BY <1>4 DEF Connect
    <2>3. call' = [x \in Hosts |-> IF x = g THEN 1 ELSE call[x]]
        BY <2>1
    <2>4. call' \in [Hosts -> 0 .. 7]
        BY <2>3
    <2>. QED
        BY <2>2, <2>4
  <1>5. ASSUME NEW h \in Hosts, Do(h)
        PROVE  round' \in 1 .. Len(Masters) + Len(Workers) + 2 /\ call' \in [Hosts -> 0 .. 7]
    <2>1. call[h] \in 1 .. Len(Plan(op)) /\ call' = [call EXCEPT ![h] = call[h] + 1]
          /\ round' = round
        BY <1>5 DEF Do
    <2>. DEFINE n == Len(Plan(op))
    <2>2. n \in 1 .. 6 /\ call[h] \in 1 .. n
        BY <1>p, <1>5, PlanTypes DEF Do
    <2>. HIDE DEF n
    <2>3. call[h] + 1 \in 0 .. 7
        BY <2>2
    <2>. QED
        BY <2>1, <2>3
  <1>6. CASE SyncNodesDone
    <2>1. op \in Ops
        BY <1>p, <1>6 DEF SyncNodesDone
    <2>2. round' \in 1 .. Len(Masters) + Len(Workers) + 2
        BY <1>6, <2>1, RoundsCover, HostSeqs DEF SyncNodesDone, NextRound, Exits
    <2>. QED
        BY <1>6, <2>2 DEF SyncNodesDone, NextRound, Exits
  <1>7. CASE ConnectFails
      BY <1>7, HostSeqs DEF ConnectFails, Exits
  <1>8. CASE SyncNodesFails
      BY <1>8, HostSeqs DEF SyncNodesFails, Exits
  <1>9. CASE Killed
      BY <1>9, HostSeqs DEF Killed, Exits
  <1>10. CASE HelperPanics
      BY <1>10, HostSeqs DEF HelperPanics, Exits
  <1>11. ASSUME NEW h \in Hosts, DoFails(h)
         PROVE  round' \in 1 .. Len(Masters) + Len(Workers) + 2 /\ call' \in [Hosts -> 0 .. 7]
    <2>. DEFINE n == Len(Plan(op))
    <2>2. n \in 1 .. 6 /\ EndOfPlan(op) = n + 1
        BY <1>p, <1>11, PlanTypes DEF DoFails
    <2>. HIDE DEF n
    <2>1. EndOfPlan(op) \in 0 .. 7
        BY <2>2
    <2>. QED
        BY <1>11, <2>1 DEF DoFails
  <1>12. CASE CreateCluster \/ UpgradeCluster \/ RegenClusterCerts \/ DeleteCluster \/
              RemoveCerts \/ WriteCrt \/ WriteKey
    <2>1. UNCHANGED <<round, call>>
        BY <1>12 DEF CreateCluster, Begins, Refused, UpgradeCluster,
           RegenClusterCerts, DeleteCluster, RemoveCerts, Working, WriteCrt,
           WriteKey, sync, running, waiting, nodeletctl
    <2>. QED
        BY <1>1, <2>1
  <1>13. CASE GenKubeconfig \/ trustCA \/ GetClusterNodeletStatus \/ Refresh \/
              StatusRead \/ SyncAndRetry \/ NotSynced
    <2>1. UNCHANGED <<round, call>>
        BY <1>13 DEF GenKubeconfig, Working, trustCA, GetClusterNodeletStatus,
           Reads, Refresh, StatusRead, SyncAndRetry, NotSynced, sync, running,
           waiting, nodeletctl
    <2>. QED
        BY <1>1, <2>1
  <1>14. CASE HelperReturns
    <2>1. UNCHANGED <<round, call>>
        BY <1>14 DEF HelperReturns, sync, running, waiting, nodeletctl
    <2>. QED
        BY <1>1, <2>1
  <1>15. ASSUME NEW h \in Hosts, NodeSteps(h)
         PROVE  round' \in 1 .. Len(Masters) + Len(Workers) + 2 /\ call' \in [Hosts -> 0 .. 7]
    <2>1. UNCHANGED <<round, call>>
        BY <1>15 DEF Boots, StackStarts, Converges, Degrades, Retries,
           NodeSteps, sync, running, waiting, nodeletctl
    <2>. QED
        BY <1>1, <2>1
  <1>16. CASE UNCHANGED vars
      BY <1>1, <1>16 DEF vars, sync, running, waiting, nodeletctl
  <1>. QED
      BY <1>1, <1>2, <1>3, <1>4, <1>5, <1>6, <1>7, <1>8, <1>9, <1>10, <1>11,
         <1>12, <1>13, <1>14, <1>15, <1>16 DEF Next, Command, Certs, Calls, Sync,
         Faults, NodeSteps

\* Every step keeps the types of SyncNodes.
LEMMA SyncTypes ==
  ASSUME TypeOK, PcInv, [Next]_vars
  PROVE  seen' \subseteq Hosts /\ unread' \subseteq Hosts
         /\ helper' \in {"none", "select", "round", "closed"} /\ left' \in BOOLEAN
  <1>. USE DEF TypeOK, running, waiting
  <1>t. /\ pc \in {"run", "status", "wait"} => InRound \subseteq Hosts
        /\ helper # "none" => ToSync \subseteq Hosts
    <2>1. pc \in {"run", "status", "wait"} => op \in Ops /\ round \in 1 .. Len(Rounds(op))
        BY HostSeqs DEF PcInv, Busy, Ops
    <2>2. pc \in {"run", "status", "wait"} => InRound \subseteq Hosts
        BY <2>1, RoundsCover DEF InRound
    <2>. QED
        BY <2>2 DEF PcInv, ToSync
  <1>1. CASE UNCHANGED <<seen, unread, helper, left>>
      BY <1>1
  <1>2. CASE CertsFail
      BY <1>2 DEF CertsFail, Exits
  <1>3. CASE RoundDone
      BY <1>3, <1>t DEF RoundDone
  <1>4. CASE GetClusterNodeletStatus
    <2>1. unread # {} => First(unread) \in Hosts
        BY FirstIn
    <2>. QED
        BY <1>4, <2>1 DEF GetClusterNodeletStatus, Reads
  <1>5. CASE Refresh
    <2>1. unread # {} => First(unread) \in Hosts
        BY FirstIn
    <2>. QED
        BY <1>5, <2>1 DEF Refresh, Reads
  <1>6. CASE StatusRead
      BY <1>6 DEF StatusRead
  <1>7. CASE SyncAndRetry
      BY <1>7, <1>t DEF SyncAndRetry
  <1>8. CASE NotSynced
      BY <1>8 DEF NotSynced
  <1>9. CASE SyncNodesDone
      BY <1>9 DEF SyncNodesDone, NextRound, Exits
  <1>10. CASE HelperReturns
      BY <1>10 DEF HelperReturns
  <1>11. CASE ConnectFails
      BY <1>11 DEF ConnectFails, Exits
  <1>12. CASE SyncNodesFails
      BY <1>12 DEF SyncNodesFails, Exits
  <1>13. CASE Killed
      BY <1>13 DEF Killed, Exits
  <1>14. CASE HelperPanics
      BY <1>14 DEF HelperPanics, Exits
  <1>15. CASE CreateCluster \/ UpgradeCluster \/ RegenClusterCerts \/ DeleteCluster \/
              RemoveCerts \/ WriteCrt \/ WriteKey
    <2>1. UNCHANGED <<seen, unread, helper, left>>
        BY <1>15 DEF CreateCluster, Begins, Refused, UpgradeCluster,
           RegenClusterCerts, DeleteCluster, RemoveCerts, Working, WriteCrt,
           WriteKey, sync, running, waiting, nodeletctl
    <2>. QED
        BY <1>1, <2>1
  <1>16. CASE GenKubeconfig \/ trustCA \/ Connect
    <2>1. UNCHANGED <<seen, unread, helper, left>>
        BY <1>16 DEF GenKubeconfig, Working, trustCA, Connect, sync, running,
           waiting, nodeletctl
    <2>. QED
        BY <1>1, <2>1
  <1>17. ASSUME NEW h \in Hosts, Do(h) \/ DoFails(h) \/ NodeSteps(h)
         PROVE  seen' \subseteq Hosts /\ unread' \subseteq Hosts
         /\ helper' \in {"none", "select", "round", "closed"} /\ left' \in BOOLEAN
    <2>1. UNCHANGED <<seen, unread, helper, left>>
        BY <1>17 DEF Do, DoFails, Boots, StackStarts, Converges, Degrades,
           Retries, NodeSteps, sync, running, waiting, nodeletctl
    <2>. QED
        BY <1>1, <2>1
  <1>18. CASE UNCHANGED vars
      BY <1>1, <1>18 DEF vars, sync, running, waiting, nodeletctl
  <1>. QED
      BY <1>1, <1>2, <1>3, <1>4, <1>5, <1>6, <1>7, <1>8, <1>9, <1>10, <1>11,
         <1>12, <1>13, <1>14, <1>15, <1>16, <1>17, <1>18 DEF Next, Command, Certs,
         Calls, Sync, Faults, NodeSteps

\* Every step keeps the types of the Node objects and of the history.
LEMMA NodeTypes ==
  ASSUME TypeOK, [Next]_vars
  PROVE  nodes' \subseteq Hosts /\ since' \subseteq Hosts
  <1>. USE DEF TypeOK, nodeletctl
  <1>1. CASE UNCHANGED <<nodes, since>>
      BY <1>1
  <1>2. ASSUME NEW h \in Hosts, Do(h)
        PROVE  nodes' \subseteq Hosts /\ since' \subseteq Hosts
    <2>1. nodes' = Kept
        BY <1>2 DEF Do
    <2>. QED
        BY <1>2, <2>1 DEF Do, Kept
  <1>3. ASSUME NEW h \in Hosts, DoFails(h)
        PROVE  nodes' \subseteq Hosts /\ since' \subseteq Hosts
    <2>1. nodes' = nodes \/ nodes' = Kept
        BY <1>3 DEF DoFails
    <2>2. since' \subseteq since
        BY <1>3 DEF DoFails
    <2>. QED
        BY <2>1, <2>2 DEF Kept
  <1>4. ASSUME NEW h \in Hosts, Converges(h)
        PROVE  nodes' \subseteq Hosts /\ since' \subseteq Hosts
      BY <1>4 DEF Converges
  <1>5. CASE CreateCluster \/ UpgradeCluster \/ RegenClusterCerts \/ DeleteCluster \/
             RemoveCerts \/ WriteCrt \/ WriteKey
    <2>1. UNCHANGED <<nodes, since>>
        BY <1>5 DEF CreateCluster, Begins, Refused, UpgradeCluster,
           RegenClusterCerts, DeleteCluster, RemoveCerts, Working, WriteCrt,
           WriteKey, sync, running, waiting, nodeletctl
    <2>. QED
        BY <1>1, <2>1
  <1>6. CASE GenKubeconfig \/ trustCA \/ CertsFail \/ RoundDone \/ Connect \/
             GetClusterNodeletStatus \/ Refresh
    <2>1. UNCHANGED <<nodes, since>>
        BY <1>6 DEF GenKubeconfig, Working, trustCA, CertsFail, Exits,
           RoundDone, Connect, GetClusterNodeletStatus, Reads, Refresh, sync,
           running, waiting, nodeletctl
    <2>. QED
        BY <1>1, <2>1
  <1>7. CASE StatusRead \/ SyncAndRetry \/ NotSynced \/ SyncNodesDone \/ HelperReturns
             \/ ConnectFails \/ SyncNodesFails
    <2>1. UNCHANGED <<nodes, since>>
        BY <1>7 DEF StatusRead, SyncAndRetry, NotSynced, SyncNodesDone,
           NextRound, Exits, HelperReturns, ConnectFails, SyncNodesFails, sync,
           running, waiting, nodeletctl
    <2>. QED
        BY <1>1, <2>1
  <1>8. CASE Killed \/ HelperPanics
    <2>1. UNCHANGED <<nodes, since>>
        BY <1>8 DEF Killed, Exits, HelperPanics, sync, running, waiting,
           nodeletctl
    <2>. QED
        BY <1>1, <2>1
  <1>9. ASSUME NEW h \in Hosts, Boots(h) \/ StackStarts(h) \/ Degrades(h) \/ Retries(h)
        PROVE  nodes' \subseteq Hosts /\ since' \subseteq Hosts
    <2>1. UNCHANGED <<nodes, since>>
        BY <1>9 DEF Boots, StackStarts, Degrades, Retries, sync, running,
           waiting, nodeletctl
    <2>. QED
        BY <1>1, <2>1
  <1>10. CASE UNCHANGED vars
      BY <1>1, <1>10 DEF vars, sync, running, waiting, nodeletctl
  <1>. QED
      BY <1>1, <1>2, <1>3, <1>4, <1>5, <1>6, <1>7, <1>8, <1>9, <1>10 DEF Next,
         Command, Certs, Calls, Sync, Faults, NodeSteps

\* Every step keeps the types.
LEMMA TypeStep ==
  ASSUME TypeOK, PcInv, CAInv, [Next]_vars
  PROVE  TypeOK'
  <1>1. host' \in [Hosts -> HostRecords]
      BY HostStep
  <1>2. local' \in [crt : CAs, key : CAs, conf : CAs] /\ ca' \in CAs
      BY LocalTypes
  <1>3. ops' \in 0 .. MaxOps /\ faults' \in 0 .. MaxFaults /\ failed' \in BOOLEAN
      BY CountTypes
  <1>. QED
      BY <1>1, <1>2, <1>3, PcTypes, RoundTypes, SyncTypes, NodeTypes
         DEF TypeOK, HostRecords, Ops

\* Every operation has a round, and every round a call.
LEMMA Bounds ==
  ASSUME NEW o \in Ops
  PROVE  /\ Len(Rounds(o)) \in Nat /\ 1 <= Len(Rounds(o))
         /\ EndOfPlan(o) \in 2 .. 7 /\ EndOfPlan(o) = Len(Plan(o)) + 1
  <1>1. Len(Rounds(o)) \in 1 .. Len(Masters) + Len(Workers) + 2
      BY RoundsCover
  <1>. DEFINE m == Len(Rounds(o))
              n == Len(Plan(o))
  <1>2. m \in Nat /\ 1 <= m
      BY <1>1, HostSeqs
  <1>3. n \in 1 .. 6 /\ EndOfPlan(o) = n + 1
      BY PlanTypes
  <1>. HIDE DEF m, n
  <1>4. EndOfPlan(o) \in 2 .. 7
      BY <1>3
  <1>. QED
      BY <1>2, <1>3, <1>4 DEF m, n

\* A round in progress is one of the operation's, and its hosts are hosts.
LEMMA RoundHosts ==
  ASSUME TypeOK, PcInv, Busy
  PROVE  op \in Ops /\ round \in 1 .. Len(Rounds(op)) /\ InRound \subseteq Hosts
  <1>1. op \in Ops
      BY DEF TypeOK, PcInv, Busy, Ops
  <1>. DEFINE m == Len(Rounds(op))
  <1>2. m \in Nat /\ round \in Nat /\ 1 <= round /\ round <= m
      BY <1>1, Bounds, HostSeqs DEF TypeOK, PcInv
  <1>. HIDE DEF m
  <1>3. round \in 1 .. m
      BY <1>2
  <1>. QED
      BY <1>1, <1>3, RoundsCover DEF InRound, m

\* A connection is made to a host of the round.
LEMMA ConnectHost ==
  ASSUME TypeOK, PcInv, Connect
  PROVE  \E g \in Hosts : /\ g \in InRound /\ call[g] = 0
                          /\ call' = [call EXCEPT ![g] = 1]
  <1>1. InRound \subseteq Hosts
      BY RoundHosts DEF Connect, Busy
  <1>2. Unconnected \in SUBSET Hosts /\ Unconnected # {}
      BY <1>1 DEF Connect, Unconnected
  <1>3. First(Unconnected) \in Unconnected
      BY <1>2, FirstIn, Zenon
  <1>. QED
      BY <1>1, <1>3 DEF Connect, Unconnected

\* Every step leaves the number of CAs within the number of operations.
LEMMA CAStep ==
  ASSUME TypeOK, CAInv, [Next]_vars
  PROVE  CAInv'
  <1>. USE DEF TypeOK, CAInv, CAs, waiting
  <1>1. CASE UNCHANGED <<ca, ops, pc>>
      BY <1>1
  <1>2. CASE CreateCluster
      BY <1>2 DEF CreateCluster, Begins, Refused
  <1>3. CASE UpgradeCluster
      BY <1>3 DEF UpgradeCluster, Begins, Refused
  <1>4. CASE RegenClusterCerts
      BY <1>4 DEF RegenClusterCerts, Begins
  <1>5. CASE DeleteCluster
      BY <1>5 DEF DeleteCluster, Begins
  <1>6. CASE RemoveCerts
      BY <1>6 DEF RemoveCerts, Working
  <1>7. CASE WriteCrt
      BY <1>7 DEF WriteCrt, Working
  <1>8. CASE WriteKey
      BY <1>8 DEF WriteKey, Working
  <1>9. CASE GenKubeconfig
      BY <1>9 DEF GenKubeconfig, Working
  <1>10. CASE trustCA
      BY <1>10 DEF trustCA, Working
  <1>11. CASE CertsFail
      BY <1>11 DEF CertsFail, Exits
  <1>12. CASE RoundDone
      BY <1>12 DEF RoundDone
  <1>13. CASE StatusRead
      BY <1>13 DEF StatusRead
  <1>14. CASE SyncNodesDone
      BY <1>14 DEF SyncNodesDone, NextRound, Exits
  <1>15. CASE ConnectFails
      BY <1>15 DEF ConnectFails, Exits
  <1>16. CASE SyncNodesFails
      BY <1>16 DEF SyncNodesFails, Exits
  <1>17. CASE Killed
      BY <1>17 DEF Killed, Exits
  <1>18. CASE HelperPanics
      BY <1>18 DEF HelperPanics, Exits
  <1>19. CASE Connect \/ GetClusterNodeletStatus \/ Refresh \/ SyncAndRetry \/ NotSynced
              \/ HelperReturns
    <2>1. UNCHANGED <<ca, ops, pc>>
        BY <1>19 DEF Connect, GetClusterNodeletStatus, Reads, Refresh,
           SyncAndRetry, NotSynced, HelperReturns, sync, running, waiting,
           nodeletctl
    <2>. QED
        BY <1>1, <2>1
  <1>20. ASSUME NEW h \in Hosts, Do(h) \/ DoFails(h) \/ NodeSteps(h)
         PROVE  CAInv'
    <2>1. UNCHANGED <<ca, ops, pc>>
        BY <1>20 DEF Do, DoFails, Boots, StackStarts, Converges, Degrades,
           Retries, NodeSteps, sync, running, waiting, nodeletctl
    <2>. QED
        BY <1>1, <2>1
  <1>21. CASE UNCHANGED vars
      BY <1>1, <1>21 DEF vars, sync, running, waiting, nodeletctl
  <1>. QED
      BY <1>1, <1>2, <1>3, <1>4, <1>5, <1>6, <1>7, <1>8, <1>9, <1>10, <1>11,
         <1>12, <1>13, <1>14, <1>15, <1>16, <1>17, <1>18, <1>19, <1>20, <1>21 DEF
         Next, Command, Certs, Calls, Sync, Faults, NodeSteps

\* Every step keeps its place in the operation.
LEMMA PcStep ==
  ASSUME TypeOK, PcInv, [Next]_vars
  PROVE  PcInv'
  <1>. USE DEF TypeOK, PcInv, Busy, InRound, ToSync, sync, running, waiting, nodeletctl
  <1>1. CASE UNCHANGED <<op, pc, round, call, seen, helper>>
      BY <1>1
  <1>2. CASE CreateCluster
      BY <1>2 DEF CreateCluster, Begins, Refused
  <1>3. CASE UpgradeCluster
    <2>1. op' \in Ops
        BY <1>3 DEF UpgradeCluster, Begins, Ops
    <2>2. \A h \in Hosts : call'[h] = 0 /\ 0 <= EndOfPlan(op')
        BY <1>3, <2>1, Bounds DEF UpgradeCluster, Begins
    <2>3. round' <= Len(Rounds(op'))
        BY <1>3, <2>1, Bounds DEF UpgradeCluster, Begins
    <2>. QED
        BY <1>3, <2>2, <2>3 DEF UpgradeCluster, Begins, Refused
  <1>4. CASE RegenClusterCerts
      BY <1>4 DEF RegenClusterCerts, Begins
  <1>5. CASE DeleteCluster
    <2>1. op' \in Ops
        BY <1>5 DEF DeleteCluster, Begins, Ops
    <2>2. \A h \in Hosts : call'[h] = 0 /\ 0 <= EndOfPlan(op')
        BY <1>5, <2>1, Bounds DEF DeleteCluster, Begins
    <2>3. round' <= Len(Rounds(op'))
        BY <1>5, <2>1, Bounds DEF DeleteCluster, Begins
    <2>. QED
        BY <1>5, <2>2, <2>3 DEF DeleteCluster, Begins
  <1>6. CASE RemoveCerts
      BY <1>6 DEF RemoveCerts, Working
  <1>7. CASE WriteCrt
      BY <1>7 DEF WriteCrt, Working
  <1>8. CASE WriteKey
      BY <1>8 DEF WriteKey, Working
  <1>9. CASE GenKubeconfig
    <2>1. op' \in Ops
        BY <1>9 DEF GenKubeconfig, Working, Ops
    <2>2. \A h \in Hosts : call'[h] = 0 /\ 0 <= EndOfPlan(op')
        BY <1>9, <2>1, Bounds DEF GenKubeconfig, Working
    <2>3. round' <= Len(Rounds(op'))
        BY <1>9, <2>1, Bounds DEF GenKubeconfig, Working
    <2>. QED
        BY <1>9, <2>2, <2>3 DEF GenKubeconfig, Working
  <1>10. CASE trustCA
    <2>1. op' \in Ops
        BY <1>10 DEF trustCA, Working, Ops
    <2>2. \A h \in Hosts : call'[h] = 0 /\ 0 <= EndOfPlan(op')
        BY <1>10, <2>1, Bounds DEF trustCA, Working
    <2>3. round' <= Len(Rounds(op'))
        BY <1>10, <2>1, Bounds DEF trustCA, Working
    <2>. QED
        BY <1>10, <2>2, <2>3 DEF trustCA, Working
  <1>11. CASE CertsFail
      BY <1>11 DEF CertsFail, Exits
  <1>12. CASE RoundDone
    <2>1. /\ call' = [h \in Hosts |-> 0] /\ pc = "run" /\ UNCHANGED <<op, seen, helper>>
          /\ \/ round < Len(Rounds(op)) /\ round' = round + 1 /\ pc' = "run"
             \/ pc' = "idle" /\ round' = 1
             \/ pc' = "status" /\ op # "delete" /\ (op # "regen" => round = Len(Rounds(op)))
                /\ round' = round
        BY <1>12 DEF RoundDone
    <2>a. op \in Ops /\ round \in Nat
      <3>1. TypeOK /\ PcInv /\ Busy
          BY <2>1 DEF Busy
      <3>. HIDE DEF TypeOK, PcInv
      <3>2. op \in Ops
          BY <3>1, RoundHosts
      <3>. QED
          BY <3>2 DEF TypeOK
    <2>2. op \in Ops /\ round \in Nat /\ Len(Rounds(op)) \in Nat /\ EndOfPlan(op) \in 2 .. 7
      <3>. HIDE DEF TypeOK, PcInv
      <3>. QED
          BY <2>a, Bounds
    <2>3. /\ op # "none" /\ seen = {} /\ helper = "none" /\ round <= Len(Rounds(op))
        BY <2>1
    <2>. HIDE DEF TypeOK, PcInv, InRound, ToSync
    <2>4. CASE round < Len(Rounds(op)) /\ round' = round + 1 /\ pc' = "run"
      <3>1. round' <= Len(Rounds(op'))
          BY <2>1, <2>2, <2>4
      <3>2. \A h \in Hosts : call'[h] = 0 /\ 0 <= EndOfPlan(op')
          BY <2>1, <2>2
      <3>. QED
          BY <2>1, <2>3, <2>4, <3>1, <3>2 DEF PcInv
    <2>5. CASE pc' = "idle" /\ round' = 1
        BY <2>1, <2>3, <2>5 DEF PcInv
    <2>6. CASE /\ pc' = "status" /\ op # "delete" /\ (op # "regen" => round = Len(Rounds(op)))
               /\ round' = round
        BY <2>1, <2>3, <2>6 DEF PcInv
    <2>. QED
        BY <2>1, <2>4, <2>5, <2>6
  <1>13. CASE Connect
    <2>1. op \in Ops
        BY <1>13, RoundHosts DEF Connect
    <2>2. EndOfPlan(op) \in 2 .. 7 /\ call \in [Hosts -> 0 .. 7]
        BY <2>1, Bounds
    <2>3. PICK g \in Hosts : g \in InRound /\ call' = [call EXCEPT ![g] = 1]
        BY <1>13, ConnectHost
    <2>4. \A h \in Hosts : call'[h] <= EndOfPlan(op) /\ (call'[h] # 0 => h \in InRound)
      <3>1. \A h \in Hosts : call[h] <= EndOfPlan(op) /\ (call[h] # 0 => h \in InRound)
          BY <1>13 DEF Connect
      <3>. HIDE DEF TypeOK, PcInv, Busy, InRound, ToSync
      <3>. QED
          BY <2>2, <2>3, <3>1
    <2>5. UNCHANGED <<op, pc, round, seen, helper>>
        BY <1>13 DEF Connect
    <2>. QED
        BY <1>13, <2>4, <2>5 DEF Connect
  <1>14. ASSUME NEW h \in Hosts, Do(h) PROVE PcInv'
    <2>1. op \in Ops
        BY <1>14, RoundHosts DEF Do
    <2>2. /\ call[h] \in 1 .. Len(Plan(op)) /\ pc = "run"
          /\ call' = [call EXCEPT ![h] = call[h] + 1]
          /\ UNCHANGED <<op, pc, round, seen, helper>>
        BY <1>14 DEF Do
    <2>. DEFINE n == Len(Plan(op))
    <2>3. call[h] \in 1 .. n /\ n \in Nat /\ EndOfPlan(op) = n + 1
        BY <2>1, <2>2, PlanTypes
    <2>. HIDE DEF n
    <2>4. \A g \in Hosts : call'[g] <= EndOfPlan(op) /\ (call'[g] # 0 => g \in InRound)
        BY <2>2, <2>3
    <2>. QED
        BY <2>2, <2>4
  <1>15. CASE GetClusterNodeletStatus
      BY <1>15 DEF GetClusterNodeletStatus, Reads
  <1>16. CASE Refresh
      BY <1>16 DEF Refresh, Reads
  <1>17. CASE StatusRead
      BY <1>17 DEF StatusRead
  <1>18. CASE SyncAndRetry
      BY <1>18 DEF SyncAndRetry
  <1>19. CASE NotSynced
      BY <1>19 DEF NotSynced
  <1>20. CASE SyncNodesDone
    <2>1. CASE NextRound
      <3>1. op \in Ops /\ call = [h \in Hosts |-> 0]
          BY <1>20, RoundHosts DEF SyncNodesDone
      <3>a. EndOfPlan(op) \in 2 .. 7
          BY <3>1, Bounds
      <3>2. \A h \in Hosts : call[h] = 0 /\ 0 <= EndOfPlan(op)
          BY <3>1, <3>a
      <3>3. round + 1 <= Len(Rounds(op))
          BY <2>1, <3>1, Bounds DEF NextRound
      <3>. QED
          BY <2>1, <3>1, <3>2, <3>3 DEF NextRound
    <2>2. CASE Exits("ok", FALSE)
        BY <2>2 DEF Exits
    <2>. QED
        BY <1>20, <2>1, <2>2 DEF SyncNodesDone
  <1>21. CASE ConnectFails
      BY <1>21 DEF ConnectFails, Exits
  <1>22. CASE SyncNodesFails
      BY <1>22 DEF SyncNodesFails, Exits
  <1>23. CASE Killed
      BY <1>23 DEF Killed, Exits
  <1>24. CASE HelperPanics
      BY <1>24 DEF HelperPanics, Exits
  <1>25. ASSUME NEW h \in Hosts, DoFails(h) PROVE PcInv'
    <2>1. op \in Ops
        BY <1>25, RoundHosts DEF DoFails
    <2>2. /\ call[h] \in 1 .. Len(Plan(op)) /\ pc = "run"
          /\ call' = [call EXCEPT ![h] = EndOfPlan(op)]
          /\ UNCHANGED <<op, pc, round, seen, helper>>
        BY <1>25 DEF DoFails
    <2>3. call[h] # 0 /\ EndOfPlan(op) \in Nat
      <3>. DEFINE n == Len(Plan(op))
                  e == EndOfPlan(op)
      <3>. HIDE DEF TypeOK, PcInv
      <3>1. e \in 2 .. 7 /\ e = n + 1
          BY <2>1, Bounds
      <3>2. call[h] \in 1 .. n
          BY <2>2
      <3>. HIDE DEF n, e
      <3>3. call[h] # 0 /\ e \in Nat
          BY <3>1, <3>2
      <3>. QED
          BY <3>3 DEF e
    <2>a. call \in [Hosts -> 0 .. 7] /\ h \in InRound
          /\ \A g \in Hosts : call[g] <= EndOfPlan(op) /\ (call[g] # 0 => g \in InRound)
        BY <2>2, <2>3
    <2>4. \A g \in Hosts : call'[g] <= EndOfPlan(op) /\ (call'[g] # 0 => g \in InRound)
      <3>. HIDE DEF TypeOK, PcInv, InRound
      <3>. QED
          BY <2>2, <2>3, <2>a
    <2>5. InRound' = InRound /\ ToSync' = ToSync
        BY <2>2 DEF InRound, ToSync
    <2>. QED
        BY <2>2, <2>4, <2>5
  <1>26. CASE HelperReturns
    <2>1. UNCHANGED <<op, pc, round, call, seen, helper>>
        BY <1>26 DEF HelperReturns, sync, running, waiting, nodeletctl
    <2>. QED
        BY <1>1, <2>1
  <1>27. ASSUME NEW h \in Hosts, NodeSteps(h)
         PROVE  PcInv'
    <2>1. UNCHANGED <<op, pc, round, call, seen, helper>>
        BY <1>27 DEF Boots, StackStarts, Converges, Degrades, Retries,
           NodeSteps, sync, running, waiting, nodeletctl
    <2>. QED
        BY <1>1, <2>1
  <1>28. CASE UNCHANGED vars
      BY <1>1, <1>28 DEF vars, sync, running, waiting, nodeletctl
  <1>. QED
      BY <1>1, <1>2, <1>3, <1>4, <1>5, <1>6, <1>7, <1>8, <1>9, <1>10, <1>11,
         <1>12, <1>13, <1>14, <1>15, <1>16, <1>17, <1>18, <1>19, <1>20, <1>21,
         <1>22, <1>23, <1>24, <1>25, <1>26, <1>27, <1>28 DEF Next, Command, Certs,
         Calls, Sync, Faults, NodeSteps

-----------------------------------------------------------------------------
\* A host and the calls that were made on it.

\* The clean-up after the removal leaves nothing.
LEMMA CleanedIsAbsent ==
  ASSUME NEW r \in HostRecords, Erased(r)
  PROVE  CleanUp(r) = Absent
  <1>. DEFINE q == CleanUp(r)
  <1>1. /\ q.pkg = r.pkg /\ q.crt = 0 /\ q.key = 0 /\ q.certs = 0 /\ q.conf = FALSE
        /\ q.nodeletd = r.nodeletd /\ q.up = r.up /\ q.status = "none"
      BY DEF CleanUp, HostRecords
  <1>2. q \in HostRecords
    <2>1. 0 \in CAs
        BY OperationsAssumption DEF CAs
    <2>. QED
        BY <2>1 DEF CleanUp, HostRecords
  <1>. HIDE DEF q
  <1>3. q = [pkg |-> q.pkg, crt |-> q.crt, key |-> q.key, certs |-> q.certs,
             conf |-> q.conf, nodeletd |-> q.nodeletd, up |-> q.up, status |-> q.status]
      BY <1>2 DEF HostRecords
  <1>4. r.pkg = "none" /\ r.nodeletd = "off" /\ r.up = FALSE
      BY DEF Erased
  <1>5. q = Absent
      BY <1>1, <1>3, <1>4, Zenon DEF Absent
  <1>. QED
      BY <1>5 DEF q

\* Each call brings its host on.
LEMMA UpgradeCall ==
  ASSUME op = "upgrade", NEW r \in HostRecords, NEW i \in 1 .. 4, NEW a,
         NEW h, NEW S, NEW T, After("upgrade", i, r, a, h \in S)
  PROVE  After("upgrade", i + 1, Effect(UpgradeMaster[i], r), a, h \in T)
  <1>. DEFINE q == Effect(UpgradeMaster[i], r)
  <1>1. CASE i = 1
    <2>1. q = UninstallNodelet(r)
        BY <1>1, Effects DEF UpgradeMaster
    <2>2. q.pkg = "none" /\ q.nodeletd = "off" /\ q.status = "none"
        BY <2>1 DEF UninstallNodelet, HostRecords
    <2>. QED
        BY <1>1, <2>2 DEF After
  <1>2. CASE i = 2
    <2>1. q = CopyNodeletConfig(r)
        BY <1>2, Effects DEF UpgradeMaster
    <2>2. r.pkg = "none" /\ r.nodeletd = "off" /\ r.status = "none"
        BY <1>2 DEF After
    <2>3. q.pkg = "none" /\ q.nodeletd = "off" /\ q.status = "none"
        BY <2>1, <2>2 DEF CopyNodeletConfig, HostRecords
    <2>. QED
        BY <1>2, <2>3 DEF After
  <1>3. CASE i = 3
    <2>1. q = InstallNodelet("upgrade", r)
        BY <1>3, Effects DEF UpgradeMaster
    <2>2. r.pkg = "none" /\ r.nodeletd = "off" /\ r.status = "none"
        BY <1>3 DEF After
    <2>3. q = [r EXCEPT !.pkg = "new", !.up = FALSE, !.certs = 0]
        BY <2>1, <2>2 DEF InstallNodelet
    <2>4. q.pkg = "new" /\ q.nodeletd = "off" /\ q.status = "none"
        BY <2>2, <2>3 DEF HostRecords
    <2>. QED
        BY <1>3, <2>4 DEF After
  <1>4. CASE i = 4
    <2>1. q = RestartNodelet(r)
        BY <1>4, Effects DEF UpgradeMaster
    <2>2. r.pkg = "new" /\ r.status = "none"
        BY <1>4 DEF After
    <2>3. q.pkg = "new" /\ q.status = "none"
        BY <2>1, <2>2 DEF RestartNodelet, HostRecords
    <2>. QED
        BY <1>4, <2>3 DEF After
  <1>. QED
      BY <1>1, <1>2, <1>3, <1>4

LEMMA RegenCall ==
  ASSUME local.key = local.crt, NEW r \in HostRecords, NEW i \in 1 .. 6,
         NEW h, NEW S, NEW T, After("regen", i, r, local.crt, h \in S)
  PROVE  After("regen", i + 1, Effect(UploadCertsAndRestartStack[i], r), local.crt, h \in T)
  <1>. DEFINE q == Effect(UploadCertsAndRestartStack[i], r)
  <1>1. CASE i = 1
    <2>1. q = UploadCrt(r)
        BY <1>1, Effects DEF UploadCertsAndRestartStack
    <2>2. q.crt = local.crt
        BY <2>1 DEF UploadCrt, HostRecords
    <2>. QED
        BY <1>1, <2>2 DEF After
  <1>2. CASE i = 2
    <2>1. q = UploadKey(r)
        BY <1>2, Effects DEF UploadCertsAndRestartStack
    <2>2. r.crt = local.crt
        BY <1>2 DEF After
    <2>3. q.crt = local.crt /\ q.key = local.crt
        BY <2>1, <2>2 DEF UploadKey, HostRecords
    <2>. QED
        BY <1>2, <2>3 DEF After
  <1>3. CASE i = 3 \/ i = 5
    <2>0. UploadCertsAndRestartStack[i] \in {"clear", "down"}
        BY <1>3 DEF UploadCertsAndRestartStack
    <2>1. q = DeleteOldCerts(r) \/ q = StopPhases(r)
        BY <2>0, Effects
    <2>2. r.crt = local.crt /\ r.key = local.crt
        BY <1>3 DEF After
    <2>3. q.crt = r.crt /\ q.key = r.key /\ q.certs = 0
        BY <2>1 DEF DeleteOldCerts, StopPhases, HostRecords
    <2>. QED
        BY <1>3, <2>2, <2>3 DEF After
  <1>4. CASE i = 4 \/ i = 6
    <2>0. UploadCertsAndRestartStack[i] \in {"stop", "restart"}
        BY <1>4 DEF UploadCertsAndRestartStack
    <2>1. q = StopNodelet(r) \/ q = RestartNodelet(r)
        BY <2>0, Effects
    <2>2. r.crt = local.crt /\ r.key = local.crt /\ r.certs \in {0, local.crt}
        BY <1>4 DEF After
    <2>3. q.crt = r.crt /\ q.key = r.key /\ q.certs = r.certs
        BY <2>1 DEF StopNodelet, RestartNodelet, HostRecords
    <2>. QED
        BY <1>4, <2>2, <2>3 DEF After
  <1>5. i = 1 \/ i = 2 \/ (i = 3 \/ i = 5) \/ (i = 4 \/ i = 6)
      OBVIOUS
  <1>. QED
      BY <1>1, <1>2, <1>3, <1>4, <1>5, Zenon

LEMMA DeleteCall ==
  ASSUME NEW r \in HostRecords, NEW i \in 1 .. 2, NEW a,
         NEW h, NEW S, NEW T, After("delete", i, r, a, h \in S)
  PROVE  After("delete", i + 1, Effect(DeleteNodelet[i], r), a, h \in T)
  <1>. DEFINE q == Effect(DeleteNodelet[i], r)
  <1>1. CASE i = 1
    <2>1. q = UninstallNodelet(r)
        BY <1>1, Effects DEF DeleteNodelet
    <2>2. Erased(q)
        BY <2>1 DEF UninstallNodelet, HostRecords, Erased
    <2>. QED
        BY <1>1, <2>2 DEF After
  <1>2. CASE i = 2
    <2>1. q = CleanUp(r)
        BY <1>2, Effects DEF DeleteNodelet
    <2>2. Erased(r)
        BY <1>2 DEF After
    <2>3. q = Absent
        BY <2>1, <2>2, CleanedIsAbsent
    <2>. QED
        BY <1>2, <2>3 DEF After
  <1>. QED
      BY <1>1, <1>2

LEMMA CallAfter ==
  ASSUME op \in Ops, op = "regen" => local.key = local.crt, NEW r \in HostRecords,
         NEW i \in 1 .. Len(Plan(op)), NEW h, NEW S, NEW T,
         After(op, i, r, local.crt, h \in S)
  PROVE  After(op, i + 1, Effect(Plan(op)[i], r), local.crt, h \in T)
  <1>1. CASE op = "upgrade"
    <2>1. Plan(op) = UpgradeMaster /\ Len(UpgradeMaster) = 4
        BY <1>1, Plans DEF UpgradeMaster
    <2>. QED
        BY <1>1, <2>1, UpgradeCall
  <1>2. CASE op = "regen"
    <2>1. Plan(op) = UploadCertsAndRestartStack /\ Len(UploadCertsAndRestartStack) = 6
        BY <1>2, Plans DEF UploadCertsAndRestartStack
    <2>. QED
        BY <1>2, <2>1, RegenCall
  <1>3. CASE op = "delete"
    <2>1. Plan(op) = DeleteNodelet /\ Len(DeleteNodelet) = 2
        BY <1>3, Plans DEF DeleteNodelet
    <2>. QED
        BY <1>3, <2>1, DeleteCall
  <1>4. CASE op = "create"
      BY <1>4 DEF After
  <1>. QED
      BY <1>1, <1>2, <1>3, <1>4 DEF Ops

\* nodeletd leaves its host where the calls have brought it.
LEMMA NodeAfter ==
  ASSUME host \in [Hosts -> HostRecords], NEW h \in Hosts, NodeSteps(h),
         NEW o, NEW i \in Nat, After(o, i, host[h], local.crt, h \in since)
  PROVE  After(o, i, host'[h], local.crt, h \in since')
  <1>. DEFINE r == host[h]
              q == host'[h]
  <1>0. r \in HostRecords
      OBVIOUS
  <1>1. /\ r.nodeletd # "off" /\ q.pkg = r.pkg /\ q.crt = r.crt /\ q.key = r.key
        /\ q.certs \in {r.certs, r.crt}
        /\ q.status \in {"conv", r.status} \/ h \in since'
        /\ h \in since => h \in since'
    <2>. USE DEF HostRecords
    <2>1. CASE Boots(h)
        BY <2>1 DEF Boots
    <2>2. CASE StackStarts(h)
        BY <2>2 DEF StackStarts
    <2>3. CASE Converges(h)
        BY <2>3 DEF Converges
    <2>4. CASE Degrades(h)
        BY <2>4 DEF Degrades
    <2>5. CASE Retries(h)
        BY <2>5 DEF Retries
    <2>. QED
        BY <2>1, <2>2, <2>3, <2>4, <2>5 DEF NodeSteps
  <1>2. Absent.nodeletd = "off" /\ (Erased(r) => r.nodeletd = "off")
      BY DEF Absent, Erased
  <1>. HIDE DEF q
  <1>3. ASSUME o = "upgrade" PROVE After(o, i, q, local.crt, h \in since')
      BY <1>1, <1>3 DEF After
  <1>4. ASSUME o = "regen" PROVE After(o, i, q, local.crt, h \in since')
      BY <1>1, <1>4 DEF After
  <1>5. ASSUME o = "delete" PROVE After(o, i, q, local.crt, h \in since')
      BY <1>1, <1>2, <1>5 DEF After
  <1>6. ASSUME o \notin {"upgrade", "regen", "delete"}
        PROVE  After(o, i, q, local.crt, h \in since')
      BY <1>6 DEF After
  <1>. QED
      BY <1>3, <1>4, <1>5, <1>6 DEF q

-----------------------------------------------------------------------------
\* The rounds and the calls bring every host on.

\* Between the steps on a host its calls may be over, not begun, or as they were.
LEMMA MoveStages ==
  ASSUME StageInv, Busy, failed \in BOOLEAN, failed => failed',
         UNCHANGED <<host, since, local, op>>,
         \A h \in Hosts : Stage(h)' \in {0, 1, Stage(h)}
  PROVE  StageInv'
  <1>. SUFFICES ASSUME ~failed', NEW h \in Hosts
                PROVE  After(op, Stage(h)', host[h], local.crt, h \in since)
      BY DEF StageInv, IsAfter
  <1>1. After(op, Stage(h), host[h], local.crt, h \in since)
      BY DEF StageInv, IsAfter
  <1>2. CASE Stage(h)' = Stage(h)
      BY <1>1, <1>2
  <1>3. CASE Stage(h)' \in {0, 1}
      BY <1>3 DEF After
  <1>. QED
      BY <1>2, <1>3

\* An operation begins with no call made.
LEMMA StartStages ==
  ASSUME TypeOK, PcInv, ~Busy, call' = call, round' = round, pc' \notin {"status", "wait"}
  PROVE  StageInv'
  <1>1. round' = 1 /\ \A h \in Hosts : call'[h] = 0
      BY DEF PcInv, Busy
  <1>2. ASSUME NEW h \in Hosts PROVE Stage(h)' = 0
    <2>1. Reached(h)' => h \in InRound'
        BY <1>1 DEF Reached, InRound
    <2>. QED
        BY <1>1, <2>1 DEF Stage, Busy
  <1>. QED
      BY <1>2 DEF StageInv, IsAfter, After

\* The next round: the hosts of the rounds before it are through their plan.
LEMMA RoundStages ==
  ASSUME TypeOK, PcInv, Busy, NEW h \in Hosts, op' = op,
         pc = "run" => \A g \in InRound : call[g] = EndOfPlan(op),
         call' = [g \in Hosts |-> 0],
         \/ pc' = "run" /\ round' = round + 1
         \/ pc' \in {"status", "wait"} /\ round' = round
  PROVE  Stage(h)' \in {0, Stage(h)}
  <1>1. round \in Nat /\ InRound \subseteq Hosts
      BY RoundHosts DEF TypeOK
  <1>2. Reached(h) => Stage(h) = EndOfPlan(op)
      BY DEF Stage
  <1>3. Stage(h)' # 0 => Reached(h)' /\ Stage(h)' = EndOfPlan(op)'
        /\ ~(pc' = "run" /\ h \in InRound')
      BY DEF Stage
  <1>4. EndOfPlan(op)' = EndOfPlan(op)
      BY DEF EndOfPlan
  <1>5. CASE pc' = "run" /\ round' = round + 1
    <2>1. Reached(h)' /\ h \notin InRound' => Reached(h)
      <3>. SUFFICES ASSUME Reached(h)', h \notin InRound' PROVE Reached(h)
          OBVIOUS
      <3>1. PICK i \in 1 .. round + 1 : h \in Rounds(op)[i]
          BY <1>5 DEF Reached
      <3>2. i # round + 1
          BY <1>5, <3>1 DEF InRound
      <3>3. i \in 1 .. round
          BY <1>1, <3>1, <3>2
      <3>. QED
          BY <3>1, <3>3 DEF Reached
    <2>. QED
        BY <1>2, <1>3, <1>4, <1>5, <2>1
  <1>6. CASE pc' \in {"status", "wait"} /\ round' = round
    <2>1. Reached(h)' => Reached(h)
        BY <1>6 DEF Reached
    <2>. QED
        BY <1>2, <1>3, <1>4, <2>1
  <1>. QED
      BY <1>5, <1>6

\* After the last round every host is through its plan.
LEMMA AllThrough ==
  ASSUME TypeOK, PcInv, Busy, round = Len(Rounds(op)),
         pc = "run" => \A g \in InRound : call[g] = EndOfPlan(op)
  PROVE  \A h \in Hosts : Stage(h) = EndOfPlan(op)
  <1>1. op \in Ops
      BY RoundHosts
  <1>2. \A h \in Hosts : Reached(h)
      BY <1>1, RoundsCover DEF Reached
  <1>. QED
      BY <1>2 DEF Stage

\* A connection is made before the first call.
LEMMA ConnectStages ==
  ASSUME TypeOK, PcInv, Connect, NEW h \in Hosts
  PROVE  Stage(h)' \in {1, Stage(h)}
  <1>1. PICK g \in Hosts : g \in InRound /\ call' = [call EXCEPT ![g] = 1]
      BY ConnectHost
  <1>2. call \in [Hosts -> 0 .. 7]
      BY DEF TypeOK
  <1>3. call'[h] \in {1, call[h]}
      BY <1>1, <1>2
  <1>4. UNCHANGED <<op, pc, round>>
      BY DEF Connect, running
  <1>. QED
      BY <1>3, <1>4 DEF Stage, Busy, InRound, Reached, EndOfPlan

\* A call on one host leaves the others where they are.
LEMMA CallStages ==
  ASSUME TypeOK, PcInv, StageInv, OneCAInv, ~failed,
         NEW h \in Hosts, Do(h), NEW g \in Hosts
  PROVE  After(op, Stage(g)', host'[g], local.crt, g \in since')
  <1>1. /\ host \in [Hosts -> HostRecords] /\ call \in [Hosts -> 0 .. 7]
        /\ op \in Ops /\ since \subseteq Hosts
      BY RoundHosts DEF TypeOK, HostRecords, Do, Busy
  <1>2. /\ pc = "run" /\ call[h] \in 1 .. Len(Plan(op))
        /\ host' = [host EXCEPT ![h] = Effect(Plan(op)[call[h]], host[h])]
        /\ since' \in {since, since \ {h}}
        /\ call' = [call EXCEPT ![h] = call[h] + 1]
        /\ UNCHANGED <<op, pc, round, local>>
      BY DEF Do, running
  <1>3. After(op, Stage(g), host[g], local.crt, g \in since)
      BY <1>2 DEF StageInv, IsAfter, Busy
  <1>4. CASE g = h
    <2>1. h \in InRound
        BY <1>2 DEF PcInv
    <2>2. Stage(h) = call[h] /\ Stage(h)' = call[h] + 1
        BY <1>1, <1>2, <2>1 DEF Stage, InRound
    <2>3. op = "regen" => local.key = local.crt
        BY <1>2 DEF OneCAInv
    <2>4. host[h] \in HostRecords /\ host'[h] = Effect(Plan(op)[call[h]], host[h])
        BY <1>1, <1>2
    <2>5. After(op, call[h], host[h], local.crt, h \in since)
        BY <1>3, <1>4, <2>2
    <2>6. After(op, call[h] + 1, Effect(Plan(op)[call[h]], host[h]), local.crt,
                h \in since')
        BY <1>1, <1>2, <2>3, <2>4, <2>5, CallAfter
    <2>. QED
        BY <1>4, <2>2, <2>4, <2>6
  <1>5. CASE g # h
    <2>1. host'[g] = host[g] /\ call'[g] = call[g] /\ (g \in since' <=> g \in since)
        BY <1>1, <1>2, <1>5
    <2>2. Stage(g)' = Stage(g)
        BY <1>2, <2>1 DEF Stage, Busy, InRound, Reached, EndOfPlan
    <2>. QED
        BY <1>3, <2>1, <2>2 DEF After
  <1>. QED
      BY <1>4, <1>5

\* A step of nodeletd on one host leaves every host where it is.
LEMMA NodeStages ==
  ASSUME host \in [Hosts -> HostRecords], NEW h \in Hosts, NodeSteps(h), NEW g \in Hosts,
         NEW o, NEW i \in Nat, After(o, i, host[g], local.crt, g \in since)
  PROVE  After(o, i, host'[g], local.crt, g \in since')
  <1>1. CASE g = h
      BY <1>1, NodeAfter
  <1>2. CASE g # h
    <2>1. host'[g] = host[g] /\ since' \in {since, since \cup {h}}
        BY <1>2 DEF NodeSteps, Boots, StackStarts, Converges, Degrades, Retries
    <2>. QED
        BY <1>2, <2>1
  <1>. QED
      BY <1>1, <1>2

\* nodeletd changes nothing of nodeletctl.
LEMMA NodeFrame ==
  ASSUME NEW h \in Hosts, NodeSteps(h)
  PROVE  /\ UNCHANGED <<local, op, pc, round, call, seen, failed, result>>
         /\ since \subseteq since'
  BY DEF NodeSteps, Boots, StackStarts, Converges, Degrades, Retries, nodeletctl, sync

LEMMA StageTypes ==
  ASSUME TypeOK, PcInv, Busy, NEW h \in Hosts
  PROVE  Stage(h) \in Nat
  <1>1. op \in Ops
      BY RoundHosts
  <1>2. EndOfPlan(op) \in Nat /\ call[h] \in Nat
      BY <1>1, Bounds DEF TypeOK
  <1>. QED
      BY <1>2 DEF Stage

\* Every step keeps the hosts as far as the calls.
LEMMA StageStep ==
  ASSUME TypeOK, PcInv, OneCAInv, StageInv, [Next]_vars
  PROVE  StageInv'
  <1>0. failed \in BOOLEAN /\ host \in [Hosts -> HostRecords]
      BY DEF TypeOK, HostRecords
  <1>1. CASE pc' = "idle"
      BY <1>1 DEF StageInv, Busy
  <1>2. CASE Command
    <2>1. pc = "idle" /\ UNCHANGED <<call, round>> /\ pc' \notin {"status", "wait"}
        BY <1>2 DEF Command, CreateCluster, UpgradeCluster, RegenClusterCerts,
           DeleteCluster, Begins, Refused
    <2>. QED
        BY <2>1, StartStages DEF Busy
  <1>3. CASE Certs
    <2>1. CASE CertsFail
        BY <1>1, <2>1 DEF CertsFail, Exits
    <2>2. CASE ~CertsFail
      <3>1. /\ pc \in {"rm", "crt", "key", "conf", "trust"} /\ UNCHANGED <<call, round>>
            /\ pc' \notin {"status", "wait"}
          BY <1>3, <2>2 DEF Certs, RemoveCerts, WriteCrt, WriteKey, GenKubeconfig, trustCA,
             Working
      <3>. QED
          BY <3>1, StartStages DEF Busy
    <2>. QED
        BY <2>1, <2>2
  <1>4. CASE RoundDone
    <2>1. CASE pc' = "idle"
        BY <1>1, <2>1
    <2>2. CASE pc' # "idle"
      <3>1. /\ Busy /\ UNCHANGED <<host, since, local, op, failed>>
            /\ \A g \in InRound : call[g] = EndOfPlan(op)
            /\ call' = [g \in Hosts |-> 0]
            /\ \/ pc' = "run" /\ round' = round + 1
               \/ pc' \in {"status", "wait"} /\ round' = round
          BY <1>4, <2>2 DEF RoundDone, Busy
      <3>2. \A h \in Hosts : Stage(h)' \in {0, 1, Stage(h)}
          BY <3>1, RoundStages
      <3>. QED
          BY <1>0, <3>1, <3>2, MoveStages
    <2>. QED
        BY <2>1, <2>2
  <1>5. CASE Connect
    <2>1. Busy /\ UNCHANGED <<host, since, local, op, failed>>
        BY <1>5 DEF Connect, running, Busy
    <2>2. \A h \in Hosts : Stage(h)' \in {0, 1, Stage(h)}
        BY <1>5, ConnectStages
    <2>. QED
        BY <1>0, <2>1, <2>2, MoveStages
  <1>6. ASSUME NEW h \in Hosts, Do(h) PROVE StageInv'
    <2>1. UNCHANGED <<op, local, failed>>
        BY <1>6 DEF Do, running
    <2>. QED
        BY <1>6, <2>1, CallStages DEF StageInv, IsAfter
  <1>7. ASSUME NEW h \in Hosts, DoFails(h) PROVE StageInv'
      BY <1>7 DEF DoFails, StageInv
  <1>8. CASE SyncNodesDone /\ pc' # "idle"
    <2>1. /\ Busy /\ pc = "wait" /\ UNCHANGED <<host, since, local, op, failed, call>>
          /\ pc' = "run" /\ round' = round + 1
        BY <1>8 DEF SyncNodesDone, NextRound, Exits, Busy
    <2>2. call' = [g \in Hosts |-> 0]
        BY <2>1 DEF PcInv
    <2>3. \A h \in Hosts : Stage(h)' \in {0, 1, Stage(h)}
        BY <2>1, <2>2, RoundStages
    <2>. QED
        BY <1>0, <2>1, <2>3, MoveStages
  <1>9. CASE \/ GetClusterNodeletStatus \/ Refresh \/ StatusRead \/ SyncAndRetry
             \/ NotSynced \/ HelperReturns \/ UNCHANGED vars
    <2>1. /\ UNCHANGED <<host, since, local, op, round, call>>
          /\ pc' = pc \/ (pc = "status" /\ pc' = "wait")
          /\ failed => failed'
        BY <1>0, <1>9 DEF GetClusterNodeletStatus, Refresh, Reads, StatusRead, SyncAndRetry,
           NotSynced, HelperReturns, waiting, vars, nodeletctl, sync
    <2>2. CASE Busy
      <3>1. \A h \in Hosts : Stage(h)' \in {0, 1, Stage(h)}
          BY <2>1, <2>2 DEF Stage, Busy, InRound, Reached, EndOfPlan
      <3>. QED
          BY <1>0, <2>1, <2>2, <3>1, MoveStages
    <2>3. CASE ~Busy
        BY <2>1, <2>3 DEF StageInv, Busy
    <2>. QED
        BY <2>2, <2>3
  <1>10. CASE Faults
      BY <1>1, <1>10 DEF Faults, ConnectFails, SyncNodesFails, Killed, HelperPanics, Exits
  <1>11. ASSUME NEW h \in Hosts, NodeSteps(h), Busy', ~failed' PROVE StageInv'
    <2>1. UNCHANGED <<local, op, pc, round, call, failed>>
        BY <1>11, NodeFrame
    <2>2. Busy /\ ~failed
        BY <1>11, <2>1 DEF Busy
    <2>3. \A g \in Hosts : Stage(g)' = Stage(g)
        BY <2>1 DEF Stage, Busy, InRound, Reached, EndOfPlan
    <2>4. ASSUME NEW g \in Hosts
          PROVE  After(op, Stage(g), host'[g], local.crt, g \in since')
      <3>1. After(op, Stage(g), host[g], local.crt, g \in since)
          BY <2>2 DEF StageInv, IsAfter
      <3>. QED
          BY <1>0, <1>11, <2>2, <3>1, NodeStages, StageTypes
    <2>. QED
        BY <2>1, <2>3, <2>4 DEF StageInv, IsAfter
  <1>12. (\E h \in Hosts : NodeSteps(h)) => StageInv'
      BY <1>11 DEF StageInv
  <1>. QED
      BY <1>1, <1>2, <1>3, <1>4, <1>5, <1>6, <1>7, <1>8, <1>9, <1>10, <1>12
         DEF Next, Calls, Sync

\* SyncNodes marks a host after it has read ok there.
LEMMA ReadStep ==
  ASSUME TypeOK, PcInv, StageInv, SeenInv, Reads, pc \in {"status", "wait"},
         UNCHANGED <<op, since>>
  PROVE  SeenInv'
  <1>. SUFFICES ASSUME op = "upgrade", ~failed' PROVE seen' \subseteq since
      BY DEF SeenInv
  <1>1. unread \in SUBSET Hosts /\ unread # {} /\ failed \in BOOLEAN
      BY DEF TypeOK, Reads
  <1>2. ~failed /\ seen \subseteq since
      BY <1>1 DEF Reads, SeenInv
  <1>. DEFINE h == First(unread)
  <1>3. h \in Hosts
      BY <1>1, FirstIn, Zenon
  <1>4. host[h].status = "ok" => h \in since
    <2>1. Busy /\ round = Len(Rounds(op))
        BY DEF PcInv, Busy
    <2>2. Stage(h) = 5
        BY <1>3, <2>1, AllThrough, Plans
    <2>. QED
        BY <1>2, <1>3, <2>1, <2>2 DEF StageInv, IsAfter, After
  <1>5. /\ seen' \in {seen, seen \cup {h}}
        /\ h \in seen' => h \in seen \/ host[h].status = "ok"
      BY DEF Reads
  <1>. HIDE DEF h
  <1>. QED
      BY <1>2, <1>4, <1>5

\* Every step leaves SyncNodes with hosts that came up after the restart.
LEMMA SeenStep ==
  ASSUME TypeOK, PcInv, StageInv, SeenInv, [Next]_vars
  PROVE  SeenInv'
  <1>1. CASE UNCHANGED <<op, failed, seen, since>>
      BY <1>1 DEF SeenInv
  <1>2. CASE CreateCluster
    <2>1. seen' = {}
        BY <1>2 DEF CreateCluster, Begins, sync, PcInv
    <2>. QED
        BY <2>1 DEF SeenInv
  <1>3. CASE UpgradeCluster
    <2>1. seen' = {}
        BY <1>3 DEF UpgradeCluster, Begins, sync, PcInv
    <2>. QED
        BY <2>1 DEF SeenInv
  <1>4. CASE RegenClusterCerts
    <2>1. seen' = {}
        BY <1>4 DEF RegenClusterCerts, Begins, sync, PcInv
    <2>. QED
        BY <2>1 DEF SeenInv
  <1>5. CASE DeleteCluster
    <2>1. seen' = {}
        BY <1>5 DEF DeleteCluster, Begins, sync, PcInv
    <2>. QED
        BY <2>1 DEF SeenInv
  <1>6. CASE CertsFail
    <2>1. seen' = {}
        BY <1>6 DEF CertsFail, Exits
    <2>. QED
        BY <2>1 DEF SeenInv
  <1>7. ASSUME NEW h \in Hosts, Do(h) PROVE SeenInv'
    <2>1. seen' = {}
        BY <1>7 DEF Do, running, sync, PcInv
    <2>. QED
        BY <2>1 DEF SeenInv
  <1>8. CASE GetClusterNodeletStatus
    <2>1. pc \in {"status", "wait"} /\ Reads /\ UNCHANGED <<op, since>>
        BY <1>8 DEF GetClusterNodeletStatus, waiting, PcInv
    <2>. QED
        BY <2>1, ReadStep
  <1>9. CASE Refresh
    <2>1. pc \in {"status", "wait"} /\ Reads /\ UNCHANGED <<op, since>>
        BY <1>9 DEF Refresh, waiting, PcInv
    <2>. QED
        BY <2>1, ReadStep
  <1>10. CASE SyncNodesDone
    <2>1. seen' = {}
        BY <1>10 DEF SyncNodesDone, Exits, NextRound
    <2>. QED
        BY <2>1 DEF SeenInv
  <1>11. CASE ConnectFails
    <2>1. seen' = {}
        BY <1>11 DEF ConnectFails, Exits
    <2>. QED
        BY <2>1 DEF SeenInv
  <1>12. CASE SyncNodesFails
    <2>1. seen' = {}
        BY <1>12 DEF SyncNodesFails, Exits
    <2>. QED
        BY <2>1 DEF SeenInv
  <1>13. CASE Killed
    <2>1. seen' = {}
        BY <1>13 DEF Killed, Exits
    <2>. QED
        BY <2>1 DEF SeenInv
  <1>14. CASE HelperPanics
    <2>1. seen' = {}
        BY <1>14 DEF HelperPanics, Exits
    <2>. QED
        BY <2>1 DEF SeenInv
  <1>15. ASSUME NEW h \in Hosts, DoFails(h) PROVE SeenInv'
      BY <1>15 DEF DoFails, SeenInv
  <1>16. ASSUME NEW h \in Hosts, Converges(h) PROVE SeenInv'
    <2>1. UNCHANGED <<op, failed, seen>> /\ since \subseteq since'
        BY <1>16, NodeFrame DEF NodeSteps
    <2>. QED
        BY <2>1 DEF SeenInv
  <1>17. CASE RemoveCerts \/ WriteCrt \/ WriteKey \/ GenKubeconfig \/ trustCA \/
              RoundDone \/ Connect
    <2>1. UNCHANGED <<op, failed, seen, since>>
        BY <1>17 DEF RemoveCerts, Working, WriteCrt, WriteKey, GenKubeconfig,
           trustCA, RoundDone, Connect, sync, running, waiting, nodeletctl
    <2>. QED
        BY <1>1, <2>1
  <1>18. CASE StatusRead \/ SyncAndRetry \/ NotSynced \/ HelperReturns
    <2>1. UNCHANGED <<op, failed, seen, since>>
        BY <1>18 DEF StatusRead, SyncAndRetry, NotSynced, HelperReturns, sync,
           running, waiting, nodeletctl
    <2>. QED
        BY <1>1, <2>1
  <1>19. ASSUME NEW h \in Hosts, Boots(h) \/ StackStarts(h) \/ Degrades(h) \/ Retries(h)
         PROVE  SeenInv'
    <2>1. UNCHANGED <<op, failed, seen, since>>
        BY <1>19 DEF Boots, StackStarts, Degrades, Retries, sync, running,
           waiting, nodeletctl
    <2>. QED
        BY <1>1, <2>1
  <1>20. CASE UNCHANGED vars
      BY <1>1, <1>20 DEF vars, sync, running, waiting, nodeletctl
  <1>. QED
      BY <1>1, <1>2, <1>3, <1>4, <1>5, <1>6, <1>7, <1>8, <1>9, <1>10, <1>11,
         <1>12, <1>13, <1>14, <1>15, <1>16, <1>17, <1>18, <1>19, <1>20 DEF Next,
         Command, Certs, Calls, Sync, Faults, NodeSteps

\* Every step leaves regen-certs with one CA.
LEMMA OneCAStep ==
  ASSUME TypeOK, OneCAInv, [Next]_vars
  PROVE  OneCAInv'
  <1>. USE DEF OneCAInv, waiting
  <1>1. CASE UNCHANGED <<op, pc, local>>
      BY <1>1
  <1>2. CASE CreateCluster
      BY <1>2 DEF CreateCluster, Begins, Refused
  <1>3. CASE UpgradeCluster
      BY <1>3 DEF UpgradeCluster, Begins, Refused
  <1>4. CASE RegenClusterCerts
      BY <1>4 DEF RegenClusterCerts, Begins
  <1>5. CASE DeleteCluster
      BY <1>5 DEF DeleteCluster, Begins
  <1>6. CASE RemoveCerts
      BY <1>6 DEF RemoveCerts, Working
  <1>7. CASE WriteCrt
      BY <1>7 DEF WriteCrt, Working
  <1>8. CASE WriteKey
      BY <1>8 DEF WriteKey, Working
  <1>9. CASE GenKubeconfig
    <2>1. local \in [crt : CAs, key : CAs, conf : CAs]
        BY DEF TypeOK
    <2>. QED
        BY <1>9, <2>1 DEF GenKubeconfig, CanSign, Working
  <1>10. CASE trustCA
      BY <1>10 DEF trustCA, Working
  <1>11. CASE CertsFail
      BY <1>11 DEF CertsFail, Exits
  <1>12. CASE RoundDone
      BY <1>12 DEF RoundDone
  <1>13. CASE StatusRead
      BY <1>13 DEF StatusRead
  <1>14. CASE SyncNodesDone
      BY <1>14 DEF SyncNodesDone, NextRound, Exits
  <1>15. CASE ConnectFails
      BY <1>15 DEF ConnectFails, Exits
  <1>16. CASE SyncNodesFails
      BY <1>16 DEF SyncNodesFails, Exits
  <1>17. CASE Killed
      BY <1>17 DEF Killed, Exits
  <1>18. CASE HelperPanics
      BY <1>18 DEF HelperPanics, Exits
  <1>19. CASE Connect \/ GetClusterNodeletStatus \/ Refresh \/ SyncAndRetry \/ NotSynced
              \/ HelperReturns
    <2>1. UNCHANGED <<op, pc, local>>
        BY <1>19 DEF Connect, GetClusterNodeletStatus, Reads, Refresh,
           SyncAndRetry, NotSynced, HelperReturns, sync, running, waiting,
           nodeletctl
    <2>. QED
        BY <1>1, <2>1
  <1>20. ASSUME NEW h \in Hosts, Do(h) \/ DoFails(h) \/ NodeSteps(h)
         PROVE  OneCAInv'
    <2>1. UNCHANGED <<op, pc, local>>
        BY <1>20 DEF Do, DoFails, Boots, StackStarts, Converges, Degrades,
           Retries, NodeSteps, sync, running, waiting, nodeletctl
    <2>. QED
        BY <1>1, <2>1
  <1>21. CASE UNCHANGED vars
      BY <1>1, <1>21 DEF vars, sync, running, waiting, nodeletctl
  <1>. QED
      BY <1>1, <1>2, <1>3, <1>4, <1>5, <1>6, <1>7, <1>8, <1>9, <1>10, <1>11,
         <1>12, <1>13, <1>14, <1>15, <1>16, <1>17, <1>18, <1>19, <1>20, <1>21 DEF
         Next, Command, Certs, Calls, Sync, Faults, NodeSteps

\* An operation that ends well has come to the end of its plan on every host.
LEMMA DoneStep ==
  ASSUME TypeOK, PcInv, StageInv, SeenInv, OneCAInv, DoneInv, [Next]_vars
  PROVE  DoneInv'
  <1>0. failed \in BOOLEAN /\ host \in [Hosts -> HostRecords]
      BY DEF TypeOK, HostRecords
  <1>1. CASE pc' # "idle" \/ result' # "ok"
      BY <1>1 DEF DoneInv
  <1>2. CASE Command
      BY <1>1, <1>2 DEF Command, CreateCluster, UpgradeCluster, RegenClusterCerts,
         DeleteCluster, Begins, Refused
  <1>3. CASE Certs
      BY <1>1, <1>3 DEF Certs, RemoveCerts, WriteCrt, WriteKey, GenKubeconfig, trustCA,
         CertsFail, Working, Exits
  <1>4. CASE RoundDone /\ pc' = "idle" /\ result' = "ok"
    <2>1. /\ pc = "run" /\ op = "delete" /\ round = Len(Rounds(op)) /\ ~failed
          /\ \A g \in InRound : call[g] = EndOfPlan(op)
          /\ UNCHANGED <<host, local, op, failed, since>>
        BY <1>4 DEF RoundDone
    <2>2. \A h \in Hosts : Stage(h) = EndOfPlan(op)
        BY <2>1, AllThrough DEF Busy
    <2>3. \A h \in Hosts : After(op, EndOfPlan(op), host[h], local.crt, h \in since)
        BY <2>1, <2>2 DEF StageInv, IsAfter, Busy
    <2>. QED
        BY <2>1, <2>3 DEF DoneInv, IsAfter, EndOfPlan
  <1>5. CASE Connect
      BY <1>1, <1>5 DEF Connect, running
  <1>6. ASSUME NEW h \in Hosts, Do(h) \/ DoFails(h) PROVE DoneInv'
      BY <1>1, <1>6 DEF Do, DoFails, running
  <1>7. CASE SyncNodesDone /\ pc' = "idle"
    <2>1. /\ pc = "wait" /\ helper = "closed" /\ (op = "regen" => round = Len(Rounds(op)))
          /\ UNCHANGED <<host, local, op, since>> /\ failed' = failed
        BY <1>0, <1>7 DEF SyncNodesDone, NextRound, Exits
    <2>2. /\ op # "delete" /\ round = Len(Rounds(op)) /\ Busy
          /\ op # "regen" => Hosts \subseteq seen
        BY <2>1 DEF PcInv, ToSync, Busy
    <2>3. \A h \in Hosts : Stage(h) = EndOfPlan(op)
        BY <2>1, <2>2, AllThrough
    <2>4. ~failed => \A h \in Hosts : After(op, EndOfPlan(op), host[h], local.crt, h \in since)
        BY <2>2, <2>3 DEF StageInv, IsAfter
    <2>5. ~failed /\ op = "upgrade" => Hosts \subseteq since
        BY <2>2 DEF SeenInv
    <2>6. op = "regen" => local.conf = local.crt
        BY <2>1 DEF OneCAInv
    <2>. QED
        BY <2>1, <2>2, <2>4, <2>5, <2>6 DEF DoneInv, IsAfter, EndOfPlan
  <1>8. CASE \/ GetClusterNodeletStatus \/ Refresh \/ StatusRead \/ SyncAndRetry
             \/ NotSynced
    <2>1. pc \in {"status", "wait"} /\ pc' \in {pc, "wait"}
        BY <1>8 DEF GetClusterNodeletStatus, Refresh, StatusRead, SyncAndRetry, NotSynced,
           PcInv
    <2>. QED
        BY <1>1, <2>1
  <1>9. CASE HelperReturns \/ UNCHANGED vars
    <2>1. UNCHANGED <<host, local, op, pc, result, failed, since>>
        BY <1>9 DEF HelperReturns, waiting, vars, nodeletctl
    <2>. QED
        BY <2>1 DEF DoneInv, IsAfter, EndOfPlan
  <1>10. CASE Faults
    <2>1. CASE SyncNodesFails
      <3>1. failed' /\ op' = op /\ op # "delete"
          BY <2>1 DEF SyncNodesFails, Exits, PcInv
      <3>. QED
          BY <3>1 DEF DoneInv
    <2>2. CASE ConnectFails \/ Killed \/ HelperPanics
        BY <1>1, <2>2 DEF ConnectFails, Killed, HelperPanics, Exits
    <2>. QED
        BY <1>10, <2>1, <2>2 DEF Faults
  <1>11. ASSUME NEW h \in Hosts, NodeSteps(h) PROVE DoneInv'
    <2>1. UNCHANGED <<local, op, pc, failed, result>> /\ since \subseteq since'
        BY <1>11, NodeFrame
    <2>. SUFFICES ASSUME pc = "idle", result = "ok", ~failed, NEW g \in Hosts
                  PROVE  After(op, EndOfPlan(op), host'[g], local.crt, g \in since')
        BY <2>1 DEF DoneInv, IsAfter, EndOfPlan
    <2>2. After(op, EndOfPlan(op), host[g], local.crt, g \in since)
        BY DEF DoneInv, IsAfter
    <2>3. CASE op = "none"
        BY <2>3 DEF After
    <2>4. CASE op \in Ops
      <3>1. EndOfPlan(op) \in Nat
          BY <2>4, Bounds
      <3>. QED
          BY <1>0, <1>11, <2>2, <3>1, NodeStages
    <2>. QED
        BY <2>3, <2>4 DEF TypeOK, Ops
  <1>. QED
      BY <1>1, <1>2, <1>3, <1>4, <1>5, <1>6, <1>7, <1>8, <1>9, <1>10, <1>11
         DEF Next, Calls, Sync

-----------------------------------------------------------------------------
\* No cluster, and a cluster as created, satisfy the invariant.
LEMMA InitInv ==
  ASSUME Init
  PROVE  IInv
  <1>0. 0 \in CAs /\ 1 \in CAs
      BY OperationsAssumption DEF CAs
  <1>1. Present \in HostRecords /\ Absent \in HostRecords
      BY <1>0 DEF Present, Absent, HostRecords
  <1>2. PICK made \in {0, 1} :
          /\ host = [h \in Hosts |-> IF made = 1 THEN Present ELSE Absent]
          /\ local = [crt |-> made, key |-> made, conf |-> made] /\ ca = made
          /\ nodes \subseteq Hosts /\ since \subseteq Hosts
      BY DEF Init
  <1>3. host \in [Hosts -> HostRecords]
      BY <1>1, <1>2
  <1>4. local \in [crt : CAs, key : CAs, conf : CAs] /\ ca \in CAs
      BY <1>0, <1>2
  <1>5. left \in BOOLEAN /\ failed \in BOOLEAN
      BY DEF Init
  <1>6. /\ op = "none" /\ pc = "idle" /\ round = 1 /\ call = [h \in Hosts |-> 0]
        /\ seen = {} /\ unread = {} /\ helper = "none" /\ result = "ok"
        /\ ops = 0 /\ faults = 0
      BY DEF Init
  <1>7. round \in 1 .. Len(Masters) + Len(Workers) + 2
      BY <1>6, HostSeqs
  <1>8. ops \in 0 .. MaxOps /\ faults \in 0 .. MaxFaults
      BY <1>6, OperationsAssumption
  <1>a. call \in [Hosts -> 0 .. 7] /\ seen \subseteq Hosts /\ unread \subseteq Hosts
      BY <1>6
  <1>9. TypeOK
      BY <1>2, <1>3, <1>4, <1>5, <1>6, <1>7, <1>8, <1>a DEF TypeOK, HostRecords
  <1>10. PcInv
      BY <1>6 DEF PcInv, Busy
  <1>11. CAInv
      BY <1>2, <1>6 DEF CAInv
  <1>12. PkgInv
    <2>1. Present.pkg = "old" /\ Absent.up = FALSE /\ Absent.nodeletd = "off"
        BY DEF Present, Absent
    <2>. QED
        BY <1>2, <2>1 DEF PkgInv
  <1>13. StageInv /\ SeenInv /\ OneCAInv
      BY <1>6 DEF StageInv, SeenInv, OneCAInv, Busy
  <1>14. DoneInv
      BY <1>6 DEF DoneInv, IsAfter, After
  <1>. QED
      BY <1>9, <1>10, <1>11, <1>12, <1>13, <1>14 DEF IInv

\* The inductive invariant holds in every reachable state.
THEOREM Invariance == Spec => []IInv
  <1>1. Init => IInv
      BY InitInv
  <1>2. IInv /\ [Next]_vars => IInv'
      BY TypeStep, PcStep, CAStep, PkgStep, StageStep, SeenStep, OneCAStep, DoneStep
         DEF IInv
  <1>. QED
      BY <1>1, <1>2, PTL DEF Spec

\* Every variable has its type, and no operation makes more than one CA.
THEOREM TypeCorrect == Spec => []TypeOK
  <1>1. IInv => TypeOK
      BY DEF IInv
  <1>. QED
      BY <1>1, Invariance, PTL

\* What upgrade, regen-certs and delete report is so, whatever failed or was
\* killed before.
THEOREM ReportsAreTrue == Spec => []SuccessIsTrue
  <1>1. ASSUME IInv PROVE SuccessIsTrue
    <2>1. DoneInv
        BY <1>1 DEF IInv
    <2>a. EndOfPlan("upgrade") = 5 /\ EndOfPlan("regen") = 7 /\ EndOfPlan("delete") = 3
        BY Plans
    <2>2. Succeeded("upgrade") /\ ~failed
          => \A h \in Hosts : host[h].pkg = "new" /\ h \in since
        BY <2>1, <2>a DEF DoneInv, Succeeded, IsAfter, After
    <2>3. Succeeded("regen") /\ ~failed
          => local.conf = local.crt /\ \A h \in Hosts : HasCA(h)
      <3>. SUFFICES ASSUME Succeeded("regen"), ~failed
                    PROVE  local.conf = local.crt /\ \A h \in Hosts : HasCA(h)
          OBVIOUS
      <3>1. op = "regen" /\ local.conf = local.crt
            /\ \A h \in Hosts : After("regen", 7, host[h], local.crt, h \in since)
          BY <2>1, <2>a DEF DoneInv, Succeeded, IsAfter
      <3>2. ASSUME NEW h \in Hosts PROVE HasCA(h)
          BY <3>1 DEF After, HasCA
      <3>. QED
          BY <3>1, <3>2
    <2>4. Succeeded("delete") => \A h \in Hosts : host[h] = Absent
        BY <2>1, <2>a DEF DoneInv, Succeeded, IsAfter, After
    <2>. QED
        BY <2>2, <2>3, <2>4 DEF SuccessIsTrue
  <1>. QED
      BY <1>1, Invariance, PTL

\* No call of a create takes down a stack that runs: the package is there, and is
\* neither installed nor started again.
THEOREM KeepsStacks == Spec => CreateKeepsStacks
  <1>1. ASSUME IInv, [Next]_vars, op = "create", pc = "run", NEW g \in Hosts, host[g].up
        PROVE  host'[g].up
    <2>. USE <1>1 DEF IInv
    <2>1. host \in [Hosts -> HostRecords] /\ op \in Ops /\ host[g].pkg # "none"
        BY DEF TypeOK, HostRecords, Ops, PkgInv
    <2>2. ASSUME NEW h \in Hosts, Do(h) \/ DoFails(h) PROVE host'[g].up
      <3>. DEFINE r == host[g]
      <3>1. r \in HostRecords /\ r.up /\ r.pkg # "none"
          BY <2>1
      <3>. HIDE DEF r
      <3>2. UploadCrt(r).up /\ UploadKey(r).up /\ CopyNodeletConfig(r).up
          BY <3>1 DEF HostRecords, UploadCrt, UploadKey, CopyNodeletConfig
      <3>3. InstallNodelet(op, r).up /\ StartNodelet(r).up
          BY <3>1 DEF HostRecords, InstallNodelet, StartNodelet
      <3>4. \A c \in {"crt", "key", "config", "install", "start"} : Effect(c, r).up
          BY <3>2, <3>3, Effects, Zenon
      <3>5. call[h] \in 1 .. 5 /\ Plan(op) = DeployNodelet
        <4>1. Plan(op) = DeployNodelet
            BY Plans
        <4>2. Len(DeployNodelet) = 5
            BY DEF DeployNodelet
        <4>. QED
            BY <2>2, <4>1, <4>2 DEF Do, DoFails
      <3>6. Plan(op)[call[h]] \in {"crt", "key", "config", "install", "start"}
          BY <3>5 DEF DeployNodelet
      <3>7. \/ host' = host
            \/ \E c \in {"crt", "key", "config", "install", "start"} :
                  host' = [host EXCEPT ![h] = Effect(c, host[h])]
          BY <2>1, <2>2, <3>6, CallChanges
      <3>. QED
          BY <2>1, <3>1, <3>4, <3>7 DEF r
    <2>3. ASSUME NEW h \in Hosts, NodeSteps(h) PROVE host'[g].up
      <3>. USE <2>1 DEF HostRecords
      <3>1. CASE Boots(h)
          BY <3>1 DEF Boots
      <3>2. CASE StackStarts(h)
          BY <3>2 DEF StackStarts
      <3>3. CASE Converges(h)
          BY <3>3 DEF Converges
      <3>4. CASE Degrades(h)
          BY <3>4 DEF Degrades
      <3>5. CASE Retries(h)
          BY <3>5 DEF Retries
      <3>. QED
          BY <2>3, <3>1, <3>2, <3>3, <3>4, <3>5 DEF NodeSteps
    <2>. QED
        BY <2>2, <2>3, HostChanges
  <1>2. IInv /\ [Next]_vars
        => [op = "create" /\ pc = "run" => \A h \in Hosts : host[h].up => host'[h].up]_vars
      BY <1>1
  <1>. QED
      BY <1>2, Invariance, PTL DEF Spec, CreateKeepsStacks
=============================================================================
