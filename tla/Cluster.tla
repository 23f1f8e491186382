------------------------------ MODULE Cluster -------------------------------
(***************************************************************************)
(* nodeletctl create, upgrade, regen-certs and delete, on the hosts of one   *)
(* cluster file.  Each is a list of rounds; a round runs the same deployer   *)
(* calls on each of its hosts, in parallel goroutines where it has several.  *)
(* create and upgrade wait at the end for the whole cluster, regen-certs     *)
(* after every round for the hosts of the round (SyncNodes).  An operation   *)
(* may be killed anywhere, and any other one may follow.                     *)
(*                                                                           *)
(* A certificate authority is a number, 0 for none.                          *)
(***************************************************************************)
EXTENDS Integers, Sequences, FiniteSets, Functions

CONSTANTS
    Masters, Workers,   \* the sequences of hosts of the cluster file
    Ubuntu,             \* the hosts that run Ubuntu
    NamesCertsDir,      \* whether the cluster file has certsDir, as the copy create saves does
    Operations,         \* the commands that are given
    MaxOps,             \* and how many of them
    MaxFaults           \* calls that fail, and kills

Hosts == Range(Masters) \cup Range(Workers)
CAs == 0 .. MaxOps + 1

\* isClusterCfgValid.
ASSUME ClusterAssumption ==
    /\ Masters \in Seq(Range(Masters)) /\ Workers \in Seq(Range(Workers))
    /\ Len(Masters) % 2 = 1
    /\ Range(Masters) \cap Range(Workers) = {}
ASSUME OperationsAssumption ==
    /\ Operations \subseteq {"create", "upgrade", "regen", "delete"}
    /\ NamesCertsDir \subseteq BOOLEAN /\ MaxOps \in Nat /\ MaxFaults \in Nat

VARIABLES
    host,       \* the hosts
    local,      \* the CA of rootCA.crt, rootCA.key and admin.kubeconfig in the state directory
    ca,         \* the last CA that was made
    nodes,      \* the hosts with a labelled Node object
    op, pc,     \* the operation, and what nodeletctl is doing
    round,      \* the number of the round
    call,       \* the number of each host's next call in this round, 0 before the connection
    seen,       \* the hosts SyncNodes has found to be ok
    unread,     \* the hosts whose status it still reads
    helper,     \* the goroutine of SyncNodes that waits for done and for the ticker
    left,       \* such a goroutine has closed its channel and not yet returned
    result,     \* how the last operation ended
    failed,     \* a call of this operation failed, or it was killed
    ops, faults,
    since       \* hosts that became ok since the last stop or start (history)

sync == <<seen, unread, helper, left>>
vars == <<host, nodes, local, ca, op, pc, round, call, sync, result, failed, ops, faults, since>>

-----------------------------------------------------------------------------
(***************************************************************************)
(* Operations as rounds of calls.                                            *)
(***************************************************************************)
\* The nodes in the order of SyncNodes; the loops take the first of their hosts.
Nodes == Workers \o Masters
First(hosts) == LET Place(h) == CHOOSE i \in DOMAIN Nodes : Nodes[i] = h
                IN  CHOOSE h \in hosts : \A g \in hosts : Place(h) <= Place(g)

OneByOne(s) == [i \in DOMAIN s |-> {s[i]}]

\* The hosts of each round: masters one after the other, then the workers
\* together; for regen-certs first the masters but one, which are a majority
\* where there are three or more.
DeployCluster == Append(OneByOne(Masters), Range(Workers))
Mut_UpgradeRounds == <<Range(Masters), Range(Workers)>>
UpgradeRounds == Append(OneByOne(Masters), Range(Workers))
RegenRounds == <<Range(Tail(Masters)), Range(Workers), {Head(Masters)}>>
DeleteRounds == OneByOne(Nodes)
Rounds(o) == CASE o = "create" -> DeployCluster
               [] o = "upgrade" -> UpgradeRounds
               [] o = "regen" -> RegenRounds
               [] o = "delete" -> DeleteRounds

\* The calls of a round that change a host, in their order.  What else they do
\* there (the user, images, directories and their owners) belongs to the next one.
DeployNodelet == <<"crt", "key", "config", "install", "start">>
Mut_UpgradeMaster == <<"config", "erase", "install", "restart">>
UpgradeMaster == <<"erase", "config", "install", "restart">>
UploadCertsAndRestartStack == <<"crt", "key", "clear", "stop", "down", "restart">>
DeleteNodelet == <<"erase", "clean">>
Plan(o) == CASE o = "create" -> DeployNodelet
             [] o = "upgrade" -> UpgradeMaster
             [] o = "regen" -> UploadCertsAndRestartStack
             [] o = "delete" -> DeleteNodelet

\* UploadCerts, one file after the other.
UploadCrt(h) == [h EXCEPT !.crt = local.crt]
UploadKey(h) == [h EXCEPT !.key = local.key]
CopyNodeletConfig(h) == [h EXCEPT !.conf = TRUE]

Mut_InstallNodelet(o, h) ==
    [h EXCEPT !.pkg = IF o = "upgrade" THEN "new" ELSE "old", !.up = FALSE, !.certs = 0]

\* A package that is installed is kept; the installation of one stops the phases.
InstallNodelet(o, h) ==
    IF h.pkg # "none" THEN h
    ELSE [h EXCEPT !.pkg = IF o = "upgrade" THEN "new" ELSE "old", !.up = FALSE, !.certs = 0]

\* systemctl start leaves a nodeletd that runs as it is.
StartNodelet(h) == IF h.nodeletd = "off" THEN [h EXCEPT !.nodeletd = "new"] ELSE h
RestartNodelet(h) == [h EXCEPT !.nodeletd = "new"]

DeleteOldCerts(h) == [h EXCEPT !.certs = 0]
StopNodelet(h) == [h EXCEPT !.nodeletd = "off"]
StopPhases(h) == [h EXCEPT !.up = FALSE, !.certs = 0]

Mut_UninstallNodelet(h) ==
    [h EXCEPT !.pkg = "none", !.nodeletd = "off", !.up = FALSE, !.certs = 0, !.conf = FALSE]

\* The removal of the package stops nodeletd and the phases and deletes the
\* configuration and kube_status.
UninstallNodelet(h) ==
    [h EXCEPT !.pkg = "none", !.nodeletd = "off", !.up = FALSE, !.certs = 0,
              !.conf = FALSE, !.status = "none"]
CleanUp(h) ==
    [h EXCEPT !.crt = 0, !.key = 0, !.certs = 0, !.conf = FALSE, !.status = "none"]

Effect(c, h) ==
    CASE c = "crt" -> UploadCrt(h)
      [] c = "key" -> UploadKey(h)
      [] c = "config" -> CopyNodeletConfig(h)
      [] c = "install" -> InstallNodelet(op, h)
      [] c = "start" -> StartNodelet(h)
      [] c = "restart" -> RestartNodelet(h)
      [] c = "clear" -> DeleteOldCerts(h)
      [] c = "stop" -> StopNodelet(h)
      [] c = "down" -> StopPhases(h)
      [] c = "erase" -> UninstallNodelet(h)
      [] c = "clean" -> CleanUp(h)

\* apt-get has no operation "uninstall"; without the package there is no unit.
CannotRun(c, h) ==
    \/ c = "erase" /\ op = "upgrade" /\ h \in Ubuntu
    \/ c \in {"start", "restart", "stop", "down"} /\ host[h].pkg = "none"

-----------------------------------------------------------------------------
(***************************************************************************)
(* The hosts and the API server.                                             *)
(***************************************************************************)
\* The masters whose certificates are of CA a form the control plane of a.
ControlPlane(a) == {m \in Range(Masters) : host[m].up /\ host[m].certs = a}
Served(a) == a # 0 /\ 2 * Cardinality(ControlPlane(a)) > Len(Masters)

\* The API server answers to the kubeconfig of the state directory.
Reachable == Served(local.conf)

Absent == [pkg |-> "none", crt |-> 0, key |-> 0, certs |-> 0, conf |-> FALSE,
           nodeletd |-> "off", up |-> FALSE, status |-> "none"]
Present == [pkg |-> "old", crt |-> 1, key |-> 1, certs |-> 1, conf |-> TRUE,
            nodeletd |-> "on", up |-> TRUE, status |-> "ok"]

\* No cluster yet, or one that create has made.
Init ==
    /\ \E made \in {0, 1} :
          /\ host = [h \in Hosts |-> IF made = 1 THEN Present ELSE Absent]
          /\ local = [crt |-> made, key |-> made, conf |-> made]
          /\ ca = made
          /\ nodes = IF made = 1 THEN Hosts ELSE {}
          /\ since = IF made = 1 THEN Hosts ELSE {}
    /\ op = "none" /\ pc = "idle" /\ round = 1 /\ call = [h \in Hosts |-> 0]
    /\ seen = {} /\ unread = {} /\ helper = "none" /\ left = FALSE
    /\ result = "ok" /\ failed = FALSE /\ ops = 0 /\ faults = 0

nodeletctl == <<local, ca, op, pc, round, call, sync, result, failed, ops, faults>>

\* nodeletd starts and writes kube_status: what was ok converges again.
Boots(h) ==
    /\ host[h].nodeletd = "new"
    /\ host' = [host EXCEPT ![h].nodeletd = "on", ![h].status = "conv"]
    /\ UNCHANGED <<nodeletctl, nodes, since>>

\* It brings up a stack that is down or whose certificates are gone; gen_certs
\* signs new ones with the CA of the host.
StackStarts(h) ==
    LET r == host[h]
        certs == IF r.certs # 0 THEN r.certs ELSE r.crt
    IN  /\ r.nodeletd = "on" /\ r.conf /\ (~r.up \/ r.certs = 0)
        /\ r.certs # 0 \/ (r.crt = r.key /\ r.crt # 0)
        /\ host' = [host EXCEPT ![h].up = TRUE, ![h].certs = certs]
        /\ UNCHANGED <<nodeletctl, nodes, since>>

Converges(h) ==
    /\ host[h].nodeletd = "on" /\ host[h].up /\ host[h].status = "conv"
    /\ Served(host[h].certs)
    /\ host' = [host EXCEPT ![h].status = "ok"]
    /\ since' = since \cup {h} /\ nodes' = nodes \cup {h}
    /\ UNCHANGED nodeletctl

Degrades(h) ==
    /\ host[h].nodeletd = "on" /\ host[h].status = "ok"
    /\ ~(host[h].up /\ Served(host[h].certs))
    /\ host' = [host EXCEPT ![h].status = "conv"]
    /\ UNCHANGED <<nodeletctl, nodes, since>>

\* The full restart of a stack that does not come up signs its certificates anew.
Retries(h) ==
    LET r == host[h]
    IN  /\ r.nodeletd = "on" /\ r.up /\ r.status = "conv" /\ ~Served(r.certs)
        /\ r.crt = r.key /\ r.crt \notin {0, r.certs}
        /\ host' = [host EXCEPT ![h].certs = r.crt]
        /\ UNCHANGED <<nodeletctl, nodes, since>>

-----------------------------------------------------------------------------
(***************************************************************************)
(* The beginning of the operations.                                          *)
(***************************************************************************)
\* The process ends, and with it every goroutine.
Exits(res, fault) ==
    /\ pc' = "idle" /\ result' = res
    /\ failed' = (failed \/ fault) /\ faults' = IF fault THEN faults + 1 ELSE faults
    /\ helper' = "none" /\ left' = FALSE /\ seen' = {} /\ unread' = {}
    /\ round' = 1 /\ call' = [h \in Hosts |-> 0]
    /\ UNCHANGED <<op, ops>>

Begins(o) ==
    /\ pc = "idle" /\ ops < MaxOps /\ o \in Operations
    /\ op' = o /\ ops' = ops + 1 /\ failed' = FALSE
    /\ UNCHANGED <<host, nodes, ca, round, call, sync, faults, since>>

Refused == pc' = "idle" /\ result' = "error" /\ UNCHANGED local

CertsExist == local.crt # 0 /\ local.key # 0

\* A cluster that answers is not deployed again; any error of the client is taken
\* for its absence.  Certificates that exist are used again.
CreateCluster ==
    /\ Begins("create")
    /\ \/ Reachable /\ Refused
       \/ /\ ~Reachable /\ result' = "running" /\ UNCHANGED local
          /\ \E dir \in NamesCertsDir :
                pc' = IF dir \/ CertsExist THEN "trust" ELSE "crt"

\* The masters and workers of the cluster must be the ones of the file.
UpgradeCluster ==
    /\ Begins("upgrade") /\ UNCHANGED local
    /\ IF Reachable /\ nodes = Hosts THEN pc' = "run" /\ result' = "running" ELSE Refused

RegenClusterCerts == Begins("regen") /\ pc' = "rm" /\ result' = "running" /\ UNCHANGED local

DeleteCluster == Begins("delete") /\ pc' = "run" /\ result' = "running" /\ UNCHANGED local

(***************************************************************************)
(* The CA and the kubeconfig, on the machine of nodeletctl.                  *)
(***************************************************************************)
Working(next) ==
    pc' = next /\ UNCHANGED <<host, nodes, op, round, call, sync, result, failed, ops, faults, since>>

RemoveCerts ==
    /\ pc = "rm" /\ Working("crt")
    /\ local' = [crt |-> 0, key |-> 0, conf |-> 0]
    /\ UNCHANGED ca

WriteCrt ==
    /\ pc = "crt" /\ Working("key")
    /\ ca' = ca + 1 /\ local' = [local EXCEPT !.crt = ca + 1]

Mut_WriteKey ==
    /\ pc = "key" /\ Working(IF op = "create" THEN "trust" ELSE "conf")
    /\ ca' = ca + 1 /\ local' = [local EXCEPT !.crt = ca', !.key = ca']

WriteKey ==
    /\ pc = "key" /\ Working(IF op = "create" THEN "trust" ELSE "conf")
    /\ local' = [local EXCEPT !.key = local.crt]
    /\ UNCHANGED ca

\* A client certificate is only signed with the key of the CA.
CanSign == local.crt # 0 /\ local.crt = local.key
GenKubeconfig ==
    /\ pc = "conf" /\ CanSign /\ Working(IF op = "create" THEN "run" ELSE "trust")
    /\ local' = [local EXCEPT !.conf = local.crt]
    /\ UNCHANGED ca

\* create has filled in the certificates' directory, regen-certs has not.
CanTrust(dir) == (op = "create" \/ dir) /\ local.crt # 0
trustCA ==
    /\ pc = "trust" /\ (\E dir \in NamesCertsDir : CanTrust(dir))
    /\ Working(IF op = "create" THEN "conf" ELSE "run")
    /\ UNCHANGED <<local, ca>>

CertsFail ==
    /\ \/ pc = "conf" /\ ~CanSign
       \/ pc = "trust" /\ \E dir \in NamesCertsDir : ~CanTrust(dir)
    /\ Exits("error", FALSE)
    /\ UNCHANGED <<host, nodes, local, ca, since>>

-----------------------------------------------------------------------------
(***************************************************************************)
(* A round: connect to the hosts, run the calls on each.                     *)
(***************************************************************************)
InRound == Rounds(op)[round]
EndOfPlan(o) == Len(Plan(o)) + 1
running == <<local, ca, op, pc, round, sync, result, ops>>

Unconnected == {h \in InRound : call[h] = 0}
Connect ==
    /\ pc = "run" /\ Unconnected # {}
    /\ call' = [call EXCEPT ![First(Unconnected)] = 1]
    /\ UNCHANGED <<host, nodes, running, failed, faults, since>>

\* The operation ends without a wait for the goroutines that run.
ConnectFails ==
    /\ pc = "run" /\ Unconnected # {} /\ faults < MaxFaults
    /\ Exits("error", TRUE)
    /\ UNCHANGED <<host, nodes, local, ca, since>>

\* The Node objects are in etcd, whose data is on the masters.
Kept == IF \A m \in Range(Masters) : host'[m] = Absent THEN {} ELSE nodes
Restarts == {"restart", "start", "stop", "erase"}
Do(h) ==
    /\ pc = "run" /\ call[h] \in 1 .. Len(Plan(op))
    /\ LET c == Plan(op)[call[h]] IN
       /\ ~CannotRun(c, h)
       /\ host' = [host EXCEPT ![h] = Effect(c, @)]
       /\ nodes' = Kept
       /\ since' = IF c \in Restarts /\ host'[h] # host[h] THEN since \ {h} ELSE since
    /\ call' = [call EXCEPT ![h] = @ + 1]
    /\ UNCHANGED <<running, failed, faults>>

\* A call fails, or its answer is lost, and the calls after it are not made.
\* delete remembers it, upgrade and create note it where nobody looks, and
\* regen-certs drops it.
DoFails(h) ==
    /\ pc = "run" /\ call[h] \in 1 .. Len(Plan(op))
    /\ LET c == Plan(op)[call[h]] IN
       IF CannotRun(c, h)
       THEN UNCHANGED <<host, nodes, since, faults>>
       ELSE /\ faults < MaxFaults /\ faults' = faults + 1
            /\ \/ UNCHANGED <<host, nodes, since>>
               \/ /\ host' = [host EXCEPT ![h] = Effect(c, @)]
                  /\ nodes' = Kept /\ since' = since \ {h}
    /\ call' = [call EXCEPT ![h] = EndOfPlan(op)]
    /\ failed' = TRUE
    /\ UNCHANGED running

RoundDone ==
    /\ pc = "run" /\ \A h \in InRound : call[h] = EndOfPlan(op)
    /\ call' = [h \in Hosts |-> 0]
    /\ UNCHANGED <<host, nodes, local, ca, op, seen, helper, left, failed, ops, faults, since>>
    /\ \/ /\ op # "regen" /\ round < Len(Rounds(op))
          /\ round' = round + 1 /\ UNCHANGED <<pc, unread, result>>
       \/ /\ op = "delete" /\ round = Len(Rounds(op))
          /\ pc' = "idle" /\ result' = IF failed THEN "error" ELSE "ok"
          /\ round' = 1 /\ UNCHANGED unread
       \/ /\ op = "regen" \/ (op # "delete" /\ round = Len(Rounds(op)))
          /\ pc' = "status" /\ unread' = IF op = "regen" THEN InRound ELSE Hosts
          /\ UNCHANGED <<round, result>>

-----------------------------------------------------------------------------
(***************************************************************************)
(* SyncNodes                                                                 *)
(***************************************************************************)
ToSync == IF op = "regen" THEN InRound ELSE Hosts
waiting == <<host, nodes, local, ca, op, round, call, result, ops, since>>

\* RefreshNodeletStatus; a copy that fails counts as a node that is not ok.
Reads ==
    LET h == First(unread) IN
    /\ unread # {} /\ unread' = unread \ {h}
    /\ \/ /\ seen' = IF host[h].status = "ok" THEN seen \cup {h} ELSE seen
          /\ UNCHANGED <<failed, faults>>
       \/ /\ host[h].status = "ok" /\ faults < MaxFaults
          /\ faults' = faults + 1 /\ failed' = TRUE /\ UNCHANGED seen

GetClusterNodeletStatus ==
    /\ pc = "status" /\ Reads
    /\ UNCHANGED <<waiting, pc, helper, left>>

StatusRead ==
    /\ pc = "status" /\ unread = {}
    /\ pc' = "wait" /\ helper' = "select"
    /\ UNCHANGED <<waiting, seen, unread, left, failed, faults>>

\* A node that was ok is not looked at again.  With every node ok at the
\* beginning of a tick, done is closed.
SyncAndRetry ==
    /\ helper = "select"
    /\ IF ToSync \subseteq seen
       THEN helper' = "closed" /\ left' = TRUE /\ UNCHANGED unread
       ELSE helper' = "round" /\ unread' = ToSync \ seen /\ UNCHANGED left
    /\ UNCHANGED <<waiting, pc, seen, failed, faults>>

Refresh ==
    /\ helper = "round" /\ Reads
    /\ UNCHANGED <<waiting, pc, helper, left>>

NotSynced ==
    /\ helper = "round" /\ unread = {}
    /\ helper' = "select"
    /\ UNCHANGED <<waiting, pc, seen, unread, left, failed, faults>>

\* The goroutine that closed done is back in its select: done is ready and the
\* ticker may be, in which case it closes done again and the process panics.
HelperReturns ==
    /\ left /\ left' = FALSE
    /\ UNCHANGED <<waiting, pc, seen, unread, helper, failed, faults>>

HelperPanics ==
    /\ left /\ faults < MaxFaults /\ Exits("panic", TRUE)
    /\ UNCHANGED <<host, nodes, local, ca, since>>

NextRound ==
    /\ op = "regen" /\ round < Len(Rounds(op))
    /\ pc' = "run" /\ round' = round + 1 /\ seen' = {} /\ helper' = "none"
    /\ UNCHANGED <<call, op, unread, left, result, ops, failed, faults>>

\* SyncNodes returns: regen-certs goes on to its next round.
SyncNodesDone ==
    /\ pc = "wait" /\ helper = "closed"
    /\ NextRound \/ ((op = "regen" => round = Len(Rounds(op))) /\ Exits("ok", FALSE))
    /\ UNCHANGED <<host, nodes, local, ca, since>>

\* No connection for a status.  Only regen-certs looks at the error.
SyncNodesFails ==
    /\ pc = "status" /\ unread # {} /\ faults < MaxFaults
    /\ Exits(IF op = "regen" THEN "error" ELSE "ok", TRUE)
    /\ UNCHANGED <<host, nodes, local, ca, since>>

-----------------------------------------------------------------------------
\* The user stops nodeletctl, or its machine does; it may be in RemoveAll.
Killed ==
    /\ pc # "idle" /\ faults < MaxFaults
    /\ Exits("killed", TRUE)
    /\ \/ UNCHANGED local
       \/ pc = "rm" /\ \E f \in {"crt", "key", "conf"} : local' = [local EXCEPT ![f] = 0]
    /\ UNCHANGED <<host, nodes, ca, since>>

Command == CreateCluster \/ UpgradeCluster \/ RegenClusterCerts \/ DeleteCluster
Certs == RemoveCerts \/ WriteCrt \/ WriteKey \/ GenKubeconfig \/ trustCA \/ CertsFail
Calls == RoundDone \/ Connect \/ \E h \in Hosts : Do(h)
Sync == \/ GetClusterNodeletStatus \/ Refresh \/ StatusRead \/ SyncAndRetry \/ NotSynced \/ SyncNodesDone
Faults == ConnectFails \/ SyncNodesFails \/ Killed \/ HelperPanics
NodeSteps(h) == Boots(h) \/ StackStarts(h) \/ Converges(h) \/ Degrades(h) \/ Retries(h)

Next == \/ Command \/ Certs \/ Calls \/ Sync \/ HelperReturns \/ Faults
        \/ \E h \in Hosts : DoFails(h) \/ NodeSteps(h)

Spec == Init /\ [][Next]_vars

\* The calls return, the ticker ticks, and each nodeletd goes on.
FairSpec ==
    /\ Spec
    /\ WF_vars(Certs \/ Calls \/ \E h \in Hosts : DoFails(h)) /\ WF_vars(Sync)
    /\ \A h \in Hosts : WF_vars(NodeSteps(h))

-----------------------------------------------------------------------------
\* The values of the variables: each operation makes at most one CA (GenCALocal).
TypeOK ==
    /\ host \in [Hosts -> [pkg : {"none", "old", "new"}, crt : CAs, key : CAs, certs : CAs,
                           conf : BOOLEAN, nodeletd : {"off", "new", "on"}, up : BOOLEAN,
                           status : {"none", "conv", "ok"}]]
    /\ local \in [crt : CAs, key : CAs, conf : CAs] /\ ca \in CAs
    /\ op \in {"none", "create", "upgrade", "regen", "delete"}
    /\ pc \in {"idle", "rm", "crt", "key", "conf", "trust", "run", "status", "wait"}
    /\ round \in 1 .. Len(Masters) + Len(Workers) + 2
    /\ call \in [Hosts -> 0 .. 7]
    /\ nodes \subseteq Hosts /\ seen \subseteq Hosts /\ unread \subseteq Hosts /\ since \subseteq Hosts
    /\ helper \in {"none", "select", "round", "closed"} /\ left \in BOOLEAN
    /\ result \in {"ok", "error", "killed", "panic", "running"}
    /\ failed \in BOOLEAN /\ ops \in 0 .. MaxOps /\ faults \in 0 .. MaxFaults

Succeeded(o) == op = o /\ pc = "idle" /\ result = "ok"
HasCA(h) == host[h].crt = local.crt /\ host[h].key = local.crt /\ host[h].certs \in {0, local.crt}

\* What an operation has reported is so, whatever was killed before it: after an
\* upgrade without a failing call every host has the new package and its stack
\* has come up with it; after a regen-certs without one every host and the
\* kubeconfig have the new CA and no certificate of the old one; after a delete
\* nothing is left (UpgradeCluster, RegenClusterCerts, DeleteCluster).
SuccessIsTrue ==
    /\ Succeeded("upgrade") /\ ~failed => \A h \in Hosts : host[h].pkg = "new" /\ h \in since
    /\ Succeeded("regen") /\ ~failed => local.conf = local.crt /\ \A h \in Hosts : HasCA(h)
    /\ Succeeded("delete") => \A h \in Hosts : host[h] = Absent

\* A create over hosts that already run, because their API server did not answer
\* to the kubeconfig, takes no stack down (InstallNodelet, StartNodelet).
CreateKeepsStacks ==
    [][op = "create" /\ pc = "run" => \A h \in Hosts : host[h].up => host'[h].up]_vars

\* No host has anything of another CA than the last, and an upgrade, which
\* uploads no CA, finds it on every host.  regen-certs has masters that come up
\* before the workers: a single one gets the new CA last.
Prepared ==
    IF op = "regen"
    THEN Len(Masters) > 1 \/ Workers = <<>>
    ELSE \A h \in Hosts : /\ {host[h].crt, host[h].key, host[h].certs} \subseteq {0, ca}
                          /\ op = "upgrade" => host[h].crt = ca /\ host[h].key = ca

\* An operation of which no call fails comes to its end: SyncNodes does not wait
\* for hosts that cannot come up before it returns.
OperationEnds == (pc # "idle" /\ ~failed /\ Prepared) ~> (pc = "idle" \/ failed)

\* An upgrade that is killed, without a call having failed, can be repeated: the
\* masters it has not taken down and the ones it has restarted are a majority.
UpgradeIsRepeatable ==
    (op = "upgrade" /\ result = "killed" /\ faults = 1) ~> (Reachable \/ pc # "idle")

\* An upgrade that reports success has upgraded every host (UpgradeCluster).
UpgradeIsTrue == Succeeded("upgrade") => \A h \in Hosts : host[h].pkg = "new"
=============================================================================
