------------------------------- MODULE Scale --------------------------------
(***************************************************************************)
(* nodeletctl scale: bring the masters and the workers of a cluster to the   *)
(* lists of the cluster file.  The operation reads the labelled nodes from   *)
(* the API server, adds the missing masters one by one (etcd member first,   *)
(* then the host), removes the surplus ones one by one (etcd member first,   *)
(* then the package), deploys the new workers, waits for every node and      *)
(* erases the old workers.  It keeps nothing on disk: an operation that      *)
(* failed or was killed is repeated from the beginning, perhaps with another *)
(* cluster file.                                                             *)
(*                                                                           *)
(* Modelled with it, from how the code uses them: the etcd cluster, whose    *)
(* membership changes under ETCD_STRICT_RECONFIG_CHECK and needs a majority, *)
(* the labels of the Node objects, and nodeletd on each host.  The hosts     *)
(* themselves do not fail; connections, commands and calls do.               *)
(***************************************************************************)
EXTENDS Integers, FiniteSets

CONSTANTS
    Hosts,      \* every host a cluster file may name
    Files       \* the cluster files: records [masters, workers] of sets of hosts

\* isClusterCfgValid, and getDiffNodes works on names: a host has one role.
ASSUME FilesAssumption ==
    \A f \in Files : /\ f.masters \subseteq Hosts /\ f.workers \subseteq Hosts
                     /\ Cardinality(f.masters) % 2 = 1
                     /\ f.masters \cap f.workers = {}
ASSUME HostsAssumption == IsFiniteSet(Hosts)

\* No file makes a worker of another file a master, or a master a worker.
HostsKeepRoles == \A f, g \in Files : f.masters \cap g.workers = {}

VARIABLES
    \* the cluster
    members,    \* the members of the etcd cluster
    joined,     \* the hosts whose etcd has joined it and runs
    label,      \* the role labels of each host's Node object
    host,       \* what nodeletd on each host runs: [role, list]
    ok,         \* the hosts whose kube_status says "ok"
    \* nodeletctl
    file,       \* the cluster file of the last operation
    pc,         \* the next call of the operation
    at,         \* the master it works on
    curr,       \* currMasters
    newM, oldM, newW, oldW,   \* what is left to add and to remove
    result,     \* how the last operation ended
    \* history
    clean       \* no call or command has failed and no operation was killed

cluster == <<members, joined, label, host, ok>>
lists == <<newM, oldM, newW, oldW>>
vars == <<cluster, file, pc, at, curr, lists, result, clean>>

Roles == {"master", "worker"}
Labelled(r) == {h \in Hosts : r \in label[h]}
Off == [role |-> "none", list |-> {}]
NoHost == "none"

-----------------------------------------------------------------------------
(***************************************************************************)
(* etcd and the API server.                                                  *)
(***************************************************************************)
Majority(s, m) == 2 * Cardinality(s \cap m) > Cardinality(m)
HasQuorum == Majority(joined, members)
ApiUp == HasQuorum

\* A client needs an endpoint that answers and a cluster that can commit.
CanCommit == HasQuorum /\ curr \cap joined # {}

\* The strict check: the members that have started must be a majority of the
\* new cluster; going from one member to two is let through.
StrictAdd ==
    LET started == Cardinality(members \cap joined)
    IN  \/ Cardinality(members) = 1
        \/ started >= (Cardinality(members) + 1) \div 2 + 1
\* A mutant: members are removed without the strict check.
Mut_StrictRemove(h) == TRUE
StrictRemove(h) == Majority(joined, members \ {h})

CanAdd(h) == CanCommit /\ h \notin members /\ StrictAdd

\* findEtcdMemberByIp looks for the name, which only a started member has.
CanRemove(h) == CanCommit /\ h \in members \cap joined /\ StrictRemove(h)

-----------------------------------------------------------------------------
\* The cluster as nodeletctl create has left it.
Init ==
    /\ file \in Files
    /\ members = file.masters
    /\ joined = members
    /\ label = [h \in Hosts |-> (IF h \in file.masters THEN {"master"} ELSE {})
                                \cup (IF h \in file.workers THEN {"worker"} ELSE {})]
    /\ host = [h \in Hosts |->
                 CASE h \in file.masters -> [role |-> "master", list |-> file.masters]
                   [] h \in file.workers -> [role |-> "worker", list |-> {}]
                   [] OTHER -> Off]
    /\ ok = file.masters \cup file.workers
    /\ pc = "idle" /\ at = NoHost /\ result = "ok" /\ clean = TRUE
    /\ curr = {} /\ newM = {} /\ oldM = {} /\ newW = {} /\ oldW = {}

(***************************************************************************)
(* Every error the operation returns; fault tells an error of the moment     *)
(* from one that follows from the state of the cluster.                      *)
(***************************************************************************)
Returns(res, fault) ==
    /\ pc' = "idle" /\ result' = res /\ at' = NoHost
    /\ clean' = (clean /\ ~fault)
    /\ curr' = {} /\ newM' = {} /\ oldM' = {} /\ newW' = {} /\ oldW' = {}
    /\ UNCHANGED file

Goes(next) == pc' = next /\ UNCHANGED <<file, result>>

-----------------------------------------------------------------------------
(***************************************************************************)
(* ScaleCluster up to getDiffNodes.                                          *)
(***************************************************************************)
ScaleCluster ==
    /\ pc = "idle"
    /\ file' \in Files
    /\ UNCHANGED <<cluster, at, clean>>
    /\ \/ /\ ApiUp
          /\ pc' = "add" /\ result' = "running"
          /\ newM' = file'.masters \ Labelled("master")
          /\ oldM' = Labelled("master") \ file'.masters
          /\ curr' = file'.masters \cap Labelled("master")
          /\ newW' = file'.workers \ Labelled("worker")
          /\ oldW' = Labelled("worker") \ file'.workers
       \/ /\ ~ApiUp
          /\ result' = "error"
          /\ UNCHANGED <<pc, curr, lists>>

(***************************************************************************)
(* AddMasters: the deployer, MemberAdd, SpawnMaster, SyncNodes for one host. *)
(***************************************************************************)
AddMember(h) ==
    /\ pc = "add" /\ h \in newM /\ CanAdd(h)
    /\ members' = members \cup {h}
    /\ at' = h
    /\ Goes("spawn")
    /\ UNCHANGED <<joined, label, host, ok, curr, lists, clean>>

\* No connection, an error of etcd, or a time-out after which the member may
\* or may not have been added.
AddMemberFails(h) ==
    /\ pc = "add" /\ h \in newM
    /\ \/ Returns("error", CanAdd(h)) /\ UNCHANGED members
       \/ CanAdd(h) /\ Returns("error", TRUE) /\ members' = members \cup {h}
    /\ UNCHANGED <<joined, label, host, ok>>

\* DeployNodelet: systemctl start leaves a nodeletd that runs as it is.
Deployed(h, r, list) ==
    [host EXCEPT ![h] = IF @.role = "none" THEN [role |-> r, list |-> list] ELSE @]

\* A mutant: the master list has every master of the file.
Mut_SpawnMaster ==
    /\ pc = "spawn"
    /\ host' = Deployed(at, "master", file.masters)
    /\ Goes("sync_new")
    /\ UNCHANGED <<members, joined, label, ok, at, curr, lists, clean>>

\* The master list has the current masters and the new one.
SpawnMaster ==
    /\ pc = "spawn"
    /\ host' = Deployed(at, "master", curr \cup {at})
    /\ Goes("sync_new")
    /\ UNCHANGED <<members, joined, label, ok, at, curr, lists, clean>>

\* Its error is not looked at.
SpawnMasterFails ==
    /\ pc = "spawn"
    /\ clean' = FALSE
    /\ Goes("sync_new")
    /\ UNCHANGED <<cluster, at, curr, lists>>

SyncNewMaster ==
    /\ pc = "sync_new" /\ at \in ok
    /\ curr' = curr \cup {at}
    /\ newM' = newM \ {at}
    /\ at' = NoHost
    /\ Goes("add")
    /\ UNCHANGED <<cluster, oldM, newW, oldW, clean>>

MastersAdded ==
    /\ pc = "add" /\ newM = {}
    /\ Goes("remove")
    /\ UNCHANGED <<cluster, at, curr, lists, clean>>

(***************************************************************************)
(* RemoveMasters: MemberRemove, DeleteNodelet, SyncNodes for one host.  The  *)
(* Node object stays, with its label.  etcd ends on a host it was removed    *)
(* from.                                                                     *)
(***************************************************************************)
\* A mutant: an error of MemberRemove does not end the operation.
Mut_RemoveMember(h) ==
    /\ pc = "remove" /\ h \in oldM
    /\ \/ CanRemove(h) /\ members' = members \ {h} /\ joined' = joined \ {h}
       \/ ~CanRemove(h) /\ UNCHANGED <<members, joined>>
    /\ at' = h
    /\ Goes("delete")
    /\ UNCHANGED <<label, host, ok, curr, lists, clean>>

RemoveMember(h) ==
    /\ pc = "remove" /\ h \in oldM /\ CanRemove(h)
    /\ members' = members \ {h}
    /\ joined' = joined \ {h}
    /\ at' = h
    /\ Goes("delete")
    /\ UNCHANGED <<label, host, ok, curr, lists, clean>>

RemoveMemberFails(h) ==
    /\ pc = "remove" /\ h \in oldM
    /\ \/ Returns("error", CanRemove(h)) /\ UNCHANGED <<members, joined>>
       \/ /\ CanRemove(h) /\ Returns("error", TRUE)
          /\ members' = members \ {h} /\ joined' = joined \ {h}
    /\ UNCHANGED <<label, host, ok>>

\* DeleteNodelet: erase the package, whose removal stops every phase, and the
\* directories.
DeleteNodelet(h) ==
    /\ host' = [host EXCEPT ![h] = Off]
    /\ joined' = joined \ {h}
    /\ ok' = ok \ {h}
    /\ UNCHANGED <<members, label>>

DeleteMaster ==
    /\ pc = "delete"
    /\ DeleteNodelet(at)
    /\ Goes("sync_rest")
    /\ UNCHANGED <<at, curr, lists, clean>>

\* No connection or a failing erase; or a failing clean-up after the erase.
DeleteMasterFails ==
    /\ pc = "delete"
    /\ Returns("error", TRUE)
    /\ UNCHANGED cluster \/ DeleteNodelet(at)

NextOldMaster ==
    /\ pc = "sync_rest"
    /\ oldM' = oldM \ {at}
    /\ at' = NoHost
    /\ Goes("remove")
    /\ UNCHANGED <<cluster, curr, newM, newW, oldW>>

SyncRemaining == curr \subseteq ok /\ NextOldMaster /\ UNCHANGED clean

\* An error of this SyncNodes is not looked at.
SyncRemainingFails == NextOldMaster /\ clean' = FALSE

MastersRemoved ==
    /\ pc = "remove" /\ oldM = {}
    /\ Goes("deploy")
    /\ UNCHANGED <<cluster, at, curr, lists, clean>>

(***************************************************************************)
(* DeployWorkers, SyncNodes for the whole file, DeleteWorkers.  The workers  *)
(* are deployed by goroutines, each on its own host.                         *)
(***************************************************************************)
SpawnWorker(h) ==
    /\ pc = "deploy" /\ h \in newW
    /\ \/ host' = Deployed(h, "worker", {}) /\ UNCHANGED clean
       \/ clean' = FALSE /\ UNCHANGED host
    /\ newW' = newW \ {h}
    /\ Goes("deploy")
    /\ UNCHANGED <<members, joined, label, ok, at, curr, newM, oldM, oldW>>

WorkersDeployed ==
    /\ pc = "deploy" /\ newW = {}
    /\ Goes("sync_all")
    /\ UNCHANGED <<cluster, at, curr, lists, clean>>

\* A mutant: the wait for the whole cluster is left out.
Mut_SyncAll ==
    /\ pc = "sync_all"
    /\ Goes("delete_workers")
    /\ UNCHANGED <<cluster, at, curr, lists, clean>>

SyncAll ==
    /\ pc = "sync_all"
    /\ file.masters \cup file.workers \subseteq ok
    /\ Goes("delete_workers")
    /\ UNCHANGED <<cluster, at, curr, lists, clean>>

DeleteWorker(h) ==
    /\ pc = "delete_workers" /\ h \in oldW
    /\ DeleteNodelet(h)
    /\ oldW' = oldW \ {h}
    /\ Goes("delete_workers")
    /\ UNCHANGED <<at, curr, newM, oldM, newW, clean>>

\* No connection for a status, a new worker or a delete: the error is returned.
ConnectFails ==
    /\ \/ pc \in {"sync_new", "sync_all"}
       \/ pc = "deploy" /\ newW # {}
       \/ pc = "delete_workers" /\ oldW # {}
    /\ Returns("error", TRUE)
    /\ UNCHANGED cluster

ScaleDone ==
    /\ pc = "delete_workers" /\ oldW = {}
    /\ Returns("ok", FALSE)
    /\ UNCHANGED cluster

\* The user stops nodeletctl, or its machine does.
Killed ==
    /\ pc # "idle"
    /\ Returns("killed", TRUE)
    /\ UNCHANGED cluster

-----------------------------------------------------------------------------
(***************************************************************************)
(* The hosts.  An etcd that joins an existing cluster compares its list of   *)
(* members with the cluster's and gives up, to be restarted, on a difference.*)
(***************************************************************************)
EtcdJoins(h) ==
    /\ host[h].role = "master" /\ h \in members \ joined
    /\ host[h].list = members
    /\ members \cap joined # {}
    /\ joined' = joined \cup {h}
    /\ UNCHANGED <<members, label, host, ok, file, pc, at, curr, lists, result, clean>>

\* A mutant: a node without a role is labelled too.
Mut_Converges(h) ==
    /\ h \notin ok /\ ApiUp
    /\ host[h].role = "master" => h \in joined
    /\ ok' = ok \cup {h}
    /\ label' = [label EXCEPT ![h] = @ \cup {host[h].role}]
    /\ UNCHANGED <<members, joined, host, file, pc, at, curr, lists, result, clean>>

\* The phases have come up and the node is labelled with the role it runs.
Converges(h) ==
    /\ host[h].role # "none" /\ h \notin ok /\ ApiUp
    /\ host[h].role = "master" => h \in joined
    /\ ok' = ok \cup {h}
    /\ label' = [label EXCEPT ![h] = @ \cup {host[h].role}]
    /\ UNCHANGED <<members, joined, host, file, pc, at, curr, lists, result, clean>>

\* The API server of a master that was removed from etcd stops answering.
Degrades(h) ==
    /\ host[h].role = "master" /\ h \in ok \ joined
    /\ ok' = ok \ {h}
    /\ UNCHANGED <<members, joined, label, host, file, pc, at, curr, lists, result, clean>>

-----------------------------------------------------------------------------
AddMasters == \/ \E h \in Hosts : AddMember(h)
              \/ SpawnMaster \/ SyncNewMaster \/ MastersAdded
RemoveMasters == \/ \E h \in Hosts : RemoveMember(h)
                 \/ DeleteMaster \/ SyncRemaining \/ MastersRemoved
Workers == \/ \E h \in Hosts : SpawnWorker(h) \/ DeleteWorker(h)
           \/ WorkersDeployed \/ SyncAll \/ ScaleDone
Fails == \/ \E h \in Hosts : AddMemberFails(h) \/ RemoveMemberFails(h)
         \/ SpawnMasterFails \/ DeleteMasterFails \/ SyncRemainingFails
         \/ ConnectFails \/ Killed
Nodes == \E h \in Hosts : EtcdJoins(h) \/ Converges(h) \/ Degrades(h)

Next == ScaleCluster \/ AddMasters \/ RemoveMasters \/ Workers \/ Fails \/ Nodes
Spec == Init /\ [][Next]_vars

\* An operation that is not killed goes on, and nodeletd on a host repeats a
\* start that failed.
FairSpec ==
    /\ Spec
    /\ WF_vars(AddMasters \/ RemoveMasters \/ Workers
               \/ \E h \in Hosts : AddMemberFails(h) \/ RemoveMemberFails(h))
    /\ \A h \in Hosts : WF_vars(EtcdJoins(h)) /\ WF_vars(Converges(h))

-----------------------------------------------------------------------------
\* Every variable has its type, and a node's labels are roles.
TypeOK ==
    /\ members \in SUBSET Hosts /\ joined \in SUBSET Hosts /\ ok \in SUBSET Hosts
    /\ label \in [Hosts -> SUBSET Roles]
    /\ host \in [Hosts -> [role : Roles \cup {"none"}, list : SUBSET Hosts]]
    /\ file \in Files
    /\ pc \in {"idle", "add", "spawn", "sync_new", "remove", "delete", "sync_rest",
               "deploy", "sync_all", "delete_workers"}
    /\ at \in Hosts \cup {NoHost}
    /\ curr \in SUBSET Hosts
    /\ newM \in SUBSET Hosts /\ oldM \in SUBSET Hosts
    /\ newW \in SUBSET Hosts /\ oldW \in SUBSET Hosts
    /\ result \in {"ok", "error", "killed", "running"}
    /\ clean \in BOOLEAN

\* Whatever is killed, fails or is repeated with another cluster file, the etcd
\* members that run are a majority of all members; only a cluster of one that
\* was just given its second member waits for that member (AddNodeToEtcd,
\* RemoveNodeFromEtcd before DeleteNodelet, one master at a time).  Hosts keep
\* their roles.
QuorumIsKept ==
    HasQuorum \/ (Cardinality(members) = 2 /\ Cardinality(members \cap joined) = 1)

\* nodelet is never erased from a host that is an etcd member (RemoveMasters,
\* DeleteWorkers), as long as hosts keep their roles.
MembersAreNotErased ==
    [][\A h \in Hosts : host[h].role # "none" /\ host'[h].role = "none"
                           => h \notin members]_vars

\* When no call ever failed and ScaleCluster returns without an error, the
\* etcd cluster has exactly the masters of the file and every node of the
\* file is healthy.
SuccessIsTrue ==
    clean /\ pc = "idle" /\ result = "ok" =>
        /\ members = file.masters /\ joined = members
        /\ file.masters \cup file.workers \subseteq ok

\* The labels tell which masters and workers there are.
LabelsAreTrue ==
    /\ \A h \in Hosts : label[h] = {host[h].role} \ {"none"}
    /\ Labelled("master") = members

\* In a cluster that never shrank, and while nothing fails, an operation that
\* adds new hosts as masters, one after the other, succeeds: each new etcd finds
\* the list of members it was deployed with (AddMasters).
GrowthSucceeds ==
    (clean /\ pc = "add" /\ LabelsAreTrue /\ oldM = {})
        ~> (result = "ok" \/ ~clean)

\* An operation during which nothing fails reaches the state the file asks for.
DesiredIsReached == (clean /\ result = "running") ~> (result = "ok" \/ ~clean)
=============================================================================
