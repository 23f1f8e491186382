---------------------------- MODULE ScaleProofs -----------------------------
(***************************************************************************)
(* For any number of hosts and any cluster files in which a host keeps its   *)
(* role: scaling never costs etcd its majority, never erases a member, and   *)
(* leaves the cluster of the file when it succeeds and nothing failed.       *)
(***************************************************************************)
EXTENDS Scale, FiniteSetTheorems, TLAPS

MastersOf == UNION {f.masters : f \in Files}
WorkersOf == UNION {f.workers : f \in Files}

\* Every host nodeletctl adds to etcd is a master of some file, and every host it
\* deploys or erases as a worker is a worker of some file.
RolesInv ==
    /\ members \subseteq MastersOf /\ newM \subseteq MastersOf
    /\ newW \subseteq WorkersOf /\ oldW \subseteq WorkersOf
    /\ Labelled("worker") \subseteq WorkersOf
    /\ \A h \in Hosts : host[h].role = "worker" => h \in WorkersOf

\* The host an operation works on; the one to be added
\* is a member of etcd, the one to be erased is not.
AtInv ==
    /\ pc \in {"spawn", "sync_new", "delete", "sync_rest"} => at \in Hosts
    /\ pc \in {"spawn", "sync_new"} => at \in members
    /\ pc \in {"delete", "sync_rest"} => at \notin members

\* Only members run an etcd of the cluster.
JoinedInv == joined \subseteq members

\* What is left to add is in the file, what is left to remove is not.
ListInv ==
    pc # "idle" => /\ newM \subseteq file.masters
                   /\ oldM \cap file.masters = {} /\ oldW \cap file.workers = {}

\* A healthy node is deployed, and labelled with the role it runs.
OkInv == \A h \in ok : host[h].role # "none" /\ host[h].role \in label[h]

\* The operation has seen every node of the file healthy.
Synced == pc = "delete_workers" \/ (pc = "idle" /\ result = "ok")

\* While nothing fails: a member carries the label by which the next operation
\* finds it, or is the one being added; a healthy master runs etcd, or is the one
\* being erased; and a member is in the file, or is left to be removed.
CleanInv ==
    clean =>
        /\ \A h \in members : \/ "master" \in label[h]
                              \/ pc \in {"spawn", "sync_new"} /\ h = at
        /\ \A h \in ok : host[h].role = "master"
                            => h \in joined \/ (pc = "delete" /\ h = at)
        /\ pc # "idle" => members \subseteq file.masters \cup oldM
        /\ pc \in {"deploy", "sync_all", "delete_workers"} => oldM = {}
        /\ Synced => /\ file.masters \subseteq joined
                     /\ file.masters \cup file.workers \subseteq ok
        /\ pc = "idle" /\ result = "ok" => members \subseteq file.masters

SuccInv == ListInv /\ OkInv /\ CleanInv

IInv == TypeOK /\ RolesInv /\ AtInv /\ JoinedInv /\ QuorumIsKept /\ SuccInv

-----------------------------------------------------------------------------
\* Masters and workers of the files are hosts.
LEMMA FileHosts ==
  /\ \A f \in Files : /\ f.masters \subseteq MastersOf /\ f.workers \subseteq WorkersOf
                      /\ f.masters \subseteq Hosts /\ f.workers \subseteq Hosts
  /\ MastersOf \subseteq Hosts /\ WorkersOf \subseteq Hosts
  BY FilesAssumption DEF MastersOf, WorkersOf

\* No host is a master of one file and a worker of another.
LEMMA RolesApart ==
  ASSUME HostsKeepRoles
  PROVE  MastersOf \cap WorkersOf = {}
  BY DEF HostsKeepRoles, MastersOf, WorkersOf

\* A set of hosts is finite, and its size is a number.
LEMMA HostSets ==
  ASSUME NEW S \in SUBSET Hosts
  PROVE  IsFiniteSet(S) /\ Cardinality(S) \in Nat
  BY HostsAssumption, FS_Subset, FS_CardinalityType

\* The strict check lets an addition pass only when the started members are a
\* majority of the larger cluster, or the cluster had one member.
LEMMA AddKeepsQuorum ==
  ASSUME members \subseteq Hosts, JoinedInv, NEW h \in Hosts, CanAdd(h),
         members' = members \cup {h}, joined' = joined
  PROVE  QuorumIsKept'
  <1>1. /\ Cardinality(members) \in Nat /\ Cardinality(joined) \in Nat
        /\ Cardinality(members') = Cardinality(members) + 1
      BY HostSets, FS_AddElement DEF JoinedInv, CanAdd
  <1>2. members \cap joined = joined /\ members' \cap joined' = joined
        /\ joined \cap members = joined /\ joined' \cap members' = joined
      BY DEF JoinedInv
  <1>3. Cardinality(joined) <= Cardinality(members)
      BY HostSets, FS_Subset DEF JoinedInv
  <1>4. 2 * Cardinality(joined) > Cardinality(members)
      BY <1>2 DEF CanAdd, CanCommit, HasQuorum, Majority
  <1>5. Cardinality(members) = 1
        \/ Cardinality(joined) >= (Cardinality(members) + 1) \div 2 + 1
      BY <1>2 DEF CanAdd, StrictAdd
  <1>6. CASE Cardinality(members) = 1
    <2>1. Cardinality(members') = 2 /\ Cardinality(joined) = 1
        BY <1>1, <1>3, <1>4, <1>6
    <2>. QED
        BY <2>1, <1>2 DEF QuorumIsKept
  <1>7. CASE Cardinality(joined) >= (Cardinality(members) + 1) \div 2 + 1
    <2>1. 2 * Cardinality(joined) > Cardinality(members')
        BY <1>1, <1>7
    <2>. QED
        BY <2>1, <1>2 DEF QuorumIsKept, HasQuorum, Majority
  <1>. QED
      BY <1>5, <1>6, <1>7

\* The strict check lets a removal pass only when the members that stay have
\* their majority without the one that goes.
LEMMA RemoveKeepsQuorum ==
  ASSUME NEW h, CanRemove(h), members' = members \ {h}, joined' = joined \ {h}
  PROVE  QuorumIsKept'
  <1>1. joined' \cap members' = joined \cap (members \ {h})
      OBVIOUS
  <1>. QED
      BY <1>1 DEF CanRemove, StrictRemove, Majority, HasQuorum, QuorumIsKept

\* One more etcd that runs keeps a majority, and gives two members theirs.
LEMMA JoinKeepsQuorum ==
  ASSUME members \subseteq Hosts, JoinedInv, QuorumIsKept,
         NEW h \in members \ joined, members' = members, joined' = joined \cup {h}
  PROVE  QuorumIsKept'
  <1>1. /\ Cardinality(members) \in Nat /\ Cardinality(joined) \in Nat
        /\ Cardinality(joined') = Cardinality(joined) + 1
      BY HostSets, FS_AddElement DEF JoinedInv
  <1>2. /\ members \cap joined = joined /\ members' \cap joined' = joined'
        /\ joined \cap members = joined /\ joined' \cap members' = joined'
      BY DEF JoinedInv
  <1>3. \/ 2 * Cardinality(joined) > Cardinality(members)
        \/ Cardinality(members) = 2 /\ Cardinality(joined) = 1
      BY <1>2 DEF QuorumIsKept, HasQuorum, Majority
  <1>4. 2 * Cardinality(joined') > Cardinality(members')
      BY <1>1, <1>3
  <1>. QED
      BY <1>2, <1>4 DEF QuorumIsKept, HasQuorum, Majority

-----------------------------------------------------------------------------
\* A deployment leaves every host with a role and a list.
LEMMA DeployedType ==
  ASSUME TypeOK, NEW h \in Hosts, NEW r \in Roles, NEW l \in SUBSET Hosts
  PROVE  Deployed(h, r, l) \in [Hosts -> [role : Roles \cup {"none"}, list : SUBSET Hosts]]
  <1>1. host[h] \in [role : Roles \cup {"none"}, list : SUBSET Hosts]
      BY DEF TypeOK
  <1>2. [role |-> r, list |-> l] \in [role : Roles \cup {"none"}, list : SUBSET Hosts]
      OBVIOUS
  <1>. QED
      BY <1>1, <1>2 DEF TypeOK, Deployed

\* Every step keeps the types.
LEMMA TypeStep ==
  ASSUME TypeOK, AtInv, [Next]_vars
  PROVE  TypeOK'
  <1>. USE DEF TypeOK, AtInv, cluster, lists
  <1>1. CASE ScaleCluster
      BY <1>1, FileHosts DEF ScaleCluster, Labelled
  <1>2. ASSUME NEW h \in Hosts, AddMember(h) PROVE TypeOK'
      BY <1>2 DEF AddMember, Goes
  <1>3. CASE SpawnMaster
    <2>1. curr \cup {at} \in SUBSET Hosts /\ at \in Hosts /\ "master" \in Roles
        BY <1>3 DEF SpawnMaster, Roles
    <2>2. host' \in [Hosts -> [role : Roles \cup {"none"}, list : SUBSET Hosts]]
        BY <1>3, <2>1, DeployedType DEF SpawnMaster
    <2>. QED
        BY <1>3, <2>2 DEF SpawnMaster, Goes
  <1>4. CASE SyncNewMaster
      BY <1>4 DEF SyncNewMaster, Goes
  <1>5. CASE MastersAdded
      BY <1>5 DEF MastersAdded, Goes
  <1>6. ASSUME NEW h \in Hosts, RemoveMember(h) PROVE TypeOK'
      BY <1>6 DEF RemoveMember, Goes
  <1>7. CASE DeleteMaster
      BY <1>7 DEF DeleteMaster, Goes, DeleteNodelet, Off
  <1>8. CASE SyncRemaining
      BY <1>8 DEF SyncRemaining, Goes, NextOldMaster
  <1>9. CASE MastersRemoved
      BY <1>9 DEF MastersRemoved, Goes
  <1>10. ASSUME NEW h \in Hosts, SpawnWorker(h) PROVE TypeOK'
    <2>1. {} \in SUBSET Hosts /\ "worker" \in Roles
        BY DEF Roles
    <2>2. host' \in [Hosts -> [role : Roles \cup {"none"}, list : SUBSET Hosts]]
        BY <1>10, <2>1, DeployedType DEF SpawnWorker
    <2>. QED
        BY <1>10, <2>2 DEF SpawnWorker, Goes
  <1>11. ASSUME NEW h \in Hosts, DeleteWorker(h) PROVE TypeOK'
      BY <1>11 DEF DeleteWorker, Goes, DeleteNodelet, Off
  <1>12. CASE WorkersDeployed
      BY <1>12 DEF WorkersDeployed, Goes
  <1>13. CASE SyncAll
      BY <1>13 DEF SyncAll, Goes
  <1>14. CASE ScaleDone
      BY <1>14 DEF ScaleDone, Returns
  <1>15. ASSUME NEW h \in Hosts, AddMemberFails(h) PROVE TypeOK'
      BY <1>15 DEF AddMemberFails, Returns
  <1>16. ASSUME NEW h \in Hosts, RemoveMemberFails(h) PROVE TypeOK'
      BY <1>16 DEF RemoveMemberFails, Returns
  <1>17. CASE SpawnMasterFails
      BY <1>17 DEF SpawnMasterFails, Goes
  <1>18. CASE DeleteMasterFails
      BY <1>18 DEF DeleteMasterFails, DeleteNodelet, Off, Returns
  <1>19. CASE SyncRemainingFails
      BY <1>19 DEF SyncRemainingFails, Goes, NextOldMaster
  <1>20. CASE ConnectFails
      BY <1>20 DEF ConnectFails, Returns
  <1>21. CASE Killed
      BY <1>21 DEF Killed, Returns
  <1>22. ASSUME NEW h \in Hosts, EtcdJoins(h) PROVE TypeOK'
      BY <1>22 DEF EtcdJoins
  <1>23. ASSUME NEW h \in Hosts, Converges(h) PROVE TypeOK'
      BY <1>23 DEF Converges
  <1>24. ASSUME NEW h \in Hosts, Degrades(h) PROVE TypeOK'
      BY <1>24 DEF Degrades
  <1>25. CASE UNCHANGED vars
      BY <1>25 DEF vars
  <1>. QED
      BY <1>1, <1>2, <1>3, <1>4, <1>5, <1>6, <1>7, <1>8, <1>9, <1>10, <1>11, <1>12, <1>13,
         <1>14, <1>15, <1>16, <1>17, <1>18, <1>19, <1>20, <1>21, <1>22, <1>23, <1>24, <1>25
         DEF Next, AddMasters, RemoveMasters, Workers, Fails, Nodes

\* Every step keeps the roles and what is known of the host at work.
LEMMA RolesStep ==
  ASSUME TypeOK, RolesInv, AtInv, [Next]_vars
  PROVE  RolesInv' /\ AtInv'
  <1>. USE DEF TypeOK, RolesInv, AtInv, Labelled, cluster, lists
  <1>1. CASE ScaleCluster
      BY <1>1, FileHosts DEF ScaleCluster
  <1>2. ASSUME NEW h \in Hosts, AddMember(h) PROVE RolesInv' /\ AtInv'
      BY <1>2 DEF AddMember, Goes
  <1>3. CASE SpawnMaster
      BY <1>3 DEF SpawnMaster, Goes, Deployed, Off
  <1>4. CASE SyncNewMaster
      BY <1>4 DEF SyncNewMaster, Goes
  <1>5. CASE MastersAdded
      BY <1>5 DEF MastersAdded, Goes
  <1>6. ASSUME NEW h \in Hosts, RemoveMember(h) PROVE RolesInv' /\ AtInv'
      BY <1>6 DEF RemoveMember, Goes
  <1>7. CASE DeleteMaster
      BY <1>7 DEF DeleteMaster, Goes, DeleteNodelet, Off
  <1>8. CASE SyncRemaining
      BY <1>8 DEF SyncRemaining, Goes, NextOldMaster
  <1>9. CASE MastersRemoved
      BY <1>9 DEF MastersRemoved, Goes
  <1>10. ASSUME NEW h \in Hosts, SpawnWorker(h) PROVE RolesInv' /\ AtInv'
      BY <1>10 DEF SpawnWorker, Goes, Deployed, Off
  <1>11. ASSUME NEW h \in Hosts, DeleteWorker(h) PROVE RolesInv' /\ AtInv'
      BY <1>11 DEF DeleteWorker, Goes, DeleteNodelet, Off
  <1>12. CASE WorkersDeployed
      BY <1>12 DEF WorkersDeployed, Goes
  <1>13. CASE SyncAll
      BY <1>13 DEF SyncAll, Goes
  <1>14. CASE ScaleDone
      BY <1>14 DEF ScaleDone, Returns
  <1>15. ASSUME NEW h \in Hosts, AddMemberFails(h) PROVE RolesInv' /\ AtInv'
      BY <1>15 DEF AddMemberFails, Returns
  <1>16. ASSUME NEW h \in Hosts, RemoveMemberFails(h) PROVE RolesInv' /\ AtInv'
      BY <1>16 DEF RemoveMemberFails, Returns
  <1>17. CASE SpawnMasterFails
      BY <1>17 DEF SpawnMasterFails, Goes
  <1>18. CASE DeleteMasterFails
      BY <1>18 DEF DeleteMasterFails, DeleteNodelet, Off, Returns
  <1>19. CASE SyncRemainingFails
      BY <1>19 DEF SyncRemainingFails, Goes, NextOldMaster
  <1>20. CASE ConnectFails
      BY <1>20 DEF ConnectFails, Returns
  <1>21. CASE Killed
      BY <1>21 DEF Killed, Returns
  <1>22. ASSUME NEW h \in Hosts, EtcdJoins(h) PROVE RolesInv' /\ AtInv'
      BY <1>22 DEF EtcdJoins
  <1>23. ASSUME NEW h \in Hosts, Converges(h) PROVE RolesInv' /\ AtInv'
      BY <1>23 DEF Converges
  <1>24. ASSUME NEW h \in Hosts, Degrades(h) PROVE RolesInv' /\ AtInv'
      BY <1>24 DEF Degrades
  <1>25. CASE UNCHANGED vars
      BY <1>25 DEF vars
  <1>. QED
      BY <1>1, <1>2, <1>3, <1>4, <1>5, <1>6, <1>7, <1>8, <1>9, <1>10, <1>11, <1>12, <1>13,
         <1>14, <1>15, <1>16, <1>17, <1>18, <1>19, <1>20, <1>21, <1>22, <1>23, <1>24, <1>25
         DEF Next, AddMasters, RemoveMasters, Workers, Fails, Nodes

\* Every step leaves the members that run a majority.
LEMMA QuorumStep ==
  ASSUME HostsKeepRoles, IInv, [Next]_vars
  PROVE  JoinedInv' /\ QuorumIsKept'
  <1>. USE DEF IInv
  <1>1. members \subseteq Hosts
      BY FileHosts DEF RolesInv
  <1>2. CASE UNCHANGED <<members, joined>>
      BY <1>2 DEF JoinedInv, QuorumIsKept, HasQuorum, Majority
  <1>3. ASSUME NEW h \in Hosts, h \notin members, DeleteNodelet(h)
        PROVE  UNCHANGED <<members, joined>>
      BY <1>3 DEF JoinedInv, DeleteNodelet
  <1>4. ASSUME NEW h \in Hosts, AddMember(h) \/ AddMemberFails(h)
        PROVE  JoinedInv' /\ QuorumIsKept'
    <2>1. CASE CanAdd(h) /\ members' = members \cup {h} /\ joined' = joined
      <3>1. QuorumIsKept'
          BY <1>1, <2>1, AddKeepsQuorum
      <3>. QED
          BY <2>1, <3>1 DEF JoinedInv
    <2>. QED
        BY <1>2, <1>4, <2>1 DEF AddMember, AddMemberFails
  <1>5. ASSUME NEW h \in Hosts, RemoveMember(h) \/ RemoveMemberFails(h)
        PROVE  JoinedInv' /\ QuorumIsKept'
    <2>1. CASE CanRemove(h) /\ members' = members \ {h} /\ joined' = joined \ {h}
      <3>1. QuorumIsKept'
          BY <2>1, RemoveKeepsQuorum
      <3>. QED
          BY <2>1, <3>1 DEF JoinedInv
    <2>. QED
        BY <1>2, <1>5, <2>1 DEF RemoveMember, RemoveMemberFails
  <1>6. CASE DeleteMaster \/ DeleteMasterFails
    <2>1. at \in Hosts /\ at \notin members
        BY <1>6 DEF AtInv, DeleteMaster, DeleteMasterFails
    <2>2. UNCHANGED <<members, joined>>
        BY <1>3, <1>6, <2>1 DEF DeleteMaster, DeleteMasterFails, cluster
    <2>. QED
        BY <1>2, <2>2
  <1>7. ASSUME NEW h \in Hosts, DeleteWorker(h)
        PROVE  JoinedInv' /\ QuorumIsKept'
    <2>1. h \notin members
        BY <1>7, RolesApart DEF DeleteWorker, RolesInv
    <2>2. UNCHANGED <<members, joined>>
        BY <1>3, <1>7, <2>1 DEF DeleteWorker
    <2>. QED
        BY <1>2, <2>2
  <1>8. ASSUME NEW h \in Hosts, EtcdJoins(h)
        PROVE  JoinedInv' /\ QuorumIsKept'
    <2>1. h \in members \ joined /\ members' = members /\ joined' = joined \cup {h}
        BY <1>8 DEF EtcdJoins
    <2>2. QuorumIsKept'
        BY <1>1, <2>1, JoinKeepsQuorum
    <2>. QED
        BY <2>1, <2>2 DEF JoinedInv
  <1>9. CASE \/ ScaleCluster \/ SpawnMaster \/ SyncNewMaster \/ MastersAdded
             \/ SyncRemaining \/ MastersRemoved \/ WorkersDeployed \/ SyncAll \/ ScaleDone
             \/ SpawnMasterFails \/ SyncRemainingFails \/ ConnectFails \/ Killed
             \/ UNCHANGED vars
    <2>1. UNCHANGED <<members, joined>>
        BY <1>9 DEF ScaleCluster, SpawnMaster, SyncNewMaster, MastersAdded, SyncRemaining,
              MastersRemoved, WorkersDeployed, SyncAll, ScaleDone, SpawnMasterFails,
              SyncRemainingFails, ConnectFails, Killed, NextOldMaster, cluster, vars
    <2>. QED
        BY <1>2, <2>1
  <1>10. ASSUME NEW h \in Hosts, SpawnWorker(h) \/ Converges(h) \/ Degrades(h)
         PROVE  JoinedInv' /\ QuorumIsKept'
      BY <1>2, <1>10 DEF SpawnWorker, Converges, Degrades
  <1>. QED
      BY <1>4, <1>5, <1>6, <1>7, <1>8, <1>9, <1>10
         DEF Next, AddMasters, RemoveMasters, Workers, Fails, Nodes

\* Every step keeps the lists in step with the file.
LEMMA ListStep ==
  ASSUME TypeOK, AtInv, ListInv, [Next]_vars
  PROVE  ListInv'
  <1>. USE DEF TypeOK, AtInv, ListInv, Labelled, cluster, lists
  <1>1. CASE ScaleCluster
      BY <1>1 DEF ScaleCluster
  <1>2. ASSUME NEW h \in Hosts, AddMember(h) PROVE ListInv'
      BY <1>2 DEF AddMember, Goes
  <1>3. CASE SpawnMaster
      BY <1>3 DEF SpawnMaster, Goes, Deployed
  <1>4. CASE SyncNewMaster
      BY <1>4 DEF SyncNewMaster, Goes
  <1>5. CASE MastersAdded
      BY <1>5 DEF MastersAdded, Goes
  <1>6. ASSUME NEW h \in Hosts, RemoveMember(h) PROVE ListInv'
      BY <1>6 DEF RemoveMember, Goes
  <1>7. CASE DeleteMaster
      BY <1>7 DEF DeleteMaster, Goes, DeleteNodelet, Off
  <1>8. CASE SyncRemaining
      BY <1>8 DEF SyncRemaining, Goes, NextOldMaster
  <1>9. CASE MastersRemoved
      BY <1>9 DEF MastersRemoved, Goes
  <1>10. ASSUME NEW h \in Hosts, SpawnWorker(h) PROVE ListInv'
      BY <1>10 DEF SpawnWorker, Goes, Deployed
  <1>11. ASSUME NEW h \in Hosts, DeleteWorker(h) PROVE ListInv'
      BY <1>11 DEF DeleteWorker, Goes, DeleteNodelet, Off
  <1>12. CASE WorkersDeployed
      BY <1>12 DEF WorkersDeployed, Goes
  <1>13. CASE SyncAll
      BY <1>13 DEF SyncAll, Goes
  <1>14. CASE ScaleDone
      BY <1>14 DEF ScaleDone, Returns
  <1>15. ASSUME NEW h \in Hosts, AddMemberFails(h) PROVE ListInv'
      BY <1>15 DEF AddMemberFails, Returns
  <1>16. ASSUME NEW h \in Hosts, RemoveMemberFails(h) PROVE ListInv'
      BY <1>16 DEF RemoveMemberFails, Returns
  <1>17. CASE SpawnMasterFails
      BY <1>17 DEF SpawnMasterFails, Goes
  <1>18. CASE DeleteMasterFails
      BY <1>18 DEF DeleteMasterFails, DeleteNodelet, Off, Returns
  <1>19. CASE SyncRemainingFails
      BY <1>19 DEF SyncRemainingFails, Goes, NextOldMaster
  <1>20. CASE ConnectFails
      BY <1>20 DEF ConnectFails, Returns
  <1>21. CASE Killed
      BY <1>21 DEF Killed, Returns
  <1>22. ASSUME NEW h \in Hosts, EtcdJoins(h) PROVE ListInv'
      BY <1>22 DEF EtcdJoins
  <1>23. ASSUME NEW h \in Hosts, Converges(h) PROVE ListInv'
      BY <1>23 DEF Converges
  <1>24. ASSUME NEW h \in Hosts, Degrades(h) PROVE ListInv'
      BY <1>24 DEF Degrades
  <1>25. CASE UNCHANGED vars
      BY <1>25 DEF vars
  <1>. QED
      BY <1>1, <1>2, <1>3, <1>4, <1>5, <1>6, <1>7, <1>8, <1>9, <1>10, <1>11,
         <1>12, <1>13, <1>14, <1>15, <1>16, <1>17, <1>18, <1>19, <1>20, <1>21,
         <1>22, <1>23, <1>24, <1>25 DEF Next, AddMasters, RemoveMasters, Workers,
         Fails, Nodes


\* Every step leaves the healthy nodes deployed and labelled.
LEMMA OkStep ==
  ASSUME TypeOK, AtInv, OkInv, [Next]_vars
  PROVE  OkInv'
  <1>. USE DEF TypeOK, AtInv, OkInv, Off, cluster, lists
  <1>1. CASE ScaleCluster
      BY <1>1 DEF ScaleCluster
  <1>2. ASSUME NEW h \in Hosts, AddMember(h) PROVE OkInv'
      BY <1>2 DEF AddMember, Goes
  <1>3. CASE SpawnMaster
      BY <1>3 DEF SpawnMaster, Goes, Deployed
  <1>4. CASE SyncNewMaster
      BY <1>4 DEF SyncNewMaster, Goes
  <1>5. CASE MastersAdded
      BY <1>5 DEF MastersAdded, Goes
  <1>6. ASSUME NEW h \in Hosts, RemoveMember(h) PROVE OkInv'
      BY <1>6 DEF RemoveMember, Goes
  <1>7. CASE DeleteMaster
      BY <1>7 DEF DeleteMaster, Goes, DeleteNodelet, Off
  <1>8. CASE SyncRemaining
      BY <1>8 DEF SyncRemaining, Goes, NextOldMaster
  <1>9. CASE MastersRemoved
      BY <1>9 DEF MastersRemoved, Goes
  <1>10. ASSUME NEW h \in Hosts, SpawnWorker(h) PROVE OkInv'
      BY <1>10 DEF SpawnWorker, Goes, Deployed
  <1>11. ASSUME NEW h \in Hosts, DeleteWorker(h) PROVE OkInv'
      BY <1>11 DEF DeleteWorker, Goes, DeleteNodelet, Off
  <1>12. CASE WorkersDeployed
      BY <1>12 DEF WorkersDeployed, Goes
  <1>13. CASE SyncAll
      BY <1>13 DEF SyncAll, Goes
  <1>14. CASE ScaleDone
      BY <1>14 DEF ScaleDone, Returns
  <1>15. ASSUME NEW h \in Hosts, AddMemberFails(h) PROVE OkInv'
      BY <1>15 DEF AddMemberFails, Returns
  <1>16. ASSUME NEW h \in Hosts, RemoveMemberFails(h) PROVE OkInv'
      BY <1>16 DEF RemoveMemberFails, Returns
  <1>17. CASE SpawnMasterFails
      BY <1>17 DEF SpawnMasterFails, Goes
  <1>18. CASE DeleteMasterFails
      BY <1>18 DEF DeleteMasterFails, DeleteNodelet, Off, Returns
  <1>19. CASE SyncRemainingFails
      BY <1>19 DEF SyncRemainingFails, Goes, NextOldMaster
  <1>20. CASE ConnectFails
      BY <1>20 DEF ConnectFails, Returns
  <1>21. CASE Killed
      BY <1>21 DEF Killed, Returns
  <1>22. ASSUME NEW h \in Hosts, EtcdJoins(h) PROVE OkInv'
      BY <1>22 DEF EtcdJoins
  <1>23. ASSUME NEW h \in Hosts, Converges(h) PROVE OkInv'
      BY <1>23 DEF Converges
  <1>24. ASSUME NEW h \in Hosts, Degrades(h) PROVE OkInv'
      BY <1>24 DEF Degrades
  <1>25. CASE UNCHANGED vars
      BY <1>25 DEF vars
  <1>. QED
      BY <1>1, <1>2, <1>3, <1>4, <1>5, <1>6, <1>7, <1>8, <1>9, <1>10, <1>11,
         <1>12, <1>13, <1>14, <1>15, <1>16, <1>17, <1>18, <1>19, <1>20, <1>21,
         <1>22, <1>23, <1>24, <1>25 DEF Next, AddMasters, RemoveMasters, Workers,
         Fails, Nodes


\* Every step of an operation in which nothing fails leads to the state of the file.
LEMMA CleanStep ==
  ASSUME HostsKeepRoles, TypeOK, RolesInv, AtInv, JoinedInv, SuccInv, [Next]_vars
  PROVE  CleanInv'
  <1>. USE DEF TypeOK, RolesInv, AtInv, JoinedInv, SuccInv, ListInv, OkInv, CleanInv, Synced,
             Labelled, cluster, lists
  <1>1. CASE ScaleCluster
      BY <1>1 DEF ScaleCluster
  <1>2. ASSUME NEW h \in Hosts, AddMember(h) PROVE CleanInv'
      BY <1>2 DEF AddMember, Goes
  <1>3. CASE SpawnMaster
      BY <1>3 DEF SpawnMaster, Goes, Deployed
  <1>4. CASE SyncNewMaster
    <2>1. at \in MastersOf \cap ok /\ host[at].role # "worker"
        BY <1>4, RolesApart DEF SyncNewMaster
    <2>2. host[at].role = "master" /\ "master" \in label[at]
        BY <2>1 DEF Roles
    <2>. QED
        BY <1>4, <2>2 DEF SyncNewMaster, Goes
  <1>5. CASE MastersAdded
      BY <1>5 DEF MastersAdded, Goes
  <1>6. ASSUME NEW h \in Hosts, RemoveMember(h) PROVE CleanInv'
      BY <1>6 DEF RemoveMember, Goes
  <1>7. CASE DeleteMaster
      BY <1>7 DEF DeleteMaster, Goes, DeleteNodelet, Off
  <1>8. CASE SyncRemaining
      BY <1>8 DEF SyncRemaining, Goes, NextOldMaster
  <1>9. CASE MastersRemoved
      BY <1>9 DEF MastersRemoved, Goes
  <1>10. ASSUME NEW h \in Hosts, SpawnWorker(h) PROVE CleanInv'
    <2>1. \A g \in ok : host'[g] = host[g]
        BY <1>10 DEF SpawnWorker, Deployed
    <2>2. /\ pc = "deploy" /\ pc' = "deploy"
          /\ UNCHANGED <<members, joined, label, ok, file, oldM>>
          /\ clean' => clean
        BY <1>10 DEF SpawnWorker, Goes
    <2>. QED
        BY <2>1, <2>2
  <1>11. ASSUME NEW h \in Hosts, DeleteWorker(h) PROVE CleanInv'
      BY <1>11, RolesApart DEF DeleteWorker, Goes, DeleteNodelet, Off
  <1>12. CASE WorkersDeployed
      BY <1>12 DEF WorkersDeployed, Goes
  <1>13. CASE SyncAll
    <2>1. \A h \in file.masters : h \in Hosts /\ h \in ok /\ host[h].role # "worker"
        BY <1>13, RolesApart, FileHosts DEF SyncAll
    <2>2. \A h \in file.masters : host[h].role = "master"
        BY <2>1 DEF Roles
    <2>3. clean => file.masters \subseteq joined
        BY <1>13, <2>1, <2>2 DEF SyncAll
    <2>. QED
        BY <1>13, <2>3 DEF SyncAll, Goes
  <1>14. CASE ScaleDone
      BY <1>14 DEF ScaleDone, Returns
  <1>15. ASSUME NEW h \in Hosts, AddMemberFails(h) PROVE CleanInv'
      BY <1>15 DEF AddMemberFails, Returns
  <1>16. ASSUME NEW h \in Hosts, RemoveMemberFails(h) PROVE CleanInv'
      BY <1>16 DEF RemoveMemberFails, Returns
  <1>17. CASE SpawnMasterFails
      BY <1>17 DEF SpawnMasterFails, Goes
  <1>18. CASE DeleteMasterFails
      BY <1>18 DEF DeleteMasterFails, DeleteNodelet, Off, Returns
  <1>19. CASE SyncRemainingFails
      BY <1>19 DEF SyncRemainingFails, Goes, NextOldMaster
  <1>20. CASE ConnectFails
      BY <1>20 DEF ConnectFails, Returns
  <1>21. CASE Killed
      BY <1>21 DEF Killed, Returns
  <1>22. ASSUME NEW h \in Hosts, EtcdJoins(h) PROVE CleanInv'
      BY <1>22 DEF EtcdJoins
  <1>23. ASSUME NEW h \in Hosts, Converges(h) PROVE CleanInv'
      BY <1>23 DEF Converges
  <1>24. ASSUME NEW h \in Hosts, Degrades(h) PROVE CleanInv'
      BY <1>24 DEF Degrades
  <1>25. CASE UNCHANGED vars
      BY <1>25 DEF vars
  <1>. QED
      BY <1>1, <1>2, <1>3, <1>4, <1>5, <1>6, <1>7, <1>8, <1>9, <1>10, <1>11,
         <1>12, <1>13, <1>14, <1>15, <1>16, <1>17, <1>18, <1>19, <1>20, <1>21,
         <1>22, <1>23, <1>24, <1>25 DEF Next, AddMasters, RemoveMasters, Workers,
         Fails, Nodes


\* A cluster as created satisfies the invariant.
LEMMA InitInv ==
  ASSUME HostsKeepRoles, Init
  PROVE  IInv
  <1>1. TypeOK
    <2>1. label \in [Hosts -> SUBSET Roles]
        BY DEF Init, Roles
    <2>2. host \in [Hosts -> [role : Roles \cup {"none"}, list : SUBSET Hosts]]
        BY FileHosts DEF Init, Roles, Off
    <2>. QED
        BY <2>1, <2>2, FileHosts DEF Init, TypeOK
  <1>2. RolesInv /\ AtInv /\ JoinedInv
      BY FileHosts DEF Init, RolesInv, AtInv, JoinedInv, Labelled, Off
  <1>4. SuccInv
      BY FileHosts, FilesAssumption
         DEF Init, SuccInv, ListInv, OkInv, CleanInv, Synced, Off
  <1>3. QuorumIsKept
    <2>1. /\ joined \cap members = members
          /\ Cardinality(members) \in Nat /\ Cardinality(members) % 2 = 1
        BY FileHosts, FilesAssumption, HostSets DEF Init
    <2>2. 2 * Cardinality(members) > Cardinality(members)
        BY <2>1
    <2>. QED
        BY <2>1, <2>2 DEF QuorumIsKept, HasQuorum, Majority
  <1>. QED
      BY <1>1, <1>2, <1>3, <1>4 DEF IInv

\* The inductive invariant holds in every reachable state.
THEOREM Invariance ==
  ASSUME HostsKeepRoles
  PROVE  Spec => []IInv
  <1>1. Init => IInv
      BY InitInv
  <1>2. IInv /\ [Next]_vars => IInv'
      BY TypeStep, RolesStep, QuorumStep, ListStep, OkStep, CleanStep DEF IInv, SuccInv
  <1>. QED
      BY <1>1, <1>2, PTL DEF Spec

\* Whatever fails, times out or is killed, and whatever files the operations are
\* repeated with, the etcd members that run stay a majority.
THEOREM KeepsQuorum ==
  ASSUME HostsKeepRoles
  PROVE  Spec => []QuorumIsKept
  <1>1. IInv => QuorumIsKept
      BY DEF IInv
  <1>. QED
      BY <1>1, Invariance, PTL

\* Every variable has its type in every reachable state.
THEOREM TypeCorrect ==
  ASSUME HostsKeepRoles
  PROVE  Spec => []TypeOK
  <1>1. IInv => TypeOK
      BY DEF IInv
  <1>. QED
      BY <1>1, Invariance, PTL

\* When no call ever failed and ScaleCluster returns without an error, etcd has
\* exactly the masters of the file and every node of the file is healthy.
THEOREM ReachesTheFile ==
  ASSUME HostsKeepRoles
  PROVE  Spec => []SuccessIsTrue
  <1>1. IInv => SuccessIsTrue
      BY DEF IInv, JoinedInv, SuccInv, CleanInv, Synced, SuccessIsTrue
  <1>. QED
      BY <1>1, Invariance, PTL

\* No step of an operation, or of the hosts, erases nodelet from an etcd member.
THEOREM ErasesNoMember ==
  ASSUME HostsKeepRoles
  PROVE  Spec => MembersAreNotErased
  <1>1. ASSUME IInv, [Next]_vars, NEW g \in Hosts,
               host[g].role # "none", host'[g].role = "none"
        PROVE  g \notin members
    <2>. USE <1>1 DEF IInv
    <2>1. CASE DeleteMaster \/ DeleteMasterFails
        BY <2>1 DEF TypeOK, AtInv, DeleteMaster, DeleteMasterFails, DeleteNodelet, Off, cluster
    <2>2. ASSUME NEW h \in Hosts, DeleteWorker(h) PROVE g \notin members
        BY <2>2, RolesApart DEF TypeOK, RolesInv, DeleteWorker, DeleteNodelet, Off
    <2>3. CASE SpawnMaster
        BY <2>3 DEF TypeOK, SpawnMaster, Deployed
    <2>4. ASSUME NEW h \in Hosts, SpawnWorker(h) PROVE g \notin members
        BY <2>4 DEF TypeOK, SpawnWorker, Deployed
    <2>5. CASE host' = host
        BY <2>5
    <2>6. host' = host \/ DeleteMaster \/ DeleteMasterFails \/ SpawnMaster
          \/ \E h \in Hosts : DeleteWorker(h) \/ SpawnWorker(h)
        BY DEF Next, AddMasters, RemoveMasters, Workers, Fails, Nodes, ScaleCluster, AddMember,
              SyncNewMaster, MastersAdded, RemoveMember, SyncRemaining, MastersRemoved,
              WorkersDeployed, SyncAll, ScaleDone, AddMemberFails, RemoveMemberFails,
              SpawnMasterFails, SyncRemainingFails, ConnectFails, Killed, NextOldMaster,
              EtcdJoins, Converges, Degrades, cluster, vars
    <2>. QED
        BY <2>1, <2>2, <2>3, <2>4, <2>5, <2>6
  <1>2. IInv /\ [Next]_vars
        => [\A h \in Hosts : host[h].role # "none" /\ host'[h].role = "none"
                                => h \notin members]_vars
      BY <1>1
  <1>. QED
      BY <1>2, Invariance, PTL DEF Spec, MembersAreNotErased
=============================================================================
