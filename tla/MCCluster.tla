----------------------------- MODULE MCCluster ------------------------------
(* Clusters of three masters, and of a master and a worker. *)
EXTENDS Cluster

ThreeMasters == <<"m1", "m2", "m3">>
OneMaster == <<"m1">>
OneWorker == <<"w1">>
NoWorkers == <<>>
=============================================================================
