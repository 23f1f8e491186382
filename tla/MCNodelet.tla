------------------------------ MODULE MCNodelet ------------------------------
(* Instances of Nodelet for TLC: a worker that may also be told to stop, to      *)
(* leave the cluster (role none), to join another one, or to run with a          *)
(* configuration one of its phases cannot start with.                            *)
EXTENDS Nodelet

Worker(svc, id) == [svc |-> svc, id |-> id, role |-> "worker", bad |-> {}]
Misconfigured(i) == [Worker("true", "c1") EXCEPT !.bad = {i}]
Detached == [svc |-> "false", id |-> "", role |-> "none", bad |-> {}]

AllConfigs == {Worker("true", "c1"), Worker("false", "c1"), Detached,
               Worker("true", "c2"), Worker("ignore", "c1")}
Changing == {Worker("true", "c1"), Worker("true", "c2"), Detached, Misconfigured(1)}
=============================================================================
