------------------------------ MODULE MCScale -------------------------------
(* Cluster files for TLC. *)
EXTENDS Scale

File(m, w) == [masters |-> m, workers |-> w]

One == File({"m1"}, {"w1"})
Three == File({"m1", "m2", "m3"}, {"w1"})
Five == File({"m1", "m2", "m3", "m4", "m5"}, {})

\* Masters are added, removed and replaced, a worker comes and goes.  Every
\* host keeps its role: a worker that is made a master is also one of the old
\* workers, which ScaleCluster erases last.
Sizes == {One, Three, Five, File({"m1", "m2", "m4"}, {})}

\* Growing and shrinking only.
UpAndDown == {One, Three}
=============================================================================
