---- MODULE MCStudentDB ----
(* Instances of StudentDB for TLC. *)
EXTENDS StudentDB, TLC

AnyId    == {-1, 0, 1, 2, 3}     \* with MaxId = 2
GoodIds  == 1..MaxId

\* Processes are alike.
Alike == Permutations(Procs)
====
