---- MODULE MCPipeline ----
(* Instances of Pipeline for TLC. *)
EXTENDS Pipeline

CONSTANTS d1, d2, h

TwoUnits == <<d1, d2>>

\* The shell's output is a terminal, or a file to which it owes a line.
EmptyOrLine == {<<>>, <<h>>}
Terminal    == {<<>>}
====
