---- MODULE MCRShell ----
(* Instances of RShell for TLC. *)
EXTENDS RShell

\* Every kind of line.
AllLines == LineKinds
\* One line of most ways the server can go with it, and a command that reads its input.
FewLinesAndReader == {"exit", "stop-server", "run", "rc", "reader"}
OneCommand == {"run"}
\* Output that holds no marker, and output that does.
PlainOutput  == {"text"}
AnyOutput    == {"text", "eot"}
SomeCodes    == {0, 1, -53}
====
