---- MODULE MCLocalShell ----
(***************************************************************************)
(* Sessions of LocalShell for TLC: every short line for the parser, alone  *)
(* or as a list, and scripts for the loops.                                *)
(***************************************************************************)
EXTENDS LocalShell

\* An ordinary command, exit, cd, rc, dragon, one that reads, one not there.
MCLetters == {"a", "x", "c", "q", "g", "r", "n"}
Exits == <<"x">>
Cd == <<"c">>
Rc == <<"q">>
Dragon == <<"g">>
Reads == <<"r">>
NotThere == {<<>>, <<"n">>, <<"q">>}

LinesOver(S, n) == UNION {[1..k -> S] : k \in 0..n}

\* More commands, and more arguments, than the arrays hold.
LongLines == {<<"a", "|", "a", "|", "a", "|", "a">>, <<"a", " ", "a", " ", "a", " ", "a">>,
              <<"a", "|", " ", "|", "a">>, <<"a", " ", "a", "\"", "|", "a", "'">>}

Session(p, in, out, s) == [part |-> p, stdin |-> in, stdout |-> out, script |-> s]

ParserSessions ==
    {Session("P1", "tty", "tty", <<l>>) :
       l \in LinesOver({"a", Blank, PIPE_CHAR, "\""}, 6) \cup LinesOver({"a", " ", "\"", "'"}, 5) \cup LongLines}
    \cup {Session("P2", "tty", "tty", <<l>>) : l \in LinesOver({"a", Blank, "\"", "'"}, 4) \cup LongLines}

Inputs  == {"tty", "pipe", "file"}
Outputs == {"tty", "file"}

\* Scripts whose lines are of one length.
Scripts1 == {<<"a">>, <<"x">>, <<"c">>, <<"g">>, <<"n">>, <<"r">>}
Scripts3 == {<<"n", "|", "a">>, <<"x", "|", "a">>, <<"a", "|", "n">>, <<"r", "|", "a">>, <<"c", " ", "a">>, <<"q", " ", "a">>}
Args7    == <<"a", " ", "a", " ", "a", " ", "a">>
List7    == <<"a", " ", "|", "a", "|", "r", " ">>
Blank7   == [i \in 1..7 |-> Blank]

LoopScripts ==
    {<<l, m>> : l, m \in Scripts1} \cup {<<l, m>> : l, m \in Scripts3}
    \cup {<<Args7, List7, Args7>>, <<List7, Blank7, List7>>, <<Blank7, Args7, Blank7>>}
    \cup {<<<<"n">>, <<"a">>, <<"a">>>>, <<<<"g">>, <<"n">>, <<"a">>>>}

LoopSessions ==
    {Session(p, in, out, s) : p \in {"P3", "P4"}, in \in Inputs, out \in Outputs, s \in LoopScripts}
    \cup {Session("P2", in, out, s) : in \in Inputs, out \in Outputs,
            s \in {<<l, m, <<"q">>>> : l, m \in {<<"a">>, <<"c">>, <<"n">>, <<"r">>, <<" ">>}}}
    \cup {Session("P2", "pipe", "tty", <<<<"c", " ", "a">>, <<"x", " ", "a">>>>)}
    \cup {Session("P1", in, "file", <<l, m>>) : in \in Inputs, l, m \in {<<"a">>, <<"x">>, <<" ">>}}

MCSessions == ParserSessions \cup LoopSessions

\* Too many arguments, as a list and as P2's one command, and a line after it.
TooMany == {Session(p, "tty", "tty", <<Args7, List7>>) : p \in {"P1", "P2", "P3", "P4"}}
====
