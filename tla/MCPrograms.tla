---- MODULE MCPrograms ----
(***************************************************************************)
(* Calls of Programs for TLC: every small file under the flags of          *)
(* minigrep, lists of files for wordcount, lists of options for dsh.       *)
(***************************************************************************)
EXTENDS Programs

MCtolower(c) == IF c = "A" THEN "a" ELSE c
MCatoi(w) == CASE w = <<"8", "0">> -> 80
               [] w = <<"9">>      -> 9
               [] OTHER            -> 0

WordsOver(S, n) == UNION {[1..k -> S] : k \in 0..n}
Call(p, a, f) == [program |-> p, args |-> a, files |-> f]

MCChars == {"a", "A", "f", "g", "h", "i", "n", "c", "v", "x", "l", "w", "s", "p", "?", "-",
            "1", "2", "3", "4", "8", "9", Newline, Space, Nul}

Name == <<"f">>
One(t) == [f \in {Name} |-> t]

GrepTexts == WordsOver({"a", "A", Newline}, 4)
             \cup {<<"a", Nul, "A", Newline, "a">>, <<"a", "a", "a", "a", "A", "a", Newline, "a">>}
Patterns  == {<<>>, <<"a">>, <<"a", "A">>, <<"a", Newline>>}
FlagWords == {<<"-">>, <<"-", "n">>, <<"-", "i">>, <<"-", "v">>, <<"-", "i", "n", "v">>, <<"-", "i", "c">>, <<"-", "c", "v">>}
GrepCalls ==
    {Call("minigrep", <<p, Name>>, One(t)) : p \in Patterns, t \in GrepTexts}
    \cup {Call("minigrep", <<w, p, Name>>, One(t)) : w \in FlagWords, p \in Patterns, t \in GrepTexts}
    \cup {Call("minigrep", a, One(<<"a">>)) :
            a \in {<<>>, <<<<"-", "h">>>>, <<<<"-", "n", "h">>, <<"a">>, Name>>, <<<<"-", "x">>>>, <<<<"-", "n">>, <<"a">>>>,
                   <<<<"a">>>>, <<<<"a">>, <<"g">>>>}}

CountTexts == WordsOver({"a", Space, Newline}, 4)
Two(t, u)  == [f \in {Name, <<"g">>, StdIn} |-> IF f = Name THEN t ELSE u]
L == <<"-", "l">>
W == <<"-", "w">>
CountCalls ==
    {Call("wordcount", a, Two(t, t)) : a \in {<<>>, <<L>>, <<W, L>>, <<Name>>, <<W, Name>>}, t \in CountTexts}
    \cup {Call("wordcount", a, Two(t, u)) :
            a \in {<<Name, <<"g">>>>, <<L, Name, <<"g">>, Name>>, <<Name, <<"h">>, <<"g">>>>, <<Name, L>>},
            t, u \in WordsOver({"a", Space, Newline}, 2)}
    \cup {Call("wordcount", a, Two(<<"a">>, <<"a">>)) : a \in {<<L, <<"-", "x">>, Name>>, <<<<"-">>>>}}

Options   == {<<"c">>, <<"s">>, <<"x">>, <<"?">>, <<"i", "1", "2", "3", "4">>, <<"p", "9">>, <<"p", "a">>}
Others    == {<<"h">>, <<"i", "8">>, <<"p", "8", "0">>}
ModeCalls == {Call("dsh", a, One(<<>>)) :
                a \in WordsOver(Options, 4) \cup {<<<<"s">>>> \o w : w \in WordsOver(Others \cup {<<"p", "9">>, <<"x">>}, 2)}}

MCCalls == GrepCalls \cup CountCalls \cup ModeCalls

\* One file under each flag.
UnreadCalls == {Call("minigrep", a, One(<<"A", Newline, "a">>)) :
                  a \in {<<<<"a">>, Name>>} \cup {<<<<"-", o>>, <<"a">>, Name>> : o \in {"n", "i", "c", "v"}}}
====
