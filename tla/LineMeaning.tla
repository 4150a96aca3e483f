---- MODULE LineMeaning ----
(***************************************************************************)
(* What a command line means, said of the whole line at once: which quote  *)
(* is open behind each character, which word it belongs to, what words and *)
(* parts are made of.  CmdLine's parser is compared with it.               *)
(***************************************************************************)
EXTENDS CmdLine, SequencesExt

NoQuote == "none"

\* The numbers of a set, in their order.
Rank(S, m) == Cardinality({k \in S : k <= m})
Nth(S, n)  == CHOOSE m \in S : Rank(S, m) = n

\* The quote that is open after the first i characters of s.
OpenQuote(s) ==
    LET open[i \in 0..Len(s)] ==
          IF i = 0 THEN NoQuote
          ELSE IF open[i - 1] = NoQuote
          THEN IF s[i] \in Quotes THEN s[i] ELSE NoQuote
          ELSE IF s[i] = open[i - 1] THEN NoQuote ELSE open[i - 1]
    IN open

\* Where the word begins that the i-th character of s is in, or 0: a word
\* begins after an unquoted blank, and behind a quote that was a word.
WordOf(s) ==
    LET open    == OpenQuote(s)
        Bare(i) == open[i - 1] = NoQuote
        of[i \in 0..Len(s)] ==
          IF i = 0 THEN 0
          ELSE IF Bare(i) /\ s[i] = Blank THEN 0
          ELSE IF of[i - 1] = 0 \/ (Bare(i) /\ s[of[i - 1]] \in Quotes) THEN i
          ELSE of[i - 1]
    IN of

\* Those that are neither bare blanks nor quotes around others.
Inked(s) ==
    LET open == OpenQuote(s)
    IN {i \in 1..Len(s) : IF open[i - 1] = NoQuote THEN s[i] \notin Quotes \cup {Blank}
                                                   ELSE s[i] # open[i - 1]}

\* The words of s, as far as its first n characters go.
WordsTo(s, n) ==
    LET of      == WordOf(s)
        ink     == Inked(s)
        begins  == {i \in 1..n : of[i] = i}
        Text(b) == {i \in 1..n : of[i] = b /\ i \in ink}
    IN [k \in 1..Cardinality(begins) |->
          [j \in 1..Cardinality(Text(Nth(begins, k))) |-> s[Nth(Text(Nth(begins, k)), j)]]]

Words(s) == WordsTo(s, Len(s))

Trimmed(s) ==
    LET ink == {i \in DOMAIN s : s[i] # Blank}
    IN IF ink = {} THEN <<>> ELSE SubSeq(s, Min(ink), Max(ink))

\* The parts of s between its pipes, those with nothing in them left out.
Begins(s)    == {i \in DOMAIN s : s[i] # PIPE_CHAR /\ (i = 1 \/ s[i - 1] = PIPE_CHAR)}
PartAt(s, i) == SubSeq(s, i, Max({j \in i..Len(s) : \A k \in i..j : s[k] # PIPE_CHAR}))
Parts(s)     == [n \in 1..Cardinality(Begins(s)) |-> PartAt(s, Nth(Begins(s), n))]

Verdict(s) ==
    IF Trimmed(s) = <<>> THEN WARN_NO_CMDS
    ELSE IF Len(Words(Trimmed(s))) >= CMD_ARGV_MAX THEN ERR_CMD_OR_ARGS_TOO_BIG ELSE OK

\* What the parser is to return for l, as a list of commands or as one.
Meaning(l, alone) ==
    LET s     == Trimmed(l)
        parts == IF alone THEN <<s>> ELSE Parts(s)
        bad   == {n \in DOMAIN parts : Verdict(parts[n]) # OK}
        No(r) == [rc |-> r, commands |-> <<>>]
        pipes == Cardinality({i \in DOMAIN s : s[i] = PIPE_CHAR})
    IN IF s = <<>> THEN No(WARN_NO_CMDS)
       ELSE IF ~alone /\ pipes >= CMD_MAX THEN No(ERR_TOO_MANY_COMMANDS)
       ELSE IF parts = <<>> THEN No(WARN_NO_CMDS)
       ELSE IF bad # {} THEN No(Verdict(parts[Min(bad)]))
       ELSE [rc |-> OK, commands |-> [n \in DOMAIN parts |-> Words(Trimmed(parts[n]))]]
====
