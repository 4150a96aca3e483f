---- MODULE CmdLineProofs ----
(***************************************************************************)
(* Proofs about CmdLine, for every line and every size of the arrays.      *)
(* CopyInv is the argument that nothing is written behind a command's      *)
(* buffer: what is written never gets ahead of what is read, but for the   *)
(* one terminator whose blank, or whose end of line, is still to be read.  *)
(* MeaningInv is the argument that the parser returns what LineMeaning     *)
(* says of the line: argv is always the words of what has been read of the *)
(* command, and commands those of the parts behind it.                     *)
(***************************************************************************)
EXTENDS LineMeaning, FiniteSetTheorems, SequenceTheorems, WellFoundedInduction, TLAPS

Copying == {"gap", "quoted", "word", "inner"}

CopyInv ==
    /\ at = "line" => commands = <<>>
    /\ at \in Copying => from <= to /\ (~single => last <= Len(line))
    /\ at = "gap" => dst <= src - from + 1 /\ (Left /\ Here # Blank => dst <= src - from)
    /\ at = "word" => dst <= src - from
    /\ at \in {"quoted", "inner"} => dst <= src - from - 1
    /\ at \in {"word", "quoted", "inner"} => argv # <<>>
    /\ at \in Copying => Len(commands) < CMD_MAX

Inv == ParserTypes /\ CopyInv /\ FitsBuffer /\ FitsArrays

LEMMA InvInit == ParserInit => Inv
<1> SUFFICES ASSUME ParserInit PROVE Inv
  OBVIOUS
<1> USE DEF ParserInit
<1>1. Len(line) \in Nat
  BY DEF Lines
<1>2. ParserTypes
  BY <1>1 DEF ParserTypes, PositionTypes
<1>3. CopyInv
  BY DEF CopyInv, Copying
<1>4. FitsBuffer /\ FitsArrays
  BY CmdLineAssumption DEF FitsBuffer, FitsArrays, CMD_ARGV_MAX
<1> QED
  BY <1>2, <1>3, <1>4 DEF Inv

\* A line that is refused leaves no command, and every bound as it was.
LEMMA RejectNext ==
  ASSUME Inv, NEW r \in {OK, WARN_NO_CMDS, ERR_TOO_MANY_COMMANDS, ERR_CMD_OR_ARGS_TOO_BIG, ERR_MEMORY},
         Reject(r), UNCHANGED <<line, single, position, dst, quote, argv>>
  PROVE  Inv'
<1>1. ParserTypes'
  BY DEF Inv, ParserTypes, PositionTypes, Reject, position
<1>2. CopyInv'
  BY DEF CopyInv, Copying, Reject
<1>3. FitsBuffer' /\ FitsArrays'
  BY CmdLineAssumption DEF Inv, FitsBuffer, FitsArrays, Reject
<1> QED
  BY <1>1, <1>2, <1>3 DEF Inv

\* A command's buffer is begun empty.
LEMMA StartNext ==
  ASSUME Inv, NEW a \in 1..Len(line), NEW b \in 1..Len(line), a <= b, StartBuff(a, b),
         Len(commands) < CMD_MAX, cut' \in Nat \ {0}, heap' \in Int, single \/ last <= Len(line),
         UNCHANGED <<line, single, last, quote, commands, rc>>
  PROVE  Inv'
<1>1. ParserTypes'
  BY DEF Inv, ParserTypes, PositionTypes, StartBuff, Lines
<1>2. CopyInv' /\ FitsBuffer' /\ FitsArrays'
  BY CmdLineAssumption
  DEF Inv, CopyInv, Copying, FitsBuffer, FitsArrays, StartBuff, CMD_ARGV_MAX, ParserTypes, PositionTypes
<1> QED
  BY <1>1, <1>2 DEF Inv

\* A character is read and copied, within a word.
LEMMA CopyNext ==
  ASSUME Inv, at \in {"quoted", "word", "inner"}, Left, Copy,
         UNCHANGED <<line, single, at, cut, last, from, to, quote, commands, heap, rc>>
  PROVE  Inv'
<1> USE DEF Inv, ParserTypes, PositionTypes, Left, Copy, Read
<1>1. line[src] \in Chars
  BY DEF Lines
<1>2. Len(argv) \in DOMAIN argv /\ argv[Len(argv)] \in Seq(Chars)
  BY DEF CopyInv
<1>3. argv' \in Seq(Seq(Chars)) /\ Len(argv') = Len(argv)
  <2>1. Append(argv[Len(argv)], Here) \in Seq(Chars)
    BY <1>1, <1>2 DEF Here
  <2> QED
    BY <1>2, <2>1
<1>4. ParserTypes'
  BY <1>3
<1>5. dst <= src - from
  BY DEF CopyInv
<1>6. dst' <= BuffSize
  BY <1>5, CmdLineAssumption DEF Lines
<1>7. CopyInv'
  BY <1>3 DEF CopyInv, Copying
<1> QED
  BY <1>3, <1>4, <1>6, <1>7 DEF FitsBuffer, FitsArrays

----
LEMMA TrimLineNext == Inv /\ TrimLine => Inv'
<1> SUFFICES ASSUME Inv, TrimLine PROVE Inv'
  OBVIOUS
<1>1. CASE \E r \in {WARN_NO_CMDS, ERR_TOO_MANY_COMMANDS} :
             Reject(r) /\ UNCHANGED <<line, single, position, dst, quote, argv>>
  BY <1>1, RejectNext
<1>2. ASSUME NEW a \in 1..Len(line), NEW b \in 1..Len(line), Trims(1, Len(line), a, b),
             single, StartBuff(a, b), UNCHANGED <<line, single, quote, cut, last, commands, heap, rc>>
      PROVE  Inv'
  <2>1. Len(commands) < CMD_MAX
    BY CmdLineAssumption, TrimLine DEF TrimLine, Inv, CopyInv
  <2> QED
    BY <1>2, <2>1, StartNext DEF Trims, Inv, ParserTypes, PositionTypes
<1>3. ASSUME NEW a \in 1..Len(line), NEW b \in 1..Len(line),
             at' = "list", cut' = a, last' = b,
             UNCHANGED <<line, single, quote, from, to, src, dst, argv, commands, heap, rc>>
      PROVE  Inv'
  BY <1>3 DEF Inv, ParserTypes, PositionTypes, CopyInv, Copying, FitsBuffer, FitsArrays
<1> QED
  BY <1>1, <1>2, <1>3 DEF TrimLine

LEMMA NextSegmentNext == Inv /\ NextSegment => Inv'
<1> SUFFICES ASSUME Inv, NextSegment PROVE Inv'
  OBVIOUS
<1>1. CASE \E r \in {WARN_NO_CMDS, ERR_TOO_MANY_COMMANDS, ERR_MEMORY} :
             Reject(r) /\ UNCHANGED <<line, single, position, dst, quote, argv>>
  BY <1>1, RejectNext
<1>0. at = "list" /\ last \in 0..Len(line) /\ cut \in Nat \ {0} /\ heap \in Int
  BY DEF NextSegment, Inv, ParserTypes, PositionTypes, Lines
<1>2. ASSUME NEW a \in cut..last, NEW b \in cut..last, NEW c \in a..b, NEW d \in a..b,
             Trims(a, b, c, d), Len(commands) < CMD_MAX, StartBuff(c, d),
             heap' = heap + 1, cut' = b + 2, UNCHANGED <<line, single, quote, last, commands, rc>>
      PROVE  Inv'
  <2>1. c \in 1..Len(line) /\ d \in 1..Len(line) /\ c <= d
    BY <1>0, <1>2 DEF Trims
  <2>2. cut' \in Nat \ {0} /\ heap' \in Int
    BY <1>0, <1>2
  <2> QED
    BY <1>0, <1>2, <2>1, <2>2, StartNext
<1>3. Len(commands) \in Nat /\ CMD_MAX \in Nat
  BY CmdLineAssumption DEF Inv, ParserTypes
<1> QED
  BY <1>1, <1>2, <1>3 DEF NextSegment

LEMMA NoMoreSegmentsNext == Inv /\ NoMoreSegments => Inv'
<1> SUFFICES ASSUME Inv, NoMoreSegments PROVE Inv'
  OBVIOUS
<1>1. CASE commands = <<>>
  BY <1>1, RejectNext DEF NoMoreSegments
<1>2. CASE commands # <<>>
  BY <1>2 DEF NoMoreSegments, Inv, ParserTypes, PositionTypes, position, CopyInv, Copying, FitsBuffer, FitsArrays
<1> QED
  BY <1>1, <1>2

----
\* Every step of build_cmd_buff leaves the line and the list's position alone.
Framed == UNCHANGED <<line, single, cut, last, from, to>>

LEMMA SkipBlankNext == Inv /\ SkipBlank /\ Framed => Inv'
<1> SUFFICES ASSUME Inv, SkipBlank, Framed PROVE Inv'
  OBVIOUS
<1> USE DEF Framed, SkipBlank, Inv, ParserTypes, PositionTypes, Left, Read
<1>1. ParserTypes' /\ FitsBuffer' /\ FitsArrays'
  BY DEF FitsBuffer, FitsArrays
<1>2. CopyInv'
  BY DEF CopyInv, Copying
<1> QED
  BY <1>1, <1>2

LEMMA TooManyArgsNext == Inv /\ TooManyArgs /\ Framed => Inv'
  BY RejectNext DEF TooManyArgs, Framed, position

LEMMA StartWordNext == Inv /\ StartWord /\ Framed => Inv'
<1> SUFFICES ASSUME Inv, StartWord, Framed PROVE Inv'
  OBVIOUS
<1> USE DEF Framed, StartWord, Inv, ParserTypes, PositionTypes, Left, Read, Goto
<1>1. /\ argv' \in Seq(Seq(Chars)) /\ Len(argv') = Len(argv) + 1 /\ argv' # <<>>
      /\ Len(argv') <= CMD_ARGV_MAX - 1
  <2>1. argv \in Seq(Seq(Chars)) /\ <<>> \in Seq(Chars) /\ Len(argv) \in Nat
    OBVIOUS
  <2>2. argv' \in Seq(Seq(Chars)) /\ Len(argv') = Len(argv) + 1
    BY <2>1
  <2>3. Len(argv) < CMD_ARGV_MAX - 1
    BY <2>1, CmdLineAssumption DEF Full, CMD_ARGV_MAX
  <2>4. Len(argv') <= CMD_ARGV_MAX - 1
    <3> HIDE DEF Inv, StartWord
    <3> QED
      BY <2>1, <2>2, <2>3, CmdLineAssumption DEF CMD_ARGV_MAX
  <2>5. argv' # <<>>
    <3> HIDE DEF Inv, StartWord
    <3> QED
      BY <2>1, <2>2
  <2> QED
    BY <2>2, <2>4, <2>5
<1>2. ParserTypes'
  BY <1>1
<1>3. FitsBuffer' /\ FitsArrays'
  BY <1>1 DEF FitsBuffer, FitsArrays
<1>4. CopyInv'
  BY <1>1 DEF CopyInv, Copying
<1> QED
  BY <1>2, <1>3, <1>4

\* The end of a quoted word: its quote, if there is one, makes room for the 0.
LEMMA QuotedWordNext == Inv /\ QuotedWord /\ Framed => Inv'
<1> SUFFICES ASSUME Inv, QuotedWord, Framed PROVE Inv'
  OBVIOUS
<1>1. CASE Left /\ Here # quote
  BY <1>1, CopyNext DEF QuotedWord, Framed
<1>2. CASE ~(Left /\ Here # quote)
  <2> USE <1>2 DEF Framed, QuotedWord, Inv, ParserTypes, PositionTypes, Left, PassQuote, Terminate, Goto
  <2>1. ParserTypes'
    OBVIOUS
  <2>2. FitsBuffer' /\ FitsArrays'
    BY CmdLineAssumption DEF FitsBuffer, FitsArrays, CopyInv, Copying, Lines
  <2>3. CopyInv'
    BY DEF CopyInv, Copying
  <2> QED
    BY <2>1, <2>2, <2>3
<1> QED
  BY <1>1, <1>2

\* The end of a word: the 0 takes the place of the blank, or of the line's end.
LEMMA PlainWordNext == Inv /\ PlainWord /\ Framed => Inv'
<1> SUFFICES ASSUME Inv, PlainWord, Framed PROVE Inv'
  OBVIOUS
<1> USE DEF Framed, PlainWord
<1>1. CASE ~Left \/ Here = Blank
  <2> USE <1>1 DEF Inv, ParserTypes, PositionTypes, Left, Terminate, Goto
  <2>1. ParserTypes'
    OBVIOUS
  <2>2. FitsBuffer' /\ FitsArrays'
    BY CmdLineAssumption DEF FitsBuffer, FitsArrays, CopyInv, Copying, Lines
  <2>3. CopyInv'
    BY DEF CopyInv, Copying, Here
  <2> QED
    BY <2>1, <2>2, <2>3
<1>2. CASE Left /\ Here # Blank /\ Here \in Quotes
  <2> USE <1>2 DEF Inv, ParserTypes, PositionTypes, Left, Read, Goto
  <2>1. ParserTypes' /\ FitsBuffer' /\ FitsArrays'
    BY DEF FitsBuffer, FitsArrays
  <2>2. CopyInv'
    BY DEF CopyInv, Copying
  <2> QED
    BY <2>1, <2>2
<1>3. CASE Left /\ Here # Blank /\ Here \notin Quotes
  BY <1>3, CopyNext
<1> QED
  BY <1>1, <1>2, <1>3

LEMMA InnerQuoteNext == Inv /\ InnerQuote /\ Framed => Inv'
<1> SUFFICES ASSUME Inv, InnerQuote, Framed PROVE Inv'
  OBVIOUS
<1>1. CASE Left /\ Here # quote
  BY <1>1, CopyNext DEF InnerQuote, Framed
<1>2. CASE ~(Left /\ Here # quote)
  <2> USE <1>2 DEF Framed, InnerQuote, Inv, ParserTypes, PositionTypes, Left, PassQuote, Goto
  <2>1. ParserTypes' /\ FitsBuffer' /\ FitsArrays'
    BY DEF FitsBuffer, FitsArrays
  <2>2. CopyInv'
    BY DEF CopyInv, Copying
  <2> QED
    BY <2>1, <2>2
<1> QED
  BY <1>1, <1>2

\* There was room for the command when its buffer was begun.
LEMMA EndBuffNext == Inv /\ EndBuff /\ Framed => Inv'
<1> SUFFICES ASSUME Inv, EndBuff, Framed PROVE Inv'
  OBVIOUS
<1> USE DEF Framed, EndBuff, Inv, ParserTypes, PositionTypes, Left, Goto
<1>1. commands' \in Seq(Seq(Seq(Chars))) /\ Len(commands') = Len(commands) + 1
  OBVIOUS
<1>2. ParserTypes' /\ FitsBuffer'
  BY <1>1 DEF FitsBuffer, CopyInv, Copying
<1>3. CopyInv' /\ FitsArrays'
  BY <1>1, CmdLineAssumption DEF CopyInv, Copying, FitsArrays
<1> QED
  BY <1>2, <1>3

----
LEMMA InvNext == Inv /\ [ParserStep]_parser => Inv'
<1> SUFFICES ASSUME Inv, [ParserStep]_parser PROVE Inv'
  OBVIOUS
<1>1. CASE TrimLine
  BY <1>1, TrimLineNext
<1>2. CASE NextSegment
  BY <1>2, NextSegmentNext
<1>3. CASE NoMoreSegments
  BY <1>3, NoMoreSegmentsNext
<1>4. CASE BuffStep
  BY <1>4, SkipBlankNext, TooManyArgsNext, StartWordNext, QuotedWordNext, PlainWordNext,
     InnerQuoteNext, EndBuffNext DEF BuffStep, Framed
<1>5. CASE UNCHANGED parser
  BY <1>5 DEF parser, reading, position, Inv, ParserTypes, PositionTypes, CopyInv, FitsBuffer,
              FitsArrays, Left, Here
<1> QED
  BY <1>1, <1>2, <1>3, <1>4, <1>5 DEF ParserStep

LEMMA InvAlways == ParserSpec => []Inv
<1> QED
  BY InvInit, InvNext, PTL DEF ParserSpec

\* The positions stay within the line and what is built is words of its
\* characters, in every copy of build_cmd_list and build_cmd_buff.
THEOREM ParserTypesCorrect == ParserSpec => []ParserTypes
<1>1. Inv => ParserTypes
  BY DEF Inv
<1> QED
  BY <1>1, InvAlways, PTL

\* build_cmd_buff never writes behind a command's buffer, if the line with its
\* 0 is no longer than SH_CMD_MAX (dshlib.c:144-217).
THEOREM FitsBufferCorrect == ParserSpec => []FitsBuffer
<1>1. Inv => FitsBuffer
  BY DEF Inv
<1> QED
  BY <1>1, InvAlways, PTL

\* argv has room for its NULL and the list for every command, whatever the line
\* (dshlib.c:158-163, 214 and 259-262).
THEOREM FitsArraysCorrect == ParserSpec => []FitsArrays
<1>1. Inv => FitsArrays
  BY DEF Inv
<1> QED
  BY <1>1, InvAlways, PTL

----
(* Sets of positions, and the functions LineMeaning defines by recursion. *)

\* A set of natural numbers that is not empty has a least number.
LEMMA LeastOf ==
  ASSUME NEW S, S \subseteq Nat, S # {} PROVE \E m \in S : \A k \in S : m <= k
<1> DEFINE R == OpToRel(<, Nat)
<1>1. IsWellFoundedOn(R, Nat)
  BY NatLessThanWellFounded
<1>2. \A x, y \in Nat : x < y => <<x, y>> \in R
  BY DEF OpToRel
<1> HIDE DEF R
<1>3. PICK m \in S : \A k \in S : ~(<<k, m>> \in R)
  BY <1>1, WFMin
<1>4. ASSUME NEW k \in S PROVE m <= k
  <2>1. m \in Nat /\ k \in Nat
    OBVIOUS
  <2>2. ~(k < m)
    BY <1>2, <1>3, <2>1
  <2> QED
    BY <2>1, <2>2
<1> QED
  BY <1>3, <1>4

\* Induction up to n, with the set of what is so in the place of a predicate.
LEMMA Climbs ==
  ASSUME NEW n \in Nat, NEW G, 0 \in G, \A i \in 1..n : i - 1 \in G => i \in G
  PROVE  0..n \subseteq G
<1> DEFINE Fails == {i \in 0..n : i \notin G}
<1>1. SUFFICES ASSUME Fails # {} PROVE FALSE
  OBVIOUS
<1>2. PICK m \in Fails : \A k \in Fails : m <= k
  <2>1. Fails \subseteq Nat
    OBVIOUS
  <2> HIDE DEF Fails
  <2> QED
    BY <1>1, <2>1, LeastOf
<1>3. m \in 1..n /\ m - 1 \in 0..n /\ ~(m <= m - 1)
  OBVIOUS
<1> QED
  BY <1>2, <1>3

\* A set of positions is finite, and of no more than there are.
LEMMA Positions ==
  ASSUME NEW n \in Nat, NEW S, S \subseteq 1..n
  PROVE  IsFiniteSet(S) /\ Cardinality(S) \in Nat /\ Cardinality(S) <= n
<1>1. IsFiniteSet(1..n) /\ Cardinality(1..n) = n
  BY FS_Interval
<1>2. IsFiniteSet(S) /\ Cardinality(S) <= n
  BY <1>1, FS_Subset
<1> QED
  BY <1>2, FS_CardinalityType

\* Positions are ranked in their order, without a gap.
LEMMA Ranks ==
  ASSUME NEW n \in Nat, NEW S, S \subseteq 1..n
  PROVE  /\ \A m \in S : Rank(S, m) \in 1..Cardinality(S) /\ Nth(S, Rank(S, m)) = m
         /\ \A k \in 1..Cardinality(S) : Nth(S, k) \in S /\ Rank(S, Nth(S, k)) = k
<1> DEFINE Below(m) == {k \in S : k <= m}
           c == Cardinality(S)
<1>1. IsFiniteSet(S) /\ c \in Nat
  BY Positions
<1>2. ASSUME NEW m \in S PROVE IsFiniteSet(Below(m)) /\ Rank(S, m) = Cardinality(Below(m)) /\ Rank(S, m) \in 1..c
  <2>1. IsFiniteSet(Below(m)) /\ Cardinality(Below(m)) <= c
    BY <1>1, FS_Subset
  <2>2. Cardinality(Below(m)) \in Nat
    BY <2>1, FS_CardinalityType
  <2>3. m \in Below(m)
    OBVIOUS
  <2>4. Cardinality(Below(m)) # 0
    BY <2>1, <2>3, FS_EmptySet
  <2> QED
    BY <1>1, <2>1, <2>2, <2>4 DEF Rank
<1>3. ASSUME NEW l \in S, NEW m \in S, l < m PROVE Rank(S, l) # Rank(S, m)
  <2>1. Below(l) \in SUBSET Below(m) /\ m \in Below(m) /\ m \notin Below(l)
    <3>1. m <= m /\ ~(m <= l) /\ \A k \in S : k <= l => k <= m
      BY <1>3
    <3> QED
      BY <3>1
  <2>2. Below(l) # Below(m)
    BY <2>1
  <2> HIDE DEF Below
  <2> QED
    BY <1>2, <2>1, <2>2, FS_Subset
<1>4. \A l, m \in S : Rank(S, l) = Rank(S, m) => l = m
  <2>1. \A l, m \in S : l < m \/ m < l \/ l = m
    OBVIOUS
  <2> QED
    BY <1>3, <2>1
<1>5. ASSUME NEW k \in 1..c PROVE \E m \in S : Rank(S, m) = k
  <2> DEFINE f == [m \in S |-> Rank(S, m)]
  <2>1. f \in Injection(S, 1..c)
    <3>1. f \in [S -> 1..c]
      BY <1>2
    <3>2. IsInjective(f)
      BY <1>4 DEF IsInjective
    <3> QED
      BY <1>4, <3>1, <3>2, Zenon DEF Injection, IsInjective
  <2>2. IsFiniteSet(1..c) /\ Cardinality(1..c) = c
    BY <1>1, FS_Interval
  <2>3. f \in Surjection(S, 1..c)
    <3> HIDE DEF f
    <3> QED
      BY <2>1, <2>2, FS_Injection
  <2> QED
    BY <2>3 DEF Surjection
<1>6. ASSUME NEW m \in S PROVE Nth(S, Rank(S, m)) = m
  BY <1>4, Zenon DEF Nth
<1>7. ASSUME NEW k \in 1..c PROVE Nth(S, k) \in S /\ Rank(S, Nth(S, k)) = k
  BY <1>5, Zenon DEF Nth
<1> QED
  BY <1>2, <1>6, <1>7

\* One more position, behind the others.
LEMMA OneMorePosition ==
  ASSUME NEW n \in Nat, NEW S, S \subseteq 1..n
  PROVE  /\ Cardinality(S \cup {n + 1}) = Cardinality(S) + 1
         /\ \A k \in 1..Cardinality(S) : Nth(S \cup {n + 1}, k) = Nth(S, k)
         /\ Nth(S \cup {n + 1}, Cardinality(S) + 1) = n + 1
<1> DEFINE T == S \cup {n + 1}
<1>1. IsFiniteSet(S) /\ n + 1 \notin S /\ T \subseteq 1..(n + 1) /\ Cardinality(S) \in Nat
  <2>1. n + 1 \notin S /\ T \subseteq 1..(n + 1)
    OBVIOUS
  <2> QED
    BY <2>1, Positions
<1>2. Cardinality(T) = Cardinality(S) + 1
  BY <1>1, FS_AddElement
<1>3. ASSUME NEW m \in S PROVE Rank(T, m) = Rank(S, m)
  <2>1. {k \in T : k <= m} = {k \in S : k <= m}
    OBVIOUS
  <2> QED
    BY <2>1 DEF Rank
<1>4. Rank(T, n + 1) = Cardinality(T)
  <2>1. \A k \in T : k <= n + 1
    OBVIOUS
  <2>2. {k \in T : k <= n + 1} = T
    BY <2>1
  <2> QED
    BY <2>2 DEF Rank
<1> HIDE DEF T
<1>5. /\ \A m \in T : Nth(T, Rank(T, m)) = m
      /\ \A k \in 1..Cardinality(S) : Nth(S, k) \in S /\ Rank(S, Nth(S, k)) = k
  <2>1. n + 1 \in Nat
    OBVIOUS
  <2>2. \A m \in T : Nth(T, Rank(T, m)) = m
    BY <1>1, <2>1, Ranks
  <2> QED
    BY <2>2, Ranks
<1>6. S \subseteq T /\ n + 1 \in T
  BY DEF T
<1>7. \A k \in 1..Cardinality(S) : Nth(T, k) = Nth(S, k)
  BY <1>3, <1>5, <1>6
<1>8. Nth(T, Cardinality(S) + 1) = n + 1
  BY <1>2, <1>4, <1>5, <1>6
<1> QED
  BY <1>2, <1>7, <1>8 DEF T

\* Is h built from z by g, one position after another?
Follows(h, n, V, z, g) == h \in [0..n -> V] /\ h[0] = z /\ \A i \in 1..n : h[i] = g[<<i, h[i - 1]>>]

\* A function defined by what it is at 0 and by a step exists, whatever the step.
LEMMA StepsExist ==
  ASSUME NEW n \in Nat, NEW V, NEW z \in V, NEW g \in [(1..n) \X V -> V]
  PROVE  \E h : Follows(h, n, V, z, g)
<1> DEFINE Good(m) == \E h \in [0..m -> V] : h[0] = z /\ \A i \in 1..m : h[i] = g[<<i, h[i - 1]>>]
           G == {m \in 0..n : Good(m)}
<1>1. Good(0)
  <2> DEFINE h == [i \in 0..0 |-> z]
  <2>1. h \in [0..0 -> V] /\ h[0] = z /\ 1..0 = {}
    OBVIOUS
  <2> HIDE DEF h
  <2> QED
    BY <2>1
<1>2. ASSUME NEW m \in 1..n, Good(m - 1) PROVE Good(m)
  <2>1. PICK f \in [0..(m - 1) -> V] : f[0] = z /\ \A i \in 1..(m - 1) : f[i] = g[<<i, f[i - 1]>>]
    BY <1>2
  <2> DEFINE h == [i \in 0..m |-> IF i < m THEN f[i] ELSE g[<<m, f[m - 1]>>]]
  <2>2. m \in 1..n /\ m - 1 \in 0..(m - 1) /\ f[m - 1] \in V
    OBVIOUS
  <2>3. g[<<m, f[m - 1]>>] \in V
    BY <2>2
  <2>4. \A i \in 0..m : i < m => i \in 0..(m - 1)
    OBVIOUS
  <2>5. h \in [0..m -> V]
    BY <2>3, <2>4
  <2>6. h[m] = g[<<m, f[m - 1]>>] /\ \A i \in 0..(m - 1) : h[i] = f[i]
    OBVIOUS
  <2> HIDE DEF h
  <2>7. h[0] = z
    BY <2>1, <2>6
  <2>8. ASSUME NEW i \in 1..m PROVE h[i] = g[<<i, h[i - 1]>>]
    <3>1. i - 1 \in 0..(m - 1) /\ (i = m \/ (i \in 1..(m - 1) /\ i \in 0..(m - 1)))
      OBVIOUS
    <3>2. h[i - 1] = f[i - 1]
      BY <2>6, <3>1
    <3>3. CASE i = m
      BY <2>6, <3>2, <3>3
    <3>4. CASE i \in 1..(m - 1) /\ i \in 0..(m - 1)
      BY <2>1, <2>6, <3>2, <3>4
    <3> QED
      BY <3>1, <3>3, <3>4
  <2> QED
    BY <2>5, <2>7, <2>8
<1> HIDE DEF Good
<1>3. 0..n \subseteq G
  <2>1. 0 \in G
    BY <1>1
  <2>2. \A m \in 1..n : m - 1 \in G => m \in G
    <3>1. \A m \in 1..n : m \in 0..n
      OBVIOUS
    <3> QED
      BY <1>2, <3>1
  <2> HIDE DEF G
  <2> QED
    BY <2>1, <2>2, Climbs
<1>4. Good(n)
  BY <1>3
<1> QED
  BY <1>4 DEF Good, Follows

QuoteStates == Quotes \cup {NoQuote}

\* The recursion of OpenQuote, unfolded once at each character.
LEMMA OpenQuoteIs ==
  ASSUME NEW s \in Seq(Chars)
  PROVE  /\ OpenQuote(s)[0] = NoQuote
         /\ \A i \in 0..Len(s) : OpenQuote(s)[i] \in QuoteStates
         /\ \A i \in 1..Len(s) :
              OpenQuote(s)[i] = IF OpenQuote(s)[i - 1] = NoQuote
                                THEN IF s[i] \in Quotes THEN s[i] ELSE NoQuote
                                ELSE IF s[i] = OpenQuote(s)[i - 1] THEN NoQuote ELSE OpenQuote(s)[i - 1]
<1> DEFINE n == Len(s)
           Step(i, q) == IF q = NoQuote THEN IF s[i] \in Quotes THEN s[i] ELSE NoQuote
                                        ELSE IF s[i] = q THEN NoQuote ELSE q
           Body(h, i) == IF i = 0 THEN NoQuote ELSE Step(i, h[i - 1])
           g == [p \in (1..n) \X QuoteStates |-> Step(p[1], p[2])]
           open == OpenQuote(s)
<1>1. n \in Nat /\ NoQuote \in QuoteStates
  BY DEF QuoteStates
<1>2. \A i \in 1..n : \A q \in QuoteStates : Step(i, q) \in QuoteStates
  BY DEF QuoteStates
<1>3. open = CHOOSE h : h = [i \in 0..n |-> Body(h, i)]
  BY DEF OpenQuote
<1>4. g \in [(1..n) \X QuoteStates -> QuoteStates] /\ \A i \in 1..n : \A q \in QuoteStates : g[<<i, q>>] = Step(i, q)
  <2> HIDE DEF Step, n
  <2> QED
    BY <1>2
<1> HIDE DEF g, Step, open, n
<1>5. PICK h \in [0..n -> QuoteStates] : h[0] = NoQuote /\ \A i \in 1..n : h[i] = g[<<i, h[i - 1]>>]
  <2>1. n \in Nat /\ NoQuote \in QuoteStates /\ g \in [(1..n) \X QuoteStates -> QuoteStates]
    BY <1>1, <1>4
  <2>2. PICK h : Follows(h, n, QuoteStates, NoQuote, g)
    BY <2>1, StepsExist, Zenon
  <2> QED
    BY <2>2 DEF Follows
<1>6. \A i \in 0..n : h[i] = Body(h, i)
  <2>1. \A i \in 1..n : i - 1 \in 0..n
    BY <1>1
  <2>2. \A i \in 1..n : h[i] = Step(i, h[i - 1])
    BY <1>4, <1>5, <2>1
  <2>3. \A i \in 0..n : i = 0 \/ i \in 1..n
    BY <1>1
  <2> QED
    BY <1>5, <2>2, <2>3
<1> HIDE DEF Body
<1>7. h = [i \in 0..n |-> Body(h, i)]
  BY <1>6
<1>8. open = [i \in 0..n |-> Body(open, i)]
  BY <1>3, <1>7, Zenon
<1>9. \A i \in 0..n : open[i] = Body(open, i)
  BY <1>8
<1>10. open[0] = NoQuote /\ \A i \in 1..n : open[i] = Step(i, open[i - 1])
  <2>1. 0 \in 0..n /\ \A i \in 1..n : i \in 0..n /\ i # 0
    BY <1>1
  <2> QED
    BY <1>9, <2>1 DEF Body
<1>11. \A i \in 0..n : open[i] \in QuoteStates
  <2> DEFINE G == {i \in 0..n : open[i] \in QuoteStates}
  <2>1. 0 \in G
    BY <1>1, <1>10
  <2>2. \A i \in 1..n : i - 1 \in G => i \in G
    <3>1. \A i \in 1..n : i \in 0..n
      BY <1>1
    <3> QED
      BY <1>2, <1>10, <3>1
  <2>3. 0..n \subseteq G
    <3> HIDE DEF G
    <3> QED
      BY <1>1, <2>1, <2>2, Climbs
  <2> QED
    BY <2>3
<1> QED
  BY <1>10, <1>11 DEF Step, open, n

\* Word k is the last that begins in the first i characters.
LastWord(s, i, k) == /\ k \in 1..i /\ WordOf(s)[k] = k
                     /\ \A j \in 1..i : WordOf(s)[j] = j => j <= k

\* The recursion of WordOf, unfolded once at each character.
LEMMA WordOfIs ==
  ASSUME NEW s \in Seq(Chars)
  PROVE  /\ WordOf(s)[0] = 0
         /\ \A i \in 0..Len(s) : WordOf(s)[i] \in 0..i
         /\ \A i \in 0..Len(s) : WordOf(s)[i] # 0 => LastWord(s, i, WordOf(s)[i])
         /\ \A i \in 1..Len(s) :
              WordOf(s)[i] = IF OpenQuote(s)[i - 1] = NoQuote /\ s[i] = Blank THEN 0
                             ELSE IF \/ WordOf(s)[i - 1] = 0
                                     \/ OpenQuote(s)[i - 1] = NoQuote /\ s[WordOf(s)[i - 1]] \in Quotes
                                  THEN i ELSE WordOf(s)[i - 1]
<1> DEFINE n == Len(s)
           open == OpenQuote(s)
           Bare(i) == open[i - 1] = NoQuote
           Step(i, k) == IF Bare(i) /\ s[i] = Blank THEN 0
                         ELSE IF k = 0 \/ (Bare(i) /\ s[k] \in Quotes) THEN i ELSE k
           Body(h, i) == IF i = 0 THEN 0 ELSE Step(i, h[i - 1])
           g == [p \in (1..n) \X (0..n) |-> Step(p[1], p[2])]
           of == WordOf(s)
<1>1. n \in Nat /\ 0 \in 0..n
  OBVIOUS
<1>2. \A i \in 1..n : \A k \in 0..n : Step(i, k) \in 0..n
  OBVIOUS
<1>3. of = CHOOSE h : h = [i \in 0..n |-> Body(h, i)]
  BY DEF WordOf
<1>4. g \in [(1..n) \X (0..n) -> 0..n] /\ \A i \in 1..n : \A k \in 0..n : g[<<i, k>>] = Step(i, k)
  <2> HIDE DEF Step, n
  <2> QED
    BY <1>2
<1>0. \A i, k : Step(i, k) \in {0, i, k}
  OBVIOUS
<1> HIDE DEF g, Step, of, n
<1>5. PICK h \in [0..n -> 0..n] : h[0] = 0 /\ \A i \in 1..n : h[i] = g[<<i, h[i - 1]>>]
  <2>1. n \in Nat /\ 0 \in 0..n /\ g \in [(1..n) \X (0..n) -> 0..n]
    BY <1>1, <1>4
  <2>2. PICK h : Follows(h, n, 0..n, 0, g)
    BY <2>1, StepsExist, Zenon
  <2> QED
    BY <2>2 DEF Follows
<1>6. \A i \in 0..n : h[i] = Body(h, i)
  <2>1. \A i \in 1..n : i - 1 \in 0..n
    BY <1>1
  <2>2. \A i \in 1..n : h[i] = Step(i, h[i - 1])
    BY <1>4, <1>5, <2>1
  <2>3. \A i \in 0..n : i = 0 \/ i \in 1..n
    BY <1>1
  <2> QED
    BY <1>5, <2>2, <2>3
<1> HIDE DEF Body
<1>7. h = [i \in 0..n |-> Body(h, i)]
  BY <1>6
<1>8. of = [i \in 0..n |-> Body(of, i)]
  BY <1>3, <1>7, Zenon
<1>9. \A i \in 0..n : of[i] = Body(of, i)
  BY <1>8
<1>10. of[0] = 0 /\ \A i \in 1..n : of[i] = Step(i, of[i - 1])
  <2>1. 0 \in 0..n /\ \A i \in 1..n : i \in 0..n /\ i # 0
    BY <1>1
  <2> QED
    BY <1>9, <2>1 DEF Body
<1>11. \A i \in 0..n : of[i] \in 0..i /\ (of[i] # 0 => LastWord(s, i, of[i]))
  <2> DEFINE Good(i) == of[i] \in 0..i /\ (of[i] # 0 => LastWord(s, i, of[i]))
             G == {i \in 0..n : Good(i)}
  <2>1. 0 \in G
    BY <1>1, <1>10
  <2>2. ASSUME NEW i \in 1..n, i - 1 \in G PROVE i \in G
    <3>1. i - 1 \in Nat /\ of[i - 1] \in 0..(i - 1) /\ of[i] \in {0, i, of[i - 1]} /\ i \in 0..n
      BY <1>0, <1>10, <2>2
    <3>2. CASE of[i] = 0
      BY <3>1, <3>2
    <3>3. CASE of[i] = i
      BY <3>1, <3>3 DEF LastWord, of
    <3>4. CASE of[i] = of[i - 1] /\ of[i] # 0
      <4>1. LastWord(s, i - 1, of[i])
        BY <2>2, <3>4
      <4>2. of[i] \in 1..(i - 1) /\ of[i] # i
        BY <3>1, <3>4
      <4>3. \A j \in 1..i : j = i \/ j \in 1..(i - 1)
        OBVIOUS
      <4>4. LastWord(s, i, of[i])
        BY <3>1, <4>1, <4>2, <4>3 DEF LastWord, of
      <4> QED
        BY <3>1, <3>4, <4>4
    <3> QED
      BY <3>1, <3>2, <3>3, <3>4
  <2>3. 0..n \subseteq G
    <3> HIDE DEF G
    <3> QED
      BY <1>1, <2>1, <2>2, Climbs
  <2> QED
    BY <2>3
<1> QED
  BY <1>10, <1>11 DEF Step, of, n

----
(* The words of a line, a character at a time. *)

WordStarts(s, n)  == {i \in 1..n : WordOf(s)[i] = i}
\* The characters of the word that begins at b, among the first n.
WordText(s, n, b) == {i \in 1..n : WordOf(s)[i] = b /\ i \in Inked(s)}
TextOn(s, S)      == [j \in 1..Cardinality(S) |-> s[Nth(S, j)]]

\* The text of a word, one character longer.
LEMMA TextOnNext ==
  ASSUME NEW s \in Seq(Chars), NEW n \in 0..(Len(s) - 1), NEW S, S \subseteq 1..n
  PROVE  /\ TextOn(s, S) \in Seq(Chars)
         /\ TextOn(s, S \cup {n + 1}) = Append(TextOn(s, S), s[n + 1])
         /\ TextOn(s, {}) = <<>>
<1> DEFINE c == Cardinality(S)
           T == S \cup {n + 1}
<1>1. n \in Nat /\ c \in Nat /\ S \subseteq 1..Len(s)
  <2>1. n \in Nat /\ S \subseteq 1..Len(s)
    OBVIOUS
  <2> QED
    BY <2>1, Positions
<1>2. \A k \in 1..c : Nth(S, k) \in S
  BY <1>1, Ranks
<1>3. TextOn(s, S) \in Seq(Chars) /\ Len(TextOn(s, S)) = c
  <2>1. \A i \in 1..Len(s) : s[i] \in Chars
    OBVIOUS
  <2>2. \A k \in 1..c : s[Nth(S, k)] \in Chars
    <3> HIDE DEF c
    <3> QED
      BY <1>1, <1>2, <2>1
  <2> QED
    BY <1>1, <2>2 DEF TextOn
<1>4. Cardinality(T) = c + 1 /\ (\A k \in 1..c : Nth(T, k) = Nth(S, k)) /\ Nth(T, c + 1) = n + 1
  BY <1>1, OneMorePosition
<1>5. TextOn(s, T) = Append(TextOn(s, S), s[n + 1])
  <2> DEFINE t == [j \in 1..(c + 1) |-> s[Nth(T, j)]]
             u == Append(TextOn(s, S), s[n + 1])
  <2>1. s[n + 1] \in Chars
    OBVIOUS
  <2>2. u \in Seq(Chars) /\ Len(u) = c + 1 /\ u[c + 1] = s[n + 1] /\ \A k \in 1..c : u[k] = TextOn(s, S)[k]
    BY <1>1, <1>3, <2>1
  <2>3. \A k \in 1..c : u[k] = s[Nth(S, k)]
    BY <2>2 DEF TextOn
  <2>4. \A k \in 1..(c + 1) : k = c + 1 \/ k \in 1..c
    BY <1>1
  <2>5. u = [j \in 1..(c + 1) |-> u[j]]
    BY <2>2
  <2> HIDE DEF u
  <2>6. \A k \in 1..(c + 1) : u[k] = s[Nth(T, k)]
    BY <1>4, <2>2, <2>3, <2>4
  <2>7. u = t
    BY <2>5, <2>6
  <2> QED
    BY <1>4, <2>7 DEF TextOn, u
<1>6. TextOn(s, {}) = <<>>
  <2>1. Cardinality({}) = 0 /\ 1..0 = {}
    BY FS_EmptySet
  <2> QED
    BY <2>1 DEF TextOn
<1> QED
  BY <1>3, <1>5, <1>6

\* The words so far: one for each position where one begins, with its text.
LEMMA WordsToAre ==
  ASSUME NEW s \in Seq(Chars), NEW n \in 0..Len(s)
  PROVE  /\ WordStarts(s, n) \subseteq 1..n /\ \A b : WordText(s, n, b) \subseteq 1..n
         /\ Cardinality(WordStarts(s, n)) \in Nat
         /\ WordsTo(s, n) \in Seq(Seq(Chars)) /\ Len(WordsTo(s, n)) = Cardinality(WordStarts(s, n))
         /\ \A k \in 1..Len(WordsTo(s, n)) :
              WordsTo(s, n)[k] = TextOn(s, WordText(s, n, Nth(WordStarts(s, n), k)))
<1> DEFINE B == WordStarts(s, n)
           F(k) == TextOn(s, WordText(s, n, Nth(B, k)))
<1>1. B \subseteq 1..n /\ \A b : WordText(s, n, b) \subseteq 1..n
  BY DEF WordStarts, WordText
<1>2. Cardinality(B) \in Nat
  BY <1>1, Positions
<1>3. WordsTo(s, n) = [k \in 1..Cardinality(B) |-> F(k)]
  BY DEF WordsTo, WordStarts, WordText, TextOn
<1>4. ASSUME NEW b PROVE TextOn(s, WordText(s, n, b)) \in Seq(Chars)
  <2> DEFINE S == WordText(s, n, b)
  <2>1. n \in Nat /\ S \subseteq 1..n
    BY <1>1
  <2> HIDE DEF S
  <2>2. Cardinality(S) \in Nat /\ \A k \in 1..Cardinality(S) : Nth(S, k) \in S
    BY <2>1, Positions, Ranks
  <2>3. \A i \in 1..n : s[i] \in Chars
    OBVIOUS
  <2>4. \A k \in 1..Cardinality(S) : s[Nth(S, k)] \in Chars
    BY <2>1, <2>2, <2>3
  <2> QED
    BY <2>2, <2>4 DEF TextOn, S
<1> HIDE DEF B
<1>5. \A k : F(k) \in Seq(Chars)
  BY <1>4
<1> HIDE DEF F
<1>6. WordsTo(s, n) \in Seq(Seq(Chars)) /\ Len(WordsTo(s, n)) = Cardinality(B)
      /\ \A k \in 1..Cardinality(B) : WordsTo(s, n)[k] = F(k)
  BY <1>2, <1>3, <1>5
<1> QED
  BY <1>1, <1>2, <1>6 DEF B, F

\* The last word is the one the last character is in, if it is in one.
LEMMA LastStart ==
  ASSUME NEW s \in Seq(Chars), NEW n \in 0..Len(s), WordOf(s)[n] # 0
  PROVE  /\ WordOf(s)[n] \in WordStarts(s, n) /\ Cardinality(WordStarts(s, n)) >= 1
         /\ Nth(WordStarts(s, n), Cardinality(WordStarts(s, n))) = WordOf(s)[n]
<1> DEFINE B == WordStarts(s, n)
           k == WordOf(s)[n]
<1>1. LastWord(s, n, k)
  BY WordOfIs
<1>2. k \in B /\ (\A j \in B : j <= k) /\ B \subseteq 1..n /\ n \in Nat
  BY <1>1 DEF LastWord, WordStarts
<1> HIDE DEF B, k
<1>3. {j \in B : j <= k} = B
  BY <1>2
<1>4. Rank(B, k) = Cardinality(B)
  BY <1>3 DEF Rank
<1>5. Rank(B, k) \in 1..Cardinality(B) /\ Nth(B, Rank(B, k)) = k /\ Cardinality(B) \in Nat
  BY <1>2, Ranks, Positions
<1> QED
  BY <1>2, <1>4, <1>5 DEF B, k

\* The words so far, one character later: the same, one more or the last one longer.
LEMMA WordsNext ==
  ASSUME NEW s \in Seq(Chars), NEW n \in 0..(Len(s) - 1)
  PROVE  /\ WordOf(s)[n + 1] = n + 1 =>
              WordsTo(s, n + 1) = Append(WordsTo(s, n), IF n + 1 \in Inked(s) THEN <<s[n + 1]>> ELSE <<>>)
         /\ WordOf(s)[n + 1] = WordOf(s)[n] /\ WordOf(s)[n] # 0 /\ n + 1 \in Inked(s) =>
              /\ WordsTo(s, n) # <<>>
              /\ WordsTo(s, n + 1) = [WordsTo(s, n) EXCEPT ![Len(WordsTo(s, n))] = Append(@, s[n + 1])]
         /\ WordOf(s)[n + 1] # n + 1 /\ n + 1 \notin Inked(s) => WordsTo(s, n + 1) = WordsTo(s, n)
<1> DEFINE of == WordOf(s)
           W == WordsTo(s, n)
           X == WordsTo(s, n + 1)
           B == WordStarts(s, n)
           C == WordStarts(s, n + 1)
           c == Cardinality(B)
           T(b) == WordText(s, n, b)
           U(b) == WordText(s, n + 1, b)
<1>1. n \in Nat /\ n \in 0..Len(s) /\ n + 1 \in 0..Len(s) /\ s[n + 1] \in Chars /\ 1..(n + 1) = (1..n) \cup {n + 1}
  OBVIOUS
<1>2. /\ B \subseteq 1..n /\ (\A b : T(b) \subseteq 1..n) /\ c \in Nat
      /\ W \in Seq(Seq(Chars)) /\ Len(W) = c /\ \A k \in 1..c : W[k] = TextOn(s, T(Nth(B, k)))
  BY <1>1, WordsToAre
<1>3. /\ X \in Seq(Seq(Chars)) /\ Len(X) = Cardinality(C)
      /\ \A k \in 1..Cardinality(C) : X[k] = TextOn(s, U(Nth(C, k)))
  BY <1>1, WordsToAre
<1>4. IF of[n + 1] = n + 1 THEN C = B \cup {n + 1} ELSE C = B
  BY <1>1 DEF WordStarts
<1>5. \A b : U(b) = IF of[n + 1] = b /\ n + 1 \in Inked(s) THEN T(b) \cup {n + 1} ELSE T(b)
  BY <1>1 DEF WordText
<1>6. \A k \in 1..c : Nth(B, k) \in B /\ Rank(B, Nth(B, k)) = k /\ Nth(B, k) # n + 1
  <2>1. \A k \in 1..c : Nth(B, k) \in B /\ Rank(B, Nth(B, k)) = k
    BY <1>1, <1>2, Ranks
  <2> QED
    BY <1>1, <1>2, <2>1
<1>7. ASSUME of[n + 1] = n + 1
      PROVE  X = Append(W, IF n + 1 \in Inked(s) THEN <<s[n + 1]>> ELSE <<>>)
  <2> DEFINE w == IF n + 1 \in Inked(s) THEN <<s[n + 1]>> ELSE <<>>
  <2>1. Cardinality(C) = c + 1 /\ (\A k \in 1..c : Nth(C, k) = Nth(B, k)) /\ Nth(C, c + 1) = n + 1
    <3>1. C = B \cup {n + 1} /\ B \subseteq 1..n /\ n \in Nat
      BY <1>1, <1>2, <1>4, <1>7
    <3> HIDE DEF B, C
    <3> QED
      BY <3>1, OneMorePosition
  <2>2. \A k \in 1..c : X[k] = W[k]
    <3>1. \A k \in 1..c : U(Nth(B, k)) = T(Nth(B, k))
      BY <1>5, <1>6, <1>7
    <3>2. \A k \in 1..c : k \in 1..Cardinality(C)
      BY <1>2, <2>1
    <3> HIDE DEF X, W, B, C, T, U, c
    <3> QED
      BY <1>2, <1>3, <2>1, <3>1, <3>2
  <2>3. T(n + 1) = {}
    <3>1. \A i \in 1..n : of[i] # n + 1
      <4>1. \A i \in 1..n : of[i] \in 0..i
        BY <1>1, WordOfIs
      <4> QED
        BY <1>1, <4>1
    <3> QED
      BY <3>1 DEF WordText
  <2>4. TextOn(s, U(n + 1)) = w
    <3>1. TextOn(s, {}) = <<>> /\ TextOn(s, {} \cup {n + 1}) = Append(TextOn(s, {}), s[n + 1])
      BY TextOnNext
    <3>2. U(n + 1) = IF n + 1 \in Inked(s) THEN {} \cup {n + 1} ELSE {}
      BY <1>5, <1>7, <2>3
    <3>3. Append(<<>>, s[n + 1]) = <<s[n + 1]>>
      BY <1>1
    <3> QED
      BY <3>1, <3>2, <3>3
  <2>5. X[c + 1] = w
    BY <1>2, <1>3, <2>1, <2>4
  <2>6. w \in Seq(Chars)
    BY <1>1
  <2> HIDE DEF X, W, B, C, T, U, c, w
  <2>7. Len(X) = c + 1
    BY <1>3, <2>1
  <2>8. Append(W, w) \in Seq(Seq(Chars)) /\ Len(Append(W, w)) = c + 1 /\ Append(W, w)[c + 1] = w
        /\ \A k \in 1..c : Append(W, w)[k] = W[k]
    BY <1>2, <2>6
  <2>9. \A k \in 1..(c + 1) : k = c + 1 \/ k \in 1..c
    BY <1>2
  <2>10. X = Append(W, w)
    BY <1>3, <2>2, <2>5, <2>7, <2>8, <2>9, SeqEqual
  <2> QED
    BY <2>10 DEF w
<1>8. ASSUME of[n + 1] = of[n], of[n] # 0, n + 1 \in Inked(s)
      PROVE  W # <<>> /\ X = [W EXCEPT ![Len(W)] = Append(@, s[n + 1])]
  <2>1. of[n] \in B /\ c >= 1 /\ Nth(B, c) = of[n]
    BY <1>1, <1>8, LastStart
  <2>2. of[n + 1] # n + 1
    BY <1>2, <1>8, <2>1
  <2>3. C = B
    BY <1>4, <2>2
  <2>4. \A k \in 1..c : k # c => Nth(B, k) # Nth(B, c)
    BY <1>2, <1>6, <2>1
  <2>5. \A k \in 1..c : k # c => X[k] = W[k]
    <3>1. \A k \in 1..c : k # c => U(Nth(B, k)) = T(Nth(B, k))
      BY <1>5, <1>8, <2>1, <2>4
    <3> HIDE DEF X, W, B, C, T, U, c
    <3> QED
      BY <1>2, <1>3, <2>3, <3>1 DEF c
  <2>6. TextOn(s, U(of[n])) = Append(TextOn(s, T(of[n])), s[n + 1])
    <3>1. U(of[n]) = T(of[n]) \cup {n + 1}
      BY <1>5, <1>8
    <3> QED
      BY <1>2, <3>1, TextOnNext
  <2>7. X[c] = Append(W[c], s[n + 1])
    <3> HIDE DEF X, W, B, C, T, U
    <3> QED
      BY <1>2, <1>3, <2>1, <2>3, <2>6
  <2> HIDE DEF X, W, B, C, T, U
  <2>8. Len(X) = c /\ Len(W) = c /\ c \in 1..c
    BY <1>2, <1>3, <2>1, <2>3
  <2> DEFINE Y == [W EXCEPT ![Len(W)] = Append(@, s[n + 1])]
  <2>9. W[c] \in Seq(Chars)
    BY <1>2, <2>8
  <2>10. Append(W[c], s[n + 1]) \in Seq(Chars)
    BY <1>1, <2>9
  <2>11. Y \in Seq(Seq(Chars)) /\ Len(Y) = c /\ Y[c] = Append(W[c], s[n + 1]) /\ \A k \in 1..c : k # c => Y[k] = W[k]
    <3> HIDE DEF c
    <3> QED
      BY <1>2, <2>8, <2>10
  <2> HIDE DEF Y, c
  <2>12. X = Y
    BY <1>2, <1>3, <2>5, <2>7, <2>8, <2>11, SeqEqual
  <2> QED
    BY <2>8, <2>12 DEF Y
<1>9. ASSUME of[n + 1] # n + 1, n + 1 \notin Inked(s)
      PROVE  X = W
  <2>1. C = B /\ \A b : U(b) = T(b)
    BY <1>4, <1>5, <1>9
  <2> HIDE DEF X, W, B, C, T, U
  <2>2. Len(X) = Len(W) /\ \A k \in 1..Len(W) : X[k] = W[k]
    BY <1>2, <1>3, <2>1
  <2> QED
    BY <1>2, <1>3, <2>2, SeqEqual
<1> QED
  BY <1>7, <1>8, <1>9

\* Is the i-th character of s in a word that does not begin with a quote?
Plain(s, i) == WordOf(s)[i] # 0 /\ s[WordOf(s)[i]] \notin Quotes

\* A word is begun before its first character is read.
Begun(s, i) == /\ i < Len(s) /\ OpenQuote(s)[i] = NoQuote /\ ~Plain(s, i)
               /\ s[i + 1] \notin Quotes \cup {Blank}

\* What build_cmd_buff knows of s behind the first i characters of it.
Reads(s, i, where, q, words) ==
    /\ where = "gap" =>
         /\ words = WordsTo(s, i)
         /\ i < Len(s) => OpenQuote(s)[i] = NoQuote /\ (s[i + 1] # Blank => ~Plain(s, i))
    /\ where = "quoted" =>
         /\ words = WordsTo(s, i) /\ OpenQuote(s)[i] = q
         /\ WordOf(s)[i] # 0 /\ s[WordOf(s)[i]] \in Quotes
    /\ where = "inner" => words = WordsTo(s, i) /\ OpenQuote(s)[i] = q /\ Plain(s, i)
    /\ where = "word" =>
         \/ Plain(s, i) /\ words = WordsTo(s, i) /\ (i < Len(s) => OpenQuote(s)[i] = NoQuote)
         \/ Begun(s, i) /\ words = Append(WordsTo(s, i), <<>>)

\* The quote open behind the next character, and the word it is in.
LEMMA NextChar ==
  ASSUME NEW s \in Seq(Chars), NEW i \in 0..(Len(s) - 1)
  PROVE  /\ i \in 0..Len(s) /\ i < Len(s) /\ i + 1 \in 1..Len(s) /\ s[i + 1] \in Chars
         /\ WordsTo(s, i) \in Seq(Seq(Chars))
         /\ OpenQuote(s)[i] \in QuoteStates /\ WordOf(s)[i] \in 0..i
         /\ OpenQuote(s)[i + 1] = IF OpenQuote(s)[i] = NoQuote
                                  THEN IF s[i + 1] \in Quotes THEN s[i + 1] ELSE NoQuote
                                  ELSE IF s[i + 1] = OpenQuote(s)[i] THEN NoQuote ELSE OpenQuote(s)[i]
         /\ WordOf(s)[i + 1] = IF OpenQuote(s)[i] = NoQuote /\ s[i + 1] = Blank THEN 0
                               ELSE IF \/ WordOf(s)[i] = 0
                                       \/ OpenQuote(s)[i] = NoQuote /\ s[WordOf(s)[i]] \in Quotes
                                    THEN i + 1 ELSE WordOf(s)[i]
         /\ i + 1 \in Inked(s) <=> IF OpenQuote(s)[i] = NoQuote THEN s[i + 1] \notin Quotes \cup {Blank}
                                                               ELSE s[i + 1] # OpenQuote(s)[i]
<1>1. i \in 0..Len(s) /\ i < Len(s) /\ i + 1 \in 1..Len(s) /\ s[i + 1] \in Chars /\ (i + 1) - 1 = i
  OBVIOUS
<1>2. WordsTo(s, i) \in Seq(Seq(Chars))
  BY <1>1, WordsToAre
<1>3. OpenQuote(s)[i] \in QuoteStates /\ WordOf(s)[i] \in 0..i
  BY <1>1, OpenQuoteIs, WordOfIs
<1>4. i + 1 \in Inked(s) <=> IF OpenQuote(s)[i] = NoQuote THEN s[i + 1] \notin Quotes \cup {Blank}
                                                         ELSE s[i + 1] # OpenQuote(s)[i]
  BY <1>1 DEF Inked
<1>5. OpenQuote(s)[i + 1] = IF OpenQuote(s)[i] = NoQuote
                            THEN IF s[i + 1] \in Quotes THEN s[i + 1] ELSE NoQuote
                            ELSE IF s[i + 1] = OpenQuote(s)[i] THEN NoQuote ELSE OpenQuote(s)[i]
  BY <1>1, OpenQuoteIs
<1>6. WordOf(s)[i + 1] = IF OpenQuote(s)[i] = NoQuote /\ s[i + 1] = Blank THEN 0
                         ELSE IF \/ WordOf(s)[i] = 0
                                 \/ OpenQuote(s)[i] = NoQuote /\ s[WordOf(s)[i]] \in Quotes
                              THEN i + 1 ELSE WordOf(s)[i]
  BY <1>1, WordOfIs
<1> QED
  BY <1>1, <1>2, <1>3, <1>4, <1>5, <1>6

\* A blank is no quote, and a word that is not plain begins with one.
LEMMA Marks ==
  /\ Blank \notin Quotes /\ NoQuote \notin Quotes
  /\ \A s, i : ~Plain(s, i) <=> WordOf(s)[i] = 0 \/ s[WordOf(s)[i]] \in Quotes
BY DEF Blank, NoQuote, Quotes, DoubleQuote, Plain

\* Nothing is read yet.
LEMMA ReadsFirst ==
  ASSUME NEW s \in Seq(Chars), NEW q
  PROVE  Reads(s, 0, "gap", q, <<>>)
<1>1. WordsTo(s, 0) = <<>>
  <2>1. 0 \in 0..Len(s)
    OBVIOUS
  <2>2. WordStarts(s, 0) = {} /\ WordsTo(s, 0) \in Seq(Seq(Chars)) /\ Len(WordsTo(s, 0)) = Cardinality(WordStarts(s, 0))
    BY <2>1, WordsToAre DEF WordStarts
  <2>3. Len(WordsTo(s, 0)) = 0
    BY <2>2, FS_EmptySet
  <2> QED
    BY <2>2, <2>3
<1>2. OpenQuote(s)[0] = NoQuote /\ ~Plain(s, 0)
  BY OpenQuoteIs, WordOfIs DEF Plain
<1> QED
  BY <1>1, <1>2 DEF Reads

\* A bare blank ends the word.
LEMMA ReadsBlank ==
  ASSUME NEW s \in Seq(Chars), NEW i \in 0..(Len(s) - 1), NEW q, NEW w,
         Reads(s, i, "gap", q, w), s[i + 1] = Blank
  PROVE  Reads(s, i + 1, "gap", q, w)
<1>1. OpenQuote(s)[i] = NoQuote /\ w = WordsTo(s, i)
  BY NextChar DEF Reads
<1>2. OpenQuote(s)[i + 1] = NoQuote /\ WordOf(s)[i + 1] = 0 /\ i + 1 \notin Inked(s) /\ 0 # i + 1
  BY <1>1, NextChar, Marks
<1>3. WordsTo(s, i + 1) = w
  BY <1>1, <1>2, WordsNext
<1> QED
  BY <1>2, <1>3 DEF Reads, Plain

\* A character that begins a word: a quote, which is not part of it, or any other.
LEMMA ReadsStart ==
  ASSUME NEW s \in Seq(Chars), NEW i \in 0..(Len(s) - 1), NEW q, NEW w,
         Reads(s, i, "gap", q, w), s[i + 1] # Blank
  PROVE  /\ s[i + 1] \in Quotes => Reads(s, i + 1, "quoted", s[i + 1], Append(w, <<>>))
         /\ s[i + 1] \notin Quotes => Reads(s, i, "word", q, Append(w, <<>>))
         /\ WordOf(s)[i + 1] = i + 1
<1>1. OpenQuote(s)[i] = NoQuote /\ w = WordsTo(s, i) /\ ~Plain(s, i) /\ i < Len(s)
  BY NextChar DEF Reads
<1>2. WordOf(s)[i + 1] = i + 1 /\ i + 1 # 0
  <2>1. WordOf(s)[i] = 0 \/ s[WordOf(s)[i]] \in Quotes
    BY <1>1 DEF Plain
  <2>2. i + 1 # 0
    OBVIOUS
  <2> QED
    BY <1>1, <2>1, <2>2, NextChar
<1>3. ASSUME s[i + 1] \in Quotes PROVE Reads(s, i + 1, "quoted", s[i + 1], Append(w, <<>>))
  <2>1. OpenQuote(s)[i + 1] = s[i + 1] /\ i + 1 \notin Inked(s)
    BY <1>1, <1>3, NextChar
  <2>2. WordsTo(s, i + 1) = Append(w, <<>>)
    BY <1>1, <1>2, <2>1, WordsNext
  <2> QED
    BY <1>2, <1>3, <2>1, <2>2 DEF Reads
<1>4. ASSUME s[i + 1] \notin Quotes PROVE Reads(s, i, "word", q, Append(w, <<>>))
  BY <1>1, <1>4 DEF Reads, Begun
<1> QED
  BY <1>2, <1>3, <1>4

\* A character within quotes, or the one that closes them.
LEMMA ReadsEnclosed ==
  ASSUME NEW s \in Seq(Chars), NEW i \in 0..(Len(s) - 1), NEW q \in Quotes, NEW w,
         NEW where \in {"quoted", "inner"}, Reads(s, i, where, q, w)
  PROVE  /\ s[i + 1] # q => Reads(s, i + 1, where, q, [w EXCEPT ![Len(w)] = Append(@, s[i + 1])])
         /\ s[i + 1] = q => Reads(s, i + 1, IF where = "quoted" THEN "gap" ELSE "word", q, w)
<1>1. /\ w = WordsTo(s, i) /\ OpenQuote(s)[i] = q /\ WordOf(s)[i] # 0
      /\ (s[WordOf(s)[i]] \in Quotes) <=> where = "quoted"
  BY DEF Reads, Plain
<1>2. WordOf(s)[i + 1] = WordOf(s)[i] /\ WordOf(s)[i] # i + 1
  BY <1>1, NextChar, Marks
<1>3. ASSUME s[i + 1] # q
      PROVE  Reads(s, i + 1, where, q, [w EXCEPT ![Len(w)] = Append(@, s[i + 1])])
  <2>1. OpenQuote(s)[i + 1] = q /\ i + 1 \in Inked(s)
    BY <1>1, <1>3, NextChar, Marks
  <2>2. WordsTo(s, i + 1) = [w EXCEPT ![Len(w)] = Append(@, s[i + 1])]
    BY <1>1, <1>2, <2>1, WordsNext
  <2> QED
    BY <1>1, <1>2, <2>1, <2>2 DEF Reads, Plain
<1>4. ASSUME s[i + 1] = q
      PROVE  Reads(s, i + 1, IF where = "quoted" THEN "gap" ELSE "word", q, w)
  <2>1. OpenQuote(s)[i + 1] = NoQuote /\ i + 1 \notin Inked(s)
    BY <1>1, <1>4, NextChar, Marks
  <2>2. WordsTo(s, i + 1) = w
    BY <1>1, <1>2, <2>1, WordsNext
  <2> QED
    BY <1>1, <1>2, <2>1, <2>2 DEF Reads, Plain
<1> QED
  BY <1>3, <1>4

\* A character of a word that is not within quotes.
LEMMA ReadsWord ==
  ASSUME NEW s \in Seq(Chars), NEW i \in 0..(Len(s) - 1), NEW q, NEW w,
         Reads(s, i, "word", q, w), s[i + 1] # Blank
  PROVE  /\ s[i + 1] \in Quotes => Reads(s, i + 1, "inner", s[i + 1], w)
         /\ s[i + 1] \notin Quotes => Reads(s, i + 1, "word", q, [w EXCEPT ![Len(w)] = Append(@, s[i + 1])])
<1>1. OpenQuote(s)[i] = NoQuote
  BY NextChar DEF Reads, Begun
<1>2. CASE Plain(s, i) /\ w = WordsTo(s, i)
  <2>1. WordOf(s)[i + 1] = WordOf(s)[i] /\ WordOf(s)[i] # i + 1 /\ WordOf(s)[i] # 0
    BY <1>1, <1>2, NextChar DEF Plain
  <2>2. Plain(s, i + 1)
    BY <1>2, <2>1 DEF Plain
  <2>3. ASSUME s[i + 1] \in Quotes PROVE Reads(s, i + 1, "inner", s[i + 1], w)
    <3>1. OpenQuote(s)[i + 1] = s[i + 1] /\ i + 1 \notin Inked(s)
      BY <1>1, <2>3, NextChar
    <3>2. WordsTo(s, i + 1) = w
      BY <1>2, <2>1, <3>1, WordsNext
    <3> QED
      BY <2>2, <3>1, <3>2 DEF Reads
  <2>4. ASSUME s[i + 1] \notin Quotes
        PROVE  Reads(s, i + 1, "word", q, [w EXCEPT ![Len(w)] = Append(@, s[i + 1])])
    <3>1. OpenQuote(s)[i + 1] = NoQuote /\ i + 1 \in Inked(s)
      BY <1>1, <2>4, NextChar
    <3>2. WordsTo(s, i + 1) = [w EXCEPT ![Len(w)] = Append(@, s[i + 1])]
      BY <1>2, <2>1, <3>1, WordsNext
    <3> QED
      BY <2>2, <3>1, <3>2 DEF Reads
  <2> QED
    BY <2>3, <2>4
<1>3. CASE Begun(s, i) /\ w = Append(WordsTo(s, i), <<>>)
  <2>1. s[i + 1] \notin Quotes /\ ~Plain(s, i)
    BY <1>3 DEF Begun
  <2>2. WordOf(s)[i + 1] = i + 1 /\ i + 1 # 0 /\ OpenQuote(s)[i + 1] = NoQuote /\ i + 1 \in Inked(s)
    BY <1>1, <2>1, NextChar, Marks
  <2>3. WordsTo(s, i + 1) = Append(WordsTo(s, i), <<s[i + 1]>>)
    BY <2>2, WordsNext
  <2>4. Append(WordsTo(s, i), <<s[i + 1]>>) = [w EXCEPT ![Len(w)] = Append(@, s[i + 1])]
    <3> DEFINE v == WordsTo(s, i)
               c == s[i + 1]
    <3>1. v \in Seq(Seq(Chars)) /\ c \in Chars /\ <<>> \in Seq(Chars) /\ <<c>> \in Seq(Chars) /\ Append(<<>>, c) = <<c>>
      BY NextChar
    <3> HIDE DEF v, c
    <3>2. w = Append(v, <<>>)
      BY <1>3 DEF v
    <3>3. Len(w) = Len(v) + 1 /\ w \in Seq(Seq(Chars)) /\ w[Len(w)] = <<>> /\ Len(v) \in Nat
          /\ \A k \in 1..Len(v) : w[k] = v[k]
      BY <3>1, <3>2
    <3> DEFINE x == [w EXCEPT ![Len(w)] = Append(@, c)]
               y == Append(v, <<c>>)
    <3>4. x \in Seq(Seq(Chars)) /\ Len(x) = Len(v) + 1 /\ x[Len(w)] = <<c>> /\ \A k \in 1..Len(v) : x[k] = v[k]
      BY <3>1, <3>3
    <3>5. y \in Seq(Seq(Chars)) /\ Len(y) = Len(v) + 1 /\ y[Len(v) + 1] = <<c>> /\ \A k \in 1..Len(v) : y[k] = v[k]
      BY <3>1, <3>3
    <3>6. \A k \in 1..(Len(v) + 1) : k = Len(v) + 1 \/ k \in 1..Len(v)
      BY <3>3
    <3> HIDE DEF x, y
    <3>7. x = y
      <4>1. Len(x) = Len(y) /\ \A k \in 1..Len(x) : x[k] = y[k]
        BY <3>3, <3>4, <3>5, <3>6
      <4> QED
        BY <3>4, <3>5, <4>1, SeqEqual
    <3> QED
      BY <3>7 DEF x, y, v, c
  <2>5. Plain(s, i + 1)
    BY <2>1, <2>2 DEF Plain
  <2> QED
    BY <2>1, <2>2, <2>3, <2>4, <2>5 DEF Reads
<1> QED
  BY <1>2, <1>3 DEF Reads

\* A word ends at a blank, or with the line, as does an open quote.
LEMMA ReadsEnd ==
  ASSUME NEW s \in Seq(Chars), NEW i \in 0..Len(s), NEW q, NEW w, NEW where, Reads(s, i, where, q, w)
  PROVE  /\ where = "word" /\ (i = Len(s) \/ s[i + 1] = Blank) => Reads(s, i, "gap", q, w)
         /\ where = "quoted" /\ i = Len(s) => Reads(s, i, "gap", q, w)
         /\ where = "inner" /\ i = Len(s) => Reads(s, i, "word", q, w)
         /\ where = "gap" /\ i = Len(s) => w = Words(s)
<1>1. i = Len(s) => ~(i < Len(s))
  OBVIOUS
<1> QED
  BY <1>1 DEF Reads, Begun, Words

\* With a word that is still to be begun there are more than are built.
LEMMA ReadsMore ==
  ASSUME NEW s \in Seq(Chars), NEW i \in 0..(Len(s) - 1), NEW q, NEW w,
         Reads(s, i, "gap", q, w), s[i + 1] # Blank
  PROVE  Len(Words(s)) > Len(w)
<1> DEFINE B == WordStarts(s, i)
           E == WordStarts(s, Len(s))
<1>1. WordOf(s)[i + 1] = i + 1 /\ w = WordsTo(s, i)
  BY ReadsStart DEF Reads
<1>2. i \in 0..Len(s) /\ Len(s) \in 0..Len(s) /\ Len(s) \in Nat /\ i + 1 \in 1..Len(s) /\ 1..i \subseteq 1..Len(s)
      /\ i + 1 \notin 1..i
  OBVIOUS
<1>3. Len(w) = Cardinality(B) /\ Len(Words(s)) = Cardinality(E) /\ E \subseteq 1..Len(s) /\ B \subseteq 1..i
  BY <1>1, <1>2, WordsToAre DEF Words
<1>4. B \subseteq E /\ i + 1 \in E /\ i + 1 \notin B
  BY <1>1, <1>2 DEF WordStarts
<1> HIDE DEF B, E
<1>5. IsFiniteSet(E) /\ Cardinality(E) \in Nat
  BY <1>2, <1>3, Positions
<1>6. Cardinality(B) <= Cardinality(E) /\ Cardinality(B) # Cardinality(E) /\ IsFiniteSet(B)
  BY <1>4, <1>5, FS_Subset
<1>7. Cardinality(B) \in Nat
  BY <1>6, FS_CardinalityType
<1> QED
  BY <1>3, <1>5, <1>6, <1>7

----
(* What a line is trimmed to, and its parts. *)

\* The least and the greatest of a finite set of positions.
LEMMA EndsOfSet ==
  ASSUME NEW S, S \subseteq Int, NEW m \in S
  PROVE  ((\A k \in S : m <= k) => Min(S) = m) /\ ((\A k \in S : k <= m) => Max(S) = m)
<1>1. ASSUME \A k \in S : m <= k PROVE Min(S) = m
  <2>1. Min(S) \in S /\ \A k \in S : Min(S) <= k
    BY <1>1, Zenon DEF Min
  <2>2. Min(S) \in Int /\ m \in Int /\ Min(S) <= m /\ m <= Min(S)
    BY <1>1, <2>1
  <2> QED
    BY <2>2
<1>2. ASSUME \A k \in S : k <= m PROVE Max(S) = m
  <2>1. \A k \in S : m >= k
    BY <1>2
  <2>2. Max(S) \in S /\ \A k \in S : Max(S) >= k
    BY <2>1, Zenon DEF Max
  <2>3. Max(S) \in Int /\ m \in Int /\ Max(S) >= m /\ Max(S) <= m
    BY <1>2, <2>2
  <2> QED
    BY <2>3
<1> QED
  BY <1>1, <1>2

\* The length and the elements of a stretch of a sequence.
LEMMA SubSeqIs ==
  ASSUME NEW l \in Seq(Chars), NEW a \in 1..(Len(l) + 1), NEW b \in (a - 1)..Len(l)
  PROVE  /\ SubSeq(l, a, b) \in Seq(Chars) /\ Len(SubSeq(l, a, b)) = b - a + 1
         /\ \A i \in 1..(b - a + 1) : SubSeq(l, a, b)[i] = l[a + i - 1]
         /\ SubSeq(l, a, b) = <<>> <=> b < a
<1>1. /\ SubSeq(l, a, b) \in Seq(Chars) /\ Len(SubSeq(l, a, b)) = b - a + 1
      /\ \A i \in 1..(b - a + 1) : SubSeq(l, a, b)[i] = l[a + i - 1]
  OBVIOUS
<1>2. SubSeq(l, a, b) = <<>> <=> Len(SubSeq(l, a, b)) = 0
  <2> DEFINE s == SubSeq(l, a, b)
  <2>1. s \in Seq(Chars)
    BY <1>1
  <2> HIDE DEF s
  <2>2. s = <<>> <=> Len(s) = 0
    BY <2>1
  <2> QED
    BY <2>2 DEF s
<1>3. a \in Int /\ b \in Int
  OBVIOUS
<1> QED
  BY <1>1, <1>2, <1>3

\* A stretch of a stretch.
LEMMA SubSeqTwice ==
  ASSUME NEW l \in Seq(Chars), NEW lo \in 1..(Len(l) + 1), NEW hi \in (lo - 1)..Len(l),
         NEW a \in lo..(hi + 1), NEW b \in (a - 1)..hi
  PROVE  SubSeq(SubSeq(l, lo, hi), a - lo + 1, b - lo + 1) = SubSeq(l, a, b)
<1> DEFINE s == SubSeq(l, lo, hi)
           t == SubSeq(s, a - lo + 1, b - lo + 1)
           u == SubSeq(l, a, b)
<1>1. s \in Seq(Chars) /\ Len(s) = hi - lo + 1 /\ \A i \in 1..(hi - lo + 1) : s[i] = l[lo + i - 1]
  BY SubSeqIs
<1>2. a - lo + 1 \in 1..(Len(s) + 1) /\ b - lo + 1 \in ((a - lo + 1) - 1)..Len(s)
  BY <1>1
<1>3. (b - lo + 1) - (a - lo + 1) + 1 = b - a + 1 /\ \A i \in Int : (a - lo + 1) + i - 1 = a - lo + i
  OBVIOUS
<1>4. t \in Seq(Chars) /\ Len(t) = b - a + 1 /\ \A i \in 1..(b - a + 1) : t[i] = s[a - lo + i]
  <2> HIDE DEF s
  <2>1. /\ t \in Seq(Chars) /\ Len(t) = (b - lo + 1) - (a - lo + 1) + 1
        /\ \A i \in 1..((b - lo + 1) - (a - lo + 1) + 1) : t[i] = s[(a - lo + 1) + i - 1]
    BY <1>1, <1>2, SubSeqIs
  <2> HIDE DEF t
  <2> QED
    BY <1>3, <2>1
<1>5. a \in 1..(Len(l) + 1) /\ b \in (a - 1)..Len(l)
  OBVIOUS
<1>6. u \in Seq(Chars) /\ Len(u) = b - a + 1 /\ \A i \in 1..(b - a + 1) : u[i] = l[a + i - 1]
  BY <1>5, SubSeqIs
<1>7. \A i \in 1..(b - a + 1) : a - lo + i \in 1..(hi - lo + 1) /\ lo + (a - lo + i) - 1 = a + i - 1
  OBVIOUS
<1> HIDE DEF s, t, u
<1>8. \A i \in 1..(b - a + 1) : t[i] = u[i]
  BY <1>1, <1>4, <1>6, <1>7
<1>9. t = u
  BY <1>4, <1>6, <1>8, SeqEqual
<1> QED
  BY <1>9 DEF s, t, u

\* A stretch is trimmed to what is between its first and its last ink.
LEMMA TrimmedIs ==
  ASSUME NEW l \in Seq(Chars), NEW lo \in 1..(Len(l) + 1), NEW hi \in (lo - 1)..Len(l)
  PROVE  /\ (\A i \in lo..hi : l[i] = Blank) => Trimmed(SubSeq(l, lo, hi)) = <<>>
         /\ \A a, b \in lo..hi :
              /\ a <= b /\ l[a] # Blank /\ l[b] # Blank
              /\ (\A i \in lo..(a - 1) : l[i] = Blank) /\ (\A i \in (b + 1)..hi : l[i] = Blank)
              => Trimmed(SubSeq(l, lo, hi)) = SubSeq(l, a, b)
<1> DEFINE s == SubSeq(l, lo, hi)
           ink == {i \in DOMAIN s : s[i] # Blank}
<1>1. s \in Seq(Chars) /\ Len(s) = hi - lo + 1 /\ \A i \in 1..(hi - lo + 1) : s[i] = l[lo + i - 1]
  BY SubSeqIs
<1>2. \A i \in 1..(hi - lo + 1) : lo + i - 1 \in lo..hi
  OBVIOUS
<1>3. ink = {i \in 1..(hi - lo + 1) : l[lo + i - 1] # Blank}
  BY <1>1
<1>4. Trimmed(s) = IF ink = {} THEN <<>> ELSE SubSeq(s, Min(ink), Max(ink))
  BY DEF Trimmed
<1> HIDE DEF s, ink
<1>5. ASSUME \A i \in lo..hi : l[i] = Blank PROVE Trimmed(s) = <<>>
  BY <1>2, <1>3, <1>4, <1>5
<1>6. ASSUME NEW a \in lo..hi, NEW b \in lo..hi, a <= b, l[a] # Blank, l[b] # Blank,
             \A i \in lo..(a - 1) : l[i] = Blank, \A i \in (b + 1)..hi : l[i] = Blank
      PROVE  Trimmed(s) = SubSeq(l, a, b)
  <2>1. a - lo + 1 \in 1..(hi - lo + 1) /\ b - lo + 1 \in 1..(hi - lo + 1)
        /\ lo + (a - lo + 1) - 1 = a /\ lo + (b - lo + 1) - 1 = b
    OBVIOUS
  <2>2. a - lo + 1 \in ink /\ b - lo + 1 \in ink
    BY <1>3, <1>6, <2>1
  <2>3. ASSUME NEW i \in ink PROVE a - lo + 1 <= i /\ i <= b - lo + 1
    <3>1. i \in 1..(hi - lo + 1) /\ lo + i - 1 \in lo..hi /\ l[lo + i - 1] # Blank
      BY <1>2, <1>3
    <3>2. lo + i - 1 \notin lo..(a - 1) /\ lo + i - 1 \notin (b + 1)..hi
      BY <1>6, <3>1
    <3> QED
      BY <3>1, <3>2
  <2>4. ink \subseteq Int /\ ink # {}
    <3>1. \A i \in 1..(hi - lo + 1) : i \in Int
      OBVIOUS
    <3> QED
      BY <1>3, <2>2, <3>1
  <2>5. Min(ink) = a - lo + 1 /\ Max(ink) = b - lo + 1
    <3> DEFINE m == a - lo + 1
               n == b - lo + 1
    <3>1. m \in ink /\ n \in ink /\ \A i \in ink : m <= i /\ i <= n
      BY <2>2, <2>3
    <3> HIDE DEF m, n
    <3>2. Min(ink) = m
      BY <2>4, <3>1, EndsOfSet
    <3>3. Max(ink) = n
      BY <2>4, <3>1, EndsOfSet
    <3> QED
      BY <3>2, <3>3 DEF m, n
  <2>6. a \in lo..(hi + 1) /\ b \in (a - 1)..hi
    BY <1>6
  <2>7. SubSeq(s, a - lo + 1, b - lo + 1) = SubSeq(l, a, b)
    BY <2>6, SubSeqTwice DEF s
  <2> QED
    BY <1>4, <2>4, <2>5, <2>7
<1> QED
  BY <1>5, <1>6 DEF s

\* What is left of a line when it is trimmed is left when it is trimmed again.
LEMMA TrimmedTwice ==
  ASSUME NEW l \in Seq(Chars), NEW a \in 1..Len(l), NEW b \in a..Len(l), l[a] # Blank, l[b] # Blank
  PROVE  Trimmed(SubSeq(l, a, b)) = SubSeq(l, a, b)
<1>1. a \in 1..(Len(l) + 1) /\ b \in (a - 1)..Len(l) /\ a \in a..b /\ b \in a..b /\ a <= b
      /\ a..(a - 1) = {} /\ (b + 1)..b = {}
  OBVIOUS
<1> QED
  BY <1>1, TrimmedIs

\* Where the parts begin that come before r.
Sofar(s, r) == {i \in Begins(s) : i < r}

\* Behind the pipes that follow r, the next part begins and goes up to a pipe or the end.
LEMMA PartNext ==
  ASSUME NEW s \in Seq(Chars), NEW r \in Nat \ {0}, r = 1 \/ s[r - 1] = PIPE_CHAR,
         NEW a \in r..Len(s), NEW b \in a..Len(s),
         \A i \in r..(a - 1) : s[i] = PIPE_CHAR, \A i \in a..b : s[i] # PIPE_CHAR,
         b < Len(s) => s[b + 1] = PIPE_CHAR
  PROVE  /\ Cardinality(Sofar(s, r)) \in Nat
         /\ Cardinality(Sofar(s, b + 2)) = Cardinality(Sofar(s, r)) + 1
         /\ Cardinality(Sofar(s, r)) + 1 \in 1..Cardinality(Begins(s))
         /\ Parts(s)[Cardinality(Sofar(s, r)) + 1] = SubSeq(s, a, b)
<1> DEFINE B == Begins(s)
           S == Sofar(s, r)
<1>1. B \subseteq 1..Len(s) /\ Len(s) \in Nat /\ S \subseteq 1..Len(s) /\ S \subseteq B
  BY DEF Begins, Sofar
<1>2. a \in B
  <2>1. a \in 1..Len(s) /\ s[a] # PIPE_CHAR
    OBVIOUS
  <2>2. a = r \/ a - 1 \in r..(a - 1)
    OBVIOUS
  <2> QED
    BY <2>1, <2>2 DEF Begins
<1>3. ASSUME NEW i \in B, r <= i, i < b + 2 PROVE i = a
  <2>1. i \in 1..Len(s) /\ s[i] # PIPE_CHAR /\ (i = 1 \/ s[i - 1] = PIPE_CHAR)
    BY DEF Begins
  <2>2. i \notin r..(a - 1)
    BY <2>1
  <2>3. i # b + 1
    BY <2>1
  <2>4. ~(i \in (a + 1)..b)
    <3>1. i \in (a + 1)..b => i - 1 \in a..b /\ i # 1
      OBVIOUS
    <3> QED
      BY <2>1, <3>1
  <2> QED
    BY <1>3, <2>1, <2>2, <2>3, <2>4
<1>4. Sofar(s, b + 2) = S \cup {a} /\ a \notin S /\ {i \in B : i <= a} = S \cup {a}
  <2>1. \A i \in S : i < b + 2 /\ i <= a
    BY <1>1 DEF Sofar
  <2>2. a < b + 2 /\ a <= a /\ ~(a < r)
    OBVIOUS
  <2>3. ASSUME NEW i \in B, i < b + 2 \/ i <= a PROVE i \in S \cup {a}
    <3>1. i \in Nat
      BY <1>1
    <3>2. i < r \/ (r <= i /\ i < b + 2)
      BY <2>3, <3>1
    <3> QED
      BY <1>3, <3>2 DEF Sofar
  <2> QED
    BY <1>1, <1>2, <2>1, <2>2, <2>3 DEF Sofar
<1> HIDE DEF B, S
<1>5. IsFiniteSet(S) /\ Cardinality(S) \in Nat
  BY <1>1, Positions
<1>6. Cardinality(S \cup {a}) = Cardinality(S) + 1
  BY <1>4, <1>5, FS_AddElement
<1>7. Rank(B, a) = Cardinality(S) + 1 /\ Rank(B, a) \in 1..Cardinality(B) /\ Nth(B, Rank(B, a)) = a
  BY <1>1, <1>2, <1>4, <1>6, Ranks DEF Rank
<1>8. Parts(s)[Cardinality(S) + 1] = PartAt(s, a)
  <2>1. Cardinality(S) + 1 \in 1..Cardinality(B) /\ Nth(B, Cardinality(S) + 1) = a
    BY <1>7
  <2> QED
    BY <2>1 DEF Parts, B
<1>9. PartAt(s, a) = SubSeq(s, a, b)
  <2> DEFINE J == {j \in a..Len(s) : \A k \in a..j : s[k] # PIPE_CHAR}
  <2>1. b \in J /\ J \subseteq Int
    OBVIOUS
  <2>2. ASSUME NEW j \in J PROVE j <= b
    <3>1. j \in a..Len(s) /\ \A k \in a..j : s[k] # PIPE_CHAR
      OBVIOUS
    <3>2. ASSUME b < j PROVE FALSE
      <4>1. b + 1 \in a..j /\ b < Len(s)
        BY <3>1, <3>2
      <4> QED
        BY <3>1, <4>1
    <3> QED
      BY <3>1, <3>2
  <2> HIDE DEF J
  <2>3. Max(J) = b
    BY <2>1, <2>2, EndsOfSet
  <2> QED
    BY <2>3 DEF PartAt, J
<1> QED
  BY <1>4, <1>5, <1>6, <1>7, <1>8, <1>9 DEF B, S

\* Only pipes follow: no more parts.
LEMMA PartsEnd ==
  ASSUME NEW s \in Seq(Chars), NEW r, \A i \in 1..Len(s) : i >= r => s[i] = PIPE_CHAR, r \in Int
  PROVE  Sofar(s, r) = Begins(s)
<1>1. ASSUME NEW i \in Begins(s) PROVE i < r
  <2>1. i \in 1..Len(s) /\ s[i] # PIPE_CHAR
    BY DEF Begins
  <2>2. ~(i >= r)
    BY <2>1
  <2> QED
    BY <2>1, <2>2
<1> QED
  BY <1>1 DEF Sofar

PipesIn(s) == {i \in DOMAIN s : s[i] = PIPE_CHAR}

\* Every part but the first follows a pipe.
LEMMA PartsFew ==
  ASSUME NEW s \in Seq(Chars)
  PROVE  /\ Cardinality(Begins(s)) <= Cardinality(PipesIn(s)) + 1
         /\ Cardinality(Begins(s)) \in Nat /\ Cardinality(PipesIn(s)) \in Nat
<1> DEFINE B == Begins(s)
           A == B \ {1}
           P == PipesIn(s)
           f == [i \in A |-> i - 1]
<1>1. B \subseteq 1..Len(s) /\ P \subseteq 1..Len(s) /\ Len(s) \in Nat
  BY DEF Begins, PipesIn
<1>2. IsFiniteSet(B) /\ IsFiniteSet(P) /\ Cardinality(B) \in Nat /\ Cardinality(P) \in Nat
  <2> HIDE DEF B, P
  <2> QED
    BY <1>1, Positions
<1>3. ASSUME NEW i \in A PROVE i - 1 \in P
  <2>1. i \in 1..Len(s) /\ i # 1 /\ s[i - 1] = PIPE_CHAR
    BY DEF Begins
  <2>2. i - 1 \in 1..Len(s)
    BY <2>1
  <2> QED
    BY <2>1, <2>2 DEF PipesIn
<1>4. f \in Injection(A, P)
  <2>1. \A i, j \in A : i - 1 = j - 1 => i = j
    BY <1>1
  <2>2. f \in [A -> P]
    BY <1>3
  <2>3. \A i, j \in A : f[i] = f[j] => i = j
    BY <2>1
  <2> HIDE DEF f, A, P
  <2> QED
    BY <2>2, <2>3, Zenon DEF Injection, IsInjective
<1>5. Cardinality(A) <= Cardinality(P)
  <2> HIDE DEF f, A, P
  <2> QED
    BY <1>2, <1>4, FS_Injection
<1>6. Cardinality(A) = IF 1 \in B THEN Cardinality(B) - 1 ELSE Cardinality(B)
  <2> HIDE DEF B
  <2> QED
    BY <1>2, FS_RemoveElement
<1> QED
  BY <1>2, <1>5, <1>6

----
(* What is to be returned, from what is known of the line's parts. *)

\* A line that is refused leaves no commands.
None(r) == [rc |-> r, commands |-> <<>>]

\* Each of the commands cs is what the part of s in its place means.
Listed(s, cs) == \A n \in 1..Len(cs) : Verdict(Parts(s)[n]) = OK /\ cs[n] = Words(Trimmed(Parts(s)[n]))

\* A line with nothing in it, or with too many pipes.
LEMMA MeaningRefused ==
  ASSUME NEW l, NEW alone
  PROVE  /\ Trimmed(l) = <<>> => Meaning(l, alone) = None(WARN_NO_CMDS)
         /\ Trimmed(l) # <<>> /\ ~alone /\ Cardinality(PipesIn(Trimmed(l))) >= CMD_MAX =>
              Meaning(l, alone) = None(ERR_TOO_MANY_COMMANDS)
BY DEF Meaning, None, PipesIn

\* The line as one command.
LEMMA MeaningAlone ==
  ASSUME NEW l, Trimmed(l) # <<>>
  PROVE  /\ Verdict(Trimmed(l)) = OK => Meaning(l, TRUE) = [rc |-> OK, commands |-> <<Words(Trimmed(Trimmed(l)))>>]
         /\ Verdict(Trimmed(l)) # OK => Meaning(l, TRUE) = None(Verdict(Trimmed(l)))
<1> DEFINE s == Trimmed(l)
           parts == <<s>>
           bad == {n \in DOMAIN parts : Verdict(parts[n]) # OK}
<1>1. DOMAIN parts = {1} /\ parts[1] = s /\ parts # <<>>
  OBVIOUS
<1>2. Meaning(l, TRUE) = IF bad # {} THEN None(Verdict(parts[Min(bad)]))
                         ELSE [rc |-> OK, commands |-> [n \in DOMAIN parts |-> Words(Trimmed(parts[n]))]]
  BY <1>1 DEF Meaning, None
<1> HIDE DEF s, parts
<1>3. ASSUME Verdict(s) = OK PROVE Meaning(l, TRUE) = [rc |-> OK, commands |-> <<Words(Trimmed(s))>>]
  <2>1. bad = {}
    BY <1>1, <1>3
  <2>2. [n \in DOMAIN parts |-> Words(Trimmed(parts[n]))] = <<Words(Trimmed(s))>>
    <3>1. [n \in DOMAIN parts |-> Words(Trimmed(parts[n]))] = [n \in 1..1 |-> Words(Trimmed(s))]
      <4>1. DOMAIN parts = 1..1 /\ \A n \in 1..1 : parts[n] = s
        BY <1>1
      <4> QED
        BY <4>1
    <3> QED
      BY <3>1
  <2> QED
    BY <1>2, <2>1, <2>2
<1>4. ASSUME Verdict(s) # OK PROVE Meaning(l, TRUE) = None(Verdict(s))
  <2>1. bad = {1}
    BY <1>1, <1>4
  <2>2. Min(bad) = 1
    <3>1. \A k \in bad : 1 <= k
      BY <2>1
    <3>2. 1 \in bad /\ bad \subseteq Int
      BY <2>1
    <3> HIDE DEF bad
    <3> QED
      BY <3>1, <3>2, EndsOfSet
  <2> QED
    BY <1>1, <1>2, <2>1, <2>2
<1> QED
  BY <1>3, <1>4 DEF s

\* The line as a list of commands, all of whose parts are listed.
LEMMA MeaningOfList ==
  ASSUME NEW l, Trimmed(l) # <<>>, Cardinality(PipesIn(Trimmed(l))) < CMD_MAX,
         Cardinality(PipesIn(Trimmed(l))) \in Nat, Cardinality(Begins(Trimmed(l))) \in Nat,
         NEW cs \in Seq(Seq(Seq(Chars))), Listed(Trimmed(l), cs)
  PROVE  /\ Len(cs) = Cardinality(Begins(Trimmed(l))) =>
              Meaning(l, FALSE) = IF cs = <<>> THEN None(WARN_NO_CMDS) ELSE [rc |-> OK, commands |-> cs]
         /\ \A r : r # OK /\ Len(cs) + 1 \in 1..Cardinality(Begins(Trimmed(l)))
                   /\ Verdict(Parts(Trimmed(l))[Len(cs) + 1]) = r =>
              Meaning(l, FALSE) = None(r)
<1> DEFINE s == Trimmed(l)
           c == Cardinality(Begins(s))
           parts == Parts(s)
           bad == {n \in DOMAIN parts : Verdict(parts[n]) # OK}
           all == [n \in DOMAIN parts |-> Words(Trimmed(parts[n]))]
<1>1. DOMAIN parts = 1..c /\ (parts = <<>> <=> c = 0)
  <2>1. parts = [n \in 1..c |-> PartAt(s, Nth(Begins(s), n))]
    BY DEF Parts
  <2>2. DOMAIN parts = 1..c
    BY <2>1
  <2> HIDE DEF c, parts
  <2>3. c = 0 => parts = <<>>
    BY <2>1
  <2>4. parts = <<>> => c = 0
    <3>1. parts = <<>> => 1..c = {}
      BY <2>2
    <3>2. c \in Nat
      BY DEF c
    <3>3. c # 0 => 1 \in 1..c
      BY <3>2
    <3> QED
      BY <3>1, <3>3
  <2> QED
    BY <2>2, <2>3, <2>4
<1>2. ~(Cardinality({i \in DOMAIN s : s[i] = PIPE_CHAR}) >= CMD_MAX)
  BY CmdLineAssumption DEF PipesIn
<1>3. Meaning(l, FALSE) = IF parts = <<>> THEN None(WARN_NO_CMDS)
                          ELSE IF bad # {} THEN None(Verdict(parts[Min(bad)])) ELSE [rc |-> OK, commands |-> all]
  BY <1>2 DEF Meaning, None
<1>4. \A n \in 1..Len(cs) : Verdict(parts[n]) = OK /\ cs[n] = Words(Trimmed(parts[n]))
  BY DEF Listed
<1>5. Len(cs) \in Nat /\ c \in Nat
  OBVIOUS
<1> HIDE DEF parts, c, s
<1>6. ASSUME Len(cs) = c
      PROVE  Meaning(l, FALSE) = IF cs = <<>> THEN None(WARN_NO_CMDS) ELSE [rc |-> OK, commands |-> cs]
  <2>1. bad = {}
    BY <1>1, <1>4, <1>6
  <2>2. all = cs
    <3>1. cs = [n \in 1..Len(cs) |-> cs[n]]
      OBVIOUS
    <3> QED
      BY <1>1, <1>4, <1>6, <3>1
  <2>3. cs = <<>> <=> c = 0
    BY <1>6
  <2> HIDE DEF bad, all
  <2> QED
    BY <1>1, <1>3, <2>1, <2>2, <2>3
<1>7. ASSUME NEW r, r # OK, Len(cs) + 1 \in 1..c, Verdict(parts[Len(cs) + 1]) = r
      PROVE  Meaning(l, FALSE) = None(r)
  <2>1. Len(cs) + 1 \in bad /\ bad \subseteq Int
    BY <1>1, <1>7
  <2>2. ASSUME NEW n \in bad PROVE Len(cs) + 1 <= n
    <3>1. n \in 1..c /\ n \notin 1..Len(cs)
      BY <1>1, <1>4
    <3> QED
      BY <1>5, <3>1
  <2>3. Min(bad) = Len(cs) + 1
    <3> HIDE DEF bad
    <3> QED
      BY <2>1, <2>2, EndsOfSet
  <2>4. parts # <<>> /\ bad # {}
    BY <1>1, <1>5, <1>7, <2>1
  <2> HIDE DEF bad, all
  <2> QED
    BY <1>3, <1>7, <2>3, <2>4
<1> QED
  BY <1>6, <1>7 DEF s, c, parts

\* What a part is worth, from its words.
LEMMA VerdictIs ==
  ASSUME NEW p
  PROVE  /\ Trimmed(p) = <<>> => Verdict(p) = WARN_NO_CMDS
         /\ Trimmed(p) # <<>> /\ Len(Words(Trimmed(p))) >= CMD_ARGV_MAX => Verdict(p) = ERR_CMD_OR_ARGS_TOO_BIG
         /\ Trimmed(p) # <<>> /\ ~(Len(Words(Trimmed(p))) >= CMD_ARGV_MAX) => Verdict(p) = OK
         /\ WARN_NO_CMDS # OK /\ ERR_CMD_OR_ARGS_TOO_BIG # OK
BY DEF Verdict, WARN_NO_CMDS, ERR_CMD_OR_ARGS_TOO_BIG, OK

----
(* The parser's steps, against the meaning of the line. *)

\* The characters in the buffer, as they are in the line.
Command == SubSeq(line, from, to)

\* The line without its blanks begins behind Base.
Base == last - Len(Trimmed(line))

\* n of its parts are begun before cut, and commands are what those listed mean.
InList(n) ==
    /\ Base \in Nat /\ last <= Len(line) /\ Base < last
    /\ Trimmed(line) = SubSeq(line, Base + 1, last)
    /\ Cardinality(PipesIn(Trimmed(line))) < CMD_MAX
    /\ Base < cut /\ (cut = Base + 1 \/ cut > last \/ line[cut - 1] = PIPE_CHAR)
    /\ n = Cardinality(Sofar(Trimmed(line), cut - Base))
    /\ Listed(Trimmed(line), commands)

\* The part that is being read, trimmed, is from..to.
InPart ==
    IF single
    THEN Trimmed(line) = Command /\ Trimmed(Trimmed(line)) = Command /\ commands = <<>>
    ELSE /\ InList(Len(commands) + 1)
         /\ Len(commands) + 1 \in 1..Cardinality(Begins(Trimmed(line)))
         /\ Trimmed(Parts(Trimmed(line))[Len(commands) + 1]) = Command

\* What the parser returns is what the line means.
Returned == [rc |-> rc, commands |-> commands]
Answers  == at = "parsed" /\ rc # ERR_MEMORY => Returned = Meaning(line, single)

\* At each step of the parser: what is listed and what is read of the command
\* in hand is what the line means so far.
MeaningInv ==
    /\ single => at # "list"
    /\ ~single /\ at = "list" => InList(Len(commands))
    /\ at \in Copying => InPart /\ Reads(Command, src - from, at, quote, argv)
    /\ Answers

\* The characters of the buffer are those of the line from "from" on.
LEMMA CommandIs ==
  ASSUME Inv, at \in Copying
  PROVE  /\ line \in Seq(Chars) /\ from \in 1..Len(line) /\ to \in from..Len(line)
         /\ Command \in Seq(Chars) /\ Len(Command) = to - from + 1 /\ Command # <<>>
         /\ src - from \in 0..Len(Command)
         /\ Left => /\ src - from \in 0..(Len(Command) - 1)
                    /\ Command[src - from + 1] = Here /\ (src + 1) - from = src - from + 1
         /\ ~Left => src - from = Len(Command)
<1>1. /\ line \in Seq(Chars) /\ from \in 1..Len(line) /\ to \in from..Len(line) /\ src \in from..(to + 1)
  BY DEF Inv, ParserTypes, PositionTypes, CopyInv, Copying, Lines
<1>2. from \in 1..(Len(line) + 1) /\ to \in (from - 1)..Len(line) /\ ~(to < from)
  BY <1>1
<1>3. /\ Command \in Seq(Chars) /\ Len(Command) = to - from + 1 /\ Command # <<>>
      /\ \A i \in 1..(to - from + 1) : Command[i] = line[from + i - 1]
  BY <1>1, <1>2, SubSeqIs DEF Command
<1>4. /\ src - from \in 0..(to - from + 1) /\ (src + 1) - from = src - from + 1
      /\ src <= to => src - from \in 0..((to - from + 1) - 1) /\ src - from + 1 \in 1..(to - from + 1)
                      /\ from + (src - from + 1) - 1 = src
      /\ ~(src <= to) => src - from = to - from + 1
  BY <1>1
<1> QED
  BY <1>1, <1>3, <1>4 DEF Left, Here

\* Within a command only what is read changes.
LEMMA PartKept ==
  ASSUME Framed, UNCHANGED commands, InPart
  PROVE  InPart' /\ Command' = Command
<1>1. Command' = Command
  BY DEF Command, Framed
<1>2. Base' = Base
  BY DEF Base, Framed
<1>3. InList(Len(commands) + 1)' <=> InList(Len(commands) + 1)
  BY <1>2 DEF InList, Framed
<1> QED
  BY <1>1, <1>3 DEF InPart, Framed

\* The character here, taken as the next one of the command.
LEMMA ReadNext ==
  ASSUME Framed, UNCHANGED commands, MeaningInv, at \in Copying, at' \in Copying,
         Reads(Command, src' - from, at', quote', argv')
  PROVE  MeaningInv'
<1>1. InPart' /\ Command' = Command
  BY PartKept DEF MeaningInv
<1>2. src' - from = (src - from)'
  BY DEF Framed
<1>3. Reads(Command, src - from, at, quote, argv)'
  BY <1>1, <1>2
<1> QED
  BY <1>1, <1>3 DEF MeaningInv, Answers, Copying

LEMMA MeansSkipBlank == ASSUME Inv, MeaningInv, SkipBlank, Framed PROVE MeaningInv'
<1>1. at = "gap" /\ Left /\ Here = Blank /\ src' = src + 1 /\ UNCHANGED <<at, quote, argv, commands>>
  BY DEF SkipBlank, Read
<1>2. at \in Copying
  BY <1>1 DEF Copying
<1>3. Reads(Command, src - from, "gap", quote, argv)
  BY <1>1, <1>2 DEF MeaningInv
<1>4. Reads(Command, src - from + 1, "gap", quote, argv)
  BY <1>1, <1>2, <1>3, CommandIs, ReadsBlank
<1>5. src' - from = src - from + 1
  BY <1>1, <1>2, CommandIs
<1> QED
  BY <1>1, <1>2, <1>4, <1>5, ReadNext

LEMMA MeansStartWord == ASSUME Inv, MeaningInv, StartWord, Framed PROVE MeaningInv'
<1>1. /\ at = "gap" /\ Left /\ Here # Blank /\ argv' = Append(argv, <<>>) /\ UNCHANGED commands
      /\ IF Here \in Quotes THEN at' = "quoted" /\ quote' = Here /\ src' = src + 1
                            ELSE at' = "word" /\ UNCHANGED <<quote, src>>
  BY DEF StartWord, Goto, Read
<1>2. at \in Copying /\ at' \in Copying
  BY <1>1 DEF Copying
<1>3. Reads(Command, src - from, "gap", quote, argv)
  BY <1>1, <1>2 DEF MeaningInv
<1>4. /\ Here \in Quotes => Reads(Command, src - from + 1, "quoted", Here, Append(argv, <<>>))
      /\ Here \notin Quotes => Reads(Command, src - from, "word", quote, Append(argv, <<>>))
  BY <1>1, <1>2, <1>3, CommandIs, ReadsStart
<1>5. (src + 1) - from = src - from + 1
  BY <1>1, <1>2, CommandIs
<1>6. Reads(Command, src' - from, at', quote', argv')
  BY <1>1, <1>4, <1>5
<1> QED
  BY <1>1, <1>2, <1>6, ReadNext

\* QuotedWord, and InnerQuote, up to the quote that closes.
LEMMA MeansEnclosed ==
  ASSUME Inv, MeaningInv, Framed, at \in {"quoted", "inner"}, UNCHANGED <<quote, commands>>,
         IF Left /\ Here # quote THEN Copy /\ UNCHANGED at
         ELSE PassQuote /\ UNCHANGED argv /\ at' = IF at = "quoted" THEN "gap" ELSE "word"
  PROVE  MeaningInv'
<1>1. at \in Copying /\ at' \in Copying /\ quote \in Quotes
  BY DEF Copying, Inv, ParserTypes
<1>2. Reads(Command, src - from, at, quote, argv)
  BY <1>1 DEF MeaningInv
<1>3. CASE Left /\ Here # quote
  <2>1. src' = src + 1 /\ argv' = [argv EXCEPT ![Len(argv)] = Append(@, Here)]
    BY <1>3 DEF Copy, Read
  <2>2. Reads(Command, src - from + 1, at, quote, argv')
    BY <1>1, <1>2, <1>3, <2>1, CommandIs, ReadsEnclosed
  <2>3. src' - from = src - from + 1
    BY <1>1, <1>3, <2>1, CommandIs
  <2> QED
    BY <1>1, <1>3, <2>2, <2>3, ReadNext
<1>4. CASE Left /\ Here = quote
  <2>1. src' = src + 1 /\ argv' = argv
    BY <1>4 DEF PassQuote
  <2>2. Reads(Command, src - from + 1, at', quote, argv)
    BY <1>1, <1>2, <1>4, CommandIs, ReadsEnclosed
  <2>3. src' - from = src - from + 1
    BY <1>1, <1>4, <2>1, CommandIs
  <2> QED
    BY <1>1, <2>1, <2>2, <2>3, ReadNext
<1>5. CASE ~Left
  <2>1. src' = src /\ argv' = argv
    BY <1>5 DEF PassQuote
  <2>2. Reads(Command, src - from, at', quote, argv)
    BY <1>1, <1>2, <1>5, CommandIs, ReadsEnd
  <2> QED
    BY <1>1, <2>1, <2>2, ReadNext
<1> QED
  BY <1>3, <1>4, <1>5

LEMMA MeansQuotedWord == ASSUME Inv, MeaningInv, QuotedWord, Framed PROVE MeaningInv'
<1>1. /\ at = "quoted" /\ UNCHANGED <<quote, commands>>
      /\ IF Left /\ Here # quote THEN Copy /\ UNCHANGED at
         ELSE PassQuote /\ UNCHANGED argv /\ at' = IF at = "quoted" THEN "gap" ELSE "word"
  BY DEF QuotedWord, Terminate, Goto
<1> QED
  BY <1>1, MeansEnclosed

LEMMA MeansInnerQuote == ASSUME Inv, MeaningInv, InnerQuote, Framed PROVE MeaningInv'
<1>1. /\ at = "inner" /\ UNCHANGED <<quote, commands>>
      /\ IF Left /\ Here # quote THEN Copy /\ UNCHANGED at
         ELSE PassQuote /\ UNCHANGED argv /\ at' = IF at = "quoted" THEN "gap" ELSE "word"
  BY DEF InnerQuote, Goto
<1> QED
  BY <1>1, MeansEnclosed

LEMMA MeansPlainWord == ASSUME Inv, MeaningInv, PlainWord, Framed PROVE MeaningInv'
<1>1. at = "word" /\ at \in Copying /\ UNCHANGED commands
  BY DEF PlainWord, Copying
<1>2. Reads(Command, src - from, "word", quote, argv)
  BY <1>1 DEF MeaningInv
<1>3. CASE ~Left \/ Here = Blank
  <2>1. at' = "gap" /\ at' \in Copying /\ UNCHANGED <<quote, src, argv>>
    BY <1>3 DEF PlainWord, Terminate, Goto, Copying
  <2>2. Reads(Command, src - from, "gap", quote, argv)
    <3>1. src - from = Len(Command) \/ Command[src - from + 1] = Blank
      BY <1>1, <1>3, CommandIs
    <3> QED
      BY <1>1, <1>2, <3>1, CommandIs, ReadsEnd
  <2> QED
    BY <1>1, <2>1, <2>2, ReadNext
<1>4. CASE Left /\ Here # Blank
  <2>1. /\ Here \in Quotes => at' = "inner" /\ src' = src + 1 /\ quote' = Here /\ argv' = argv
        /\ Here \notin Quotes => /\ at' = "word" /\ src' = src + 1 /\ quote' = quote
                                 /\ argv' = [argv EXCEPT ![Len(argv)] = Append(@, Here)]
    BY <1>1, <1>4 DEF PlainWord, Copy, Read, Goto
  <2>2. /\ Here \in Quotes => Reads(Command, src - from + 1, "inner", Here, argv)
        /\ Here \notin Quotes =>
             Reads(Command, src - from + 1, "word", quote, [argv EXCEPT ![Len(argv)] = Append(@, Here)])
    BY <1>1, <1>2, <1>4, CommandIs, ReadsWord
  <2>3. (src + 1) - from = src - from + 1 /\ at' \in Copying
    BY <1>1, <1>4, <2>1, CommandIs DEF Copying
  <2>4. Reads(Command, src' - from, at', quote', argv')
    BY <2>1, <2>2, <2>3
  <2> QED
    BY <1>1, <2>3, <2>4, ReadNext
<1> QED
  BY <1>3, <1>4

\* The types of what InList is about.
LEMMA ListFacts ==
  ASSUME Inv, NEW n, InList(n)
  PROVE  /\ line \in Seq(Chars) /\ Trimmed(line) \in Seq(Chars) /\ Trimmed(line) # <<>>
         /\ Len(Trimmed(line)) = last - Base
         /\ \A i \in 1..(last - Base) : Trimmed(line)[i] = line[Base + i]
         /\ Cardinality(PipesIn(Trimmed(line))) \in Nat /\ Cardinality(Begins(Trimmed(line))) \in Nat
         /\ Cardinality(Begins(Trimmed(line))) <= Cardinality(PipesIn(Trimmed(line))) + 1
         /\ Base \in Nat /\ last \in Nat /\ cut \in Nat /\ commands \in Seq(Seq(Seq(Chars)))
<1>1. line \in Seq(Chars) /\ last \in Nat /\ cut \in Nat /\ commands \in Seq(Seq(Seq(Chars)))
  BY DEF Inv, ParserTypes, PositionTypes, Lines
<1>2. Base \in Nat /\ last <= Len(line) /\ Base < last /\ Trimmed(line) = SubSeq(line, Base + 1, last)
  BY DEF InList
<1> HIDE DEF Base
<1>3. Base + 1 \in 1..(Len(line) + 1) /\ last \in ((Base + 1) - 1)..Len(line) /\ ~(last < Base + 1)
      /\ last - (Base + 1) + 1 = last - Base /\ \A i \in Int : (Base + 1) + i - 1 = Base + i
  BY <1>1, <1>2
<1> DEFINE s == SubSeq(line, Base + 1, last)
<1>4. /\ s \in Seq(Chars) /\ s # <<>> /\ Len(s) = last - (Base + 1) + 1
      /\ \A i \in 1..(last - (Base + 1) + 1) : s[i] = line[(Base + 1) + i - 1]
  BY <1>1, <1>3, SubSeqIs
<1> HIDE DEF s
<1>5. Len(s) = last - Base /\ \A i \in 1..(last - Base) : s[i] = line[Base + i]
  <2>1. \A i \in 1..(last - Base) : (Base + 1) + i - 1 = Base + i
    BY <1>1, <1>2
  <2> QED
    BY <1>3, <1>4, <2>1
<1>6. Cardinality(PipesIn(s)) \in Nat /\ Cardinality(Begins(s)) \in Nat
      /\ Cardinality(Begins(s)) <= Cardinality(PipesIn(s)) + 1
  BY <1>4, PartsFew
<1> QED
  BY <1>1, <1>2, <1>4, <1>5, <1>6 DEF s

\* What is returned for a list whose next part is worth r.
LEMMA PartRefused ==
  ASSUME Inv, NEW r, r # OK, NEW n, InList(n),
         Len(commands) + 1 \in 1..Cardinality(Begins(Trimmed(line))),
         Verdict(Parts(Trimmed(line))[Len(commands) + 1]) = r
  PROVE  Meaning(line, FALSE) = None(r)
<1>1. /\ Trimmed(line) # <<>> /\ Cardinality(PipesIn(Trimmed(line))) \in Nat
      /\ Cardinality(Begins(Trimmed(line))) \in Nat /\ commands \in Seq(Seq(Seq(Chars)))
  BY ListFacts
<1>2. Cardinality(PipesIn(Trimmed(line))) < CMD_MAX /\ Listed(Trimmed(line), commands)
  BY DEF InList
<1> QED
  BY <1>1, <1>2, MeaningOfList

\* A step that refuses the line returns its meaning, if the meaning is to refuse it so.
LEMMA RefusedAnswers ==
  ASSUME Inv, NEW r, Reject(r), UNCHANGED <<line, single>>, r # ERR_MEMORY => Meaning(line, single) = None(r)
  PROVE  MeaningInv'
<1>1. Returned' = None(r)
  BY DEF Reject, Returned, None
<1>2. at' = "parsed" /\ rc' = r
  BY DEF Reject
<1>3. Answers'
  BY <1>1, <1>2 DEF Answers
<1> QED
  BY <1>2, <1>3 DEF MeaningInv, Copying

\* The part in hand, and what it is worth.
Part == IF single THEN Trimmed(line) ELSE Parts(Trimmed(line))[Len(commands) + 1]

\* A part whose words are too many, or not, has that verdict.
LEMMA PartWorth ==
  ASSUME Inv, MeaningInv, at = "gap"
  PROVE  /\ Trimmed(Part) = Command /\ Command # <<>> /\ Len(argv) \in Nat /\ Len(Words(Command)) \in Nat
         /\ ~Left => argv = Words(Command) /\ Verdict(Part) = OK
         /\ Left /\ Here # Blank /\ Full => Verdict(Part) = ERR_CMD_OR_ARGS_TOO_BIG
<1>1. at \in Copying
  BY DEF Copying
<1>2. Reads(Command, src - from, "gap", quote, argv) /\ InPart
  BY <1>1 DEF MeaningInv
<1>3. Trimmed(Part) = Command /\ Command # <<>> /\ Command \in Seq(Chars)
  BY <1>1, <1>2, CommandIs DEF InPart, Part
<1>4. Len(argv) \in Nat /\ Len(argv) <= CMD_ARGV_MAX - 1 /\ CMD_ARGV_MAX \in Nat
  BY CmdLineAssumption DEF Inv, ParserTypes, FitsArrays, CMD_ARGV_MAX
<1>5. Len(Words(Command)) \in Nat
  <2>1. Len(Command) \in 0..Len(Command)
    BY <1>3
  <2> QED
    BY <1>3, <2>1, WordsToAre DEF Words
<1>6. ASSUME ~Left PROVE argv = Words(Command) /\ Verdict(Part) = OK
  <2>1. src - from = Len(Command) /\ Len(Command) \in 0..Len(Command)
    BY <1>1, <1>3, <1>6, CommandIs
  <2>2. argv = Words(Command)
    BY <1>2, <1>3, <2>1, ReadsEnd
  <2>3. ~(Len(argv) >= CMD_ARGV_MAX)
    BY <1>4
  <2> QED
    BY <1>3, <2>2, <2>3, VerdictIs
<1>7. ASSUME Left, Here # Blank, Full PROVE Verdict(Part) = ERR_CMD_OR_ARGS_TOO_BIG
  <2>1. Len(Words(Command)) > Len(argv)
    BY <1>1, <1>2, <1>3, <1>7, CommandIs, ReadsMore
  <2>2. Len(argv) >= CMD_ARGV_MAX - 1
    BY <1>7 DEF Full
  <2>3. Len(Words(Command)) >= CMD_ARGV_MAX
    BY <1>4, <1>5, <2>1, <2>2
  <2> QED
    BY <1>3, <2>3, VerdictIs
<1> QED
  BY <1>3, <1>4, <1>5, <1>6, <1>7

LEMMA MeansTooManyArgs == ASSUME Inv, MeaningInv, TooManyArgs, Framed PROVE MeaningInv'
<1>1. at = "gap" /\ Left /\ Here # Blank /\ Full /\ Reject(ERR_CMD_OR_ARGS_TOO_BIG)
  BY DEF TooManyArgs
<1>2. Trimmed(Part) = Command /\ Command # <<>> /\ Verdict(Part) = ERR_CMD_OR_ARGS_TOO_BIG
  BY <1>1, PartWorth
<1>3. InPart /\ single \in BOOLEAN /\ ERR_CMD_OR_ARGS_TOO_BIG # OK
  BY <1>1, VerdictIs DEF MeaningInv, Copying, Inv, ParserTypes
<1>4. Meaning(line, single) = None(ERR_CMD_OR_ARGS_TOO_BIG)
  <2>1. CASE single
    <3>1. Trimmed(line) # <<>> /\ Verdict(Trimmed(line)) = ERR_CMD_OR_ARGS_TOO_BIG /\ single = TRUE
      BY <1>2, <1>3, <2>1 DEF InPart, Part
    <3> QED
      BY <1>3, <3>1, MeaningAlone
  <2>2. CASE ~single
    <3>1. single = FALSE /\ InList(Len(commands) + 1)
          /\ Len(commands) + 1 \in 1..Cardinality(Begins(Trimmed(line)))
          /\ Verdict(Parts(Trimmed(line))[Len(commands) + 1]) = ERR_CMD_OR_ARGS_TOO_BIG
      BY <1>2, <1>3, <2>2 DEF InPart, Part
    <3> QED
      BY <1>3, <3>1, PartRefused
  <2> QED
    BY <2>1, <2>2
<1> QED
  BY <1>1, <1>4, RefusedAnswers DEF Framed

LEMMA MeansEndBuff == ASSUME Inv, MeaningInv, EndBuff, Framed PROVE MeaningInv'
<1>1. at = "gap" /\ ~Left /\ commands' = Append(commands, argv) /\ at' = (IF single THEN "parsed" ELSE "list")
      /\ (single => rc' = OK)
  BY DEF EndBuff, Goto
<1>2. Trimmed(Part) = Command /\ Command # <<>> /\ argv = Words(Command) /\ Verdict(Part) = OK
  BY <1>1, PartWorth
<1>3. InPart /\ single \in BOOLEAN
  BY <1>1 DEF MeaningInv, Copying, Inv, ParserTypes
<1>4. CASE single
  <2>1. Trimmed(line) # <<>> /\ Verdict(Trimmed(line)) = OK /\ single = TRUE /\ commands = <<>>
        /\ Trimmed(Trimmed(line)) = Command
    BY <1>2, <1>3, <1>4 DEF InPart, Part
  <2>2. Meaning(line, TRUE) = [rc |-> OK, commands |-> <<argv>>]
    BY <1>2, <2>1, MeaningAlone
  <2>3. Append(<<>>, argv) = <<argv>>
    OBVIOUS
  <2>4. Returned' = [rc |-> OK, commands |-> <<argv>>] /\ at' = "parsed"
    BY <1>1, <1>4, <2>1, <2>3 DEF Returned
  <2>5. Answers'
    BY <2>1, <2>2, <2>4 DEF Answers, Framed
  <2> QED
    BY <2>4, <2>5 DEF MeaningInv, Copying
<1>5. CASE ~single
  <2>1. InList(Len(commands) + 1) /\ Trimmed(Parts(Trimmed(line))[Len(commands) + 1]) = Command
        /\ Verdict(Parts(Trimmed(line))[Len(commands) + 1]) = OK
    BY <1>2, <1>3, <1>5 DEF InPart, Part
  <2>2. commands \in Seq(Seq(Seq(Chars))) /\ argv \in Seq(Seq(Chars))
    BY DEF Inv, ParserTypes
  <2>3. Len(commands') = Len(commands) + 1 /\ commands'[Len(commands) + 1] = argv
        /\ (\A n \in 1..Len(commands) : commands'[n] = commands[n])
        /\ \A n \in 1..(Len(commands) + 1) : n = Len(commands) + 1 \/ n \in 1..Len(commands)
    BY <1>1, <2>2
  <2>4. Listed(Trimmed(line), commands')
    <3>1. Listed(Trimmed(line), commands)
      BY <2>1 DEF InList
    <3> QED
      BY <1>2, <2>1, <2>3, <3>1 DEF Listed
  <2>5. Base' = Base
    BY DEF Base, Framed
  <2>6. InList(Len(commands))'
    BY <2>1, <2>3, <2>4, <2>5 DEF InList, Framed
  <2> QED
    BY <1>1, <1>5, <2>6 DEF MeaningInv, Copying, Answers, Framed
<1> QED
  BY <1>4, <1>5

\* The pipes of a stretch of the line are those of what is cut out there.
LEMMA PipesMoved ==
  ASSUME line \in Seq(Chars), NEW a \in 1..Len(line), NEW b \in a..Len(line)
  PROVE  PipeCount(a, b) = Cardinality(PipesIn(SubSeq(line, a, b)))
<1> DEFINE s == SubSeq(line, a, b)
           S == {i \in a..b : line[i] = PIPE_CHAR}
           T == PipesIn(s)
           f == [i \in S |-> i - a + 1]
<1>1. s \in Seq(Chars) /\ Len(s) = b - a + 1 /\ \A i \in 1..(b - a + 1) : s[i] = line[a + i - 1]
  <2>1. a \in 1..(Len(line) + 1) /\ b \in (a - 1)..Len(line)
    OBVIOUS
  <2> QED
    BY <2>1, SubSeqIs
<1>2. T = {i \in 1..(b - a + 1) : line[a + i - 1] = PIPE_CHAR}
  BY <1>1 DEF PipesIn
<1> HIDE DEF s, T
<1>3. IsFiniteSet(S)
  <2>1. IsFiniteSet(a..b) /\ S \subseteq a..b
    BY FS_Interval
  <2> QED
    BY <2>1, FS_Subset
<1>4. ASSUME NEW i \in S PROVE i - a + 1 \in T
  <2>1. i - a + 1 \in 1..(b - a + 1) /\ a + (i - a + 1) - 1 = i
    OBVIOUS
  <2> QED
    BY <1>2, <2>1
<1>5. ASSUME NEW i \in T PROVE \E j \in S : j - a + 1 = i
  <2>1. i \in 1..(b - a + 1) /\ line[a + i - 1] = PIPE_CHAR
    BY <1>2
  <2>2. a + i - 1 \in a..b /\ (a + i - 1) - a + 1 = i
    BY <2>1
  <2> QED
    BY <2>1, <2>2
<1>6. \A i, j \in S : i - a + 1 = j - a + 1 => i = j
  OBVIOUS
<1> HIDE DEF S
<1>7. f \in [S -> T] /\ (\A i, j \in S : f[i] = f[j] => i = j) /\ \A i \in T : \E j \in S : f[j] = i
  BY <1>4, <1>5, <1>6
<1> HIDE DEF f
<1>8. f \in Bijection(S, T)
  BY <1>7, Zenon DEF Bijection, Injection, Surjection, IsInjective
<1>9. ExistsBijection(S, T)
  BY <1>8 DEF ExistsBijection
<1>10. Cardinality(T) = Cardinality(S)
  BY <1>3, <1>9, FS_Bijection
<1> QED
  BY <1>10 DEF PipeCount, S, T, s

\* The line, trimmed, is what TrimLine finds between its first and last ink.
LEMMA LineTrimmed ==
  ASSUME line \in Seq(Chars)
  PROVE  /\ IsBlank(1, Len(line)) => Trimmed(line) = <<>>
         /\ \A a, b \in 1..Len(line) : Trims(1, Len(line), a, b) =>
              /\ a <= b /\ Trimmed(line) = SubSeq(line, a, b) /\ Trimmed(line) # <<>>
              /\ Len(Trimmed(line)) = b - a + 1 /\ Trimmed(Trimmed(line)) = Trimmed(line)
              /\ PipeCount(a, b) = Cardinality(PipesIn(Trimmed(line)))
<1>1. 1 \in 1..(Len(line) + 1) /\ Len(line) \in (1 - 1)..Len(line)
  OBVIOUS
<1>2. SubSeq(line, 1, Len(line)) = line
  <2>1. \A i \in 1..Len(line) : 1 + i - 1 = i
    OBVIOUS
  <2> DEFINE s == SubSeq(line, 1, Len(line))
  <2>2. s \in Seq(Chars) /\ Len(s) = Len(line) - 1 + 1 /\ \A i \in 1..(Len(line) - 1 + 1) : s[i] = line[1 + i - 1]
    BY <1>1, SubSeqIs
  <2> HIDE DEF s
  <2>3. Len(s) = Len(line) /\ \A i \in 1..Len(s) : s[i] = line[i]
    BY <2>1, <2>2
  <2>4. s = line
    BY <2>2, <2>3, SeqEqual
  <2> QED
    BY <2>4 DEF s
<1>3. ASSUME IsBlank(1, Len(line)) PROVE Trimmed(line) = <<>>
  <2>1. \A i \in 1..Len(line) : line[i] = Blank
    BY <1>3 DEF IsBlank
  <2>2. Trimmed(SubSeq(line, 1, Len(line))) = <<>>
    BY <1>1, <2>1, TrimmedIs
  <2> QED
    BY <1>2, <2>2
<1>4. ASSUME NEW a \in 1..Len(line), NEW b \in 1..Len(line), Trims(1, Len(line), a, b)
      PROVE  /\ a <= b /\ Trimmed(line) = SubSeq(line, a, b) /\ Trimmed(line) # <<>>
             /\ Len(Trimmed(line)) = b - a + 1 /\ Trimmed(Trimmed(line)) = Trimmed(line)
             /\ PipeCount(a, b) = Cardinality(PipesIn(Trimmed(line)))
  <2>1. /\ a <= b /\ line[a] # Blank /\ line[b] # Blank
        /\ (\A i \in 1..(a - 1) : line[i] = Blank) /\ (\A i \in (b + 1)..Len(line) : line[i] = Blank)
    BY <1>4 DEF Trims, IsBlank
  <2>2. b \in a..Len(line) /\ a \in 1..(Len(line) + 1) /\ b \in (a - 1)..Len(line) /\ ~(b < a)
    BY <2>1
  <2>3. Trimmed(line) = SubSeq(line, a, b)
    BY <1>1, <1>2, <2>1, TrimmedIs
  <2>4. SubSeq(line, a, b) # <<>> /\ Len(SubSeq(line, a, b)) = b - a + 1
    BY <2>2, SubSeqIs
  <2>5. Trimmed(SubSeq(line, a, b)) = SubSeq(line, a, b)
    BY <2>1, <2>2, TrimmedTwice
  <2>6. PipeCount(a, b) = Cardinality(PipesIn(SubSeq(line, a, b)))
    BY <2>2, PipesMoved
  <2> QED
    BY <2>1, <2>3, <2>4, <2>5, <2>6
<1> QED
  BY <1>3, <1>4

\* The buffer of a command that begins at a, of which nothing is read yet.
LEMMA CommandBegins ==
  ASSUME line \in Seq(Chars), line' = line, NEW a \in 1..Len(line), NEW b \in a..Len(line), StartBuff(a, b)
  PROVE  /\ Command' = SubSeq(line, a, b) /\ at' = "gap"
         /\ Reads(Command, src - from, at, quote, argv)'
<1>1. at' = "gap" /\ from' = a /\ to' = b /\ src' = a /\ argv' = <<>>
  BY DEF StartBuff
<1>2. Command' = SubSeq(line, a, b)
  BY <1>1 DEF Command
<1>3. SubSeq(line, a, b) \in Seq(Chars)
  <2>1. a \in 1..(Len(line) + 1) /\ b \in (a - 1)..Len(line)
    OBVIOUS
  <2> QED
    BY <2>1, SubSeqIs
<1>4. a - a = 0
  OBVIOUS
<1>5. Reads(SubSeq(line, a, b), 0, "gap", quote', <<>>)
  BY <1>3, ReadsFirst
<1> QED
  BY <1>1, <1>2, <1>4, <1>5

LEMMA MeansTrimLine == ASSUME Inv, MeaningInv, TrimLine PROVE MeaningInv'
<1>1. /\ line \in Seq(Chars) /\ single \in BOOLEAN /\ at = "line" /\ commands = <<>> /\ UNCHANGED <<line, single, quote>>
      /\ CMD_MAX \in Nat
  BY CmdLineAssumption DEF TrimLine, Inv, ParserTypes, CopyInv, Lines
<1>2. CASE IsBlank(1, Len(line)) /\ Reject(WARN_NO_CMDS)
  <2>1. Meaning(line, single) = None(WARN_NO_CMDS)
    BY <1>1, <1>2, LineTrimmed, MeaningRefused
  <2> QED
    BY <1>1, <1>2, <2>1, RefusedAnswers
<1>3. ASSUME NEW a \in 1..Len(line), NEW b \in 1..Len(line), Trims(1, Len(line), a, b),
             single, StartBuff(a, b), UNCHANGED <<commands, heap, rc>>
      PROVE  MeaningInv'
  <2>1. /\ a <= b /\ Trimmed(line) = SubSeq(line, a, b) /\ Trimmed(Trimmed(line)) = Trimmed(line)
        /\ b \in a..Len(line)
    BY <1>1, <1>3, LineTrimmed
  <2>2. Command' = SubSeq(line, a, b) /\ at' = "gap" /\ Reads(Command, src - from, at, quote, argv)'
    BY <1>1, <1>3, <2>1, CommandBegins
  <2>3. InPart'
    BY <1>1, <1>3, <2>1, <2>2 DEF InPart
  <2> QED
    BY <1>1, <1>3, <2>2, <2>3 DEF MeaningInv, Answers
<1>4. ASSUME NEW a \in 1..Len(line), NEW b \in 1..Len(line), Trims(1, Len(line), a, b),
             ~single, PipeCount(a, b) + 1 > CMD_MAX, Reject(ERR_TOO_MANY_COMMANDS)
      PROVE  MeaningInv'
  <2>1. Trimmed(line) = SubSeq(line, a, b) /\ Trimmed(line) # <<>> /\ a <= b
        /\ PipeCount(a, b) = Cardinality(PipesIn(Trimmed(line)))
    BY <1>1, <1>4, LineTrimmed
  <2>2. Cardinality(PipesIn(Trimmed(line))) \in Nat
    <3>1. SubSeq(line, a, b) \in Seq(Chars)
      BY <1>1, <2>1
    <3> QED
      BY <2>1, <3>1, PartsFew
  <2>3. Cardinality(PipesIn(Trimmed(line))) >= CMD_MAX
    BY <1>1, <1>4, <2>1, <2>2
  <2>4. Meaning(line, single) = None(ERR_TOO_MANY_COMMANDS)
    BY <1>4, <2>1, <2>3, MeaningRefused
  <2> QED
    BY <1>1, <1>4, <2>4, RefusedAnswers
<1>5. ASSUME NEW a \in 1..Len(line), NEW b \in 1..Len(line), Trims(1, Len(line), a, b),
             ~single, PipeCount(a, b) + 1 <= CMD_MAX, at' = "list", cut' = a, last' = b, UNCHANGED commands
      PROVE  MeaningInv'
  <2>1. /\ Trimmed(line) = SubSeq(line, a, b) /\ Len(Trimmed(line)) = b - a + 1 /\ a <= b
        /\ PipeCount(a, b) = Cardinality(PipesIn(Trimmed(line)))
    BY <1>1, <1>5, LineTrimmed
  <2>2. Cardinality(PipesIn(Trimmed(line))) \in Nat
    <3>1. SubSeq(line, a, b) \in Seq(Chars)
      BY <1>1, <2>1
    <3> QED
      BY <2>1, <3>1, PartsFew
  <2>3. Cardinality(PipesIn(Trimmed(line))) < CMD_MAX
    BY <1>1, <1>5, <2>1, <2>2
  <2>4. b - (b - a + 1) = a - 1 /\ (a - 1) + 1 = a /\ a - (a - 1) = 1 /\ a - 1 \in Nat /\ a - 1 < b /\ b <= Len(line)
        /\ a - 1 < a
    BY <1>1, <2>1
  <2>5. Base' = a - 1
    BY <1>1, <1>5, <2>1, <2>4 DEF Base
  <2>6. Sofar(Trimmed(line), 1) = {} /\ Cardinality(Sofar(Trimmed(line), 1)) = Len(commands)
    <3>1. \A i \in Begins(Trimmed(line)) : ~(i < 1)
      BY <2>1, <2>4 DEF Begins
    <3> QED
      BY <1>1, <3>1, FS_EmptySet DEF Sofar
  <2>7. Listed(Trimmed(line), commands)
    <3>1. 1..Len(commands) = {}
      BY <1>1
    <3> QED
      BY <3>1 DEF Listed
  <2>8. InList(Len(commands))'
    BY <1>1, <1>5, <2>1, <2>3, <2>4, <2>5, <2>6, <2>7 DEF InList
  <2> QED
    BY <1>1, <1>5, <2>8 DEF MeaningInv, Copying, Answers
<1> QED
  BY <1>1, <1>2, <1>3, <1>4, <1>5 DEF TrimLine

\* A run of the line without a pipe is the part of the trimmed line that follows
\* those begun so far.
LEMMA SegmentIs ==
  ASSUME Inv, InList(Len(commands)), NEW a \in cut..last, NEW b \in cut..last, IsSegment(a, b)
  PROVE  LET s == Trimmed(line)
             n == Len(commands) + 1
         IN /\ a \in 1..Len(line) /\ b \in a..Len(line) /\ Base < b + 2
            /\ b + 2 > last \/ line[(b + 2) - 1] = PIPE_CHAR
            /\ Cardinality(Sofar(s, (b + 2) - Base)) = n
            /\ n \in 1..Cardinality(Begins(s)) /\ Parts(s)[n] = SubSeq(line, a, b)
            /\ Len(commands) < CMD_MAX
<1> DEFINE s == Trimmed(line)
           n == Len(commands) + 1
           r == cut - Base
<1>1. /\ s \in Seq(Chars) /\ Len(s) = last - Base /\ line \in Seq(Chars)
      /\ \A i \in 1..(last - Base) : s[i] = line[Base + i]
      /\ Base \in Nat /\ last \in Nat /\ cut \in Nat /\ Len(commands) \in Nat
      /\ Cardinality(PipesIn(s)) \in Nat /\ Cardinality(Begins(s)) \in Nat
      /\ Cardinality(Begins(s)) <= Cardinality(PipesIn(s)) + 1
  BY ListFacts
<1>2. /\ Base < cut /\ Base < last /\ last <= Len(line)
      /\ cut = Base + 1 \/ cut > last \/ line[cut - 1] = PIPE_CHAR
      /\ s = SubSeq(line, Base + 1, last) /\ Cardinality(PipesIn(s)) < CMD_MAX
      /\ Len(commands) = Cardinality(Sofar(s, r))
  BY DEF InList
<1>3. /\ a <= b /\ (\A i \in cut..(a - 1) : line[i] = PIPE_CHAR)
      /\ (\A i \in a..b : line[i] # PIPE_CHAR) /\ (b < last => line[b + 1] = PIPE_CHAR)
  BY DEF IsSegment
<1> HIDE DEF Base, s, r
<1>4. r = cut - Base
  BY DEF r
<1>5. /\ r \in Nat \ {0} /\ a - Base \in r..Len(s) /\ b - Base \in (a - Base)..Len(s)
      /\ (b - Base) + 2 = (b + 2) - Base /\ a \in 1..Len(line) /\ b \in a..Len(line) /\ Base < b + 2
  BY <1>1, <1>2, <1>3, <1>4
<1>6. \A i \in cut..last : i - Base \in 1..(last - Base) /\ s[i - Base] = line[i]
  <2>1. \A i \in cut..last : i - Base \in 1..(last - Base) /\ Base + (i - Base) = i
    <3>1. Base \in Nat /\ cut \in Nat /\ last \in Nat /\ Base < cut
      BY <1>1, <1>2
    <3> QED
      BY <3>1
  <2> QED
    BY <1>1, <2>1
<1>7. r = 1 \/ s[r - 1] = PIPE_CHAR
  <2>1. CASE cut = Base + 1
    BY <1>1, <1>4, <2>1
  <2>2. CASE cut # Base + 1
    <3>1. line[cut - 1] = PIPE_CHAR
      BY <1>1, <1>2, <2>2
    <3>2. r - 1 \in 1..(last - Base) /\ Base + (r - 1) = cut - 1
      BY <1>1, <1>2, <1>4, <2>2
    <3> QED
      BY <1>1, <3>1, <3>2
  <2> QED
    BY <2>1, <2>2
<1>8. ASSUME NEW i \in r..((a - Base) - 1) PROVE s[i] = PIPE_CHAR
  <2>1. i + Base \in cut..(a - 1) /\ i + Base \in cut..last /\ (i + Base) - Base = i
    BY <1>1, <1>4
  <2> QED
    BY <1>3, <1>6, <2>1
<1>9. ASSUME NEW i \in (a - Base)..(b - Base) PROVE s[i] # PIPE_CHAR
  <2>1. i + Base \in a..b /\ i + Base \in cut..last /\ (i + Base) - Base = i
    BY <1>1
  <2> QED
    BY <1>3, <1>6, <2>1
<1>10. b - Base < Len(s) => s[(b - Base) + 1] = PIPE_CHAR
  <2>1. ASSUME b - Base < Len(s) PROVE s[(b - Base) + 1] = PIPE_CHAR
    <3>1. b < last /\ b + 1 \in cut..last /\ (b + 1) - Base = (b - Base) + 1
      BY <1>1, <2>1
    <3> QED
      BY <1>3, <1>6, <3>1
  <2> QED
    BY <2>1
<1> DEFINE A == a - Base
           B == b - Base
<1>11. /\ Cardinality(Sofar(s, B + 2)) = Cardinality(Sofar(s, r)) + 1
       /\ Cardinality(Sofar(s, r)) + 1 \in 1..Cardinality(Begins(s))
       /\ Parts(s)[Cardinality(Sofar(s, r)) + 1] = SubSeq(s, A, B)
  <2>1. s \in Seq(Chars) /\ r \in Nat \ {0} /\ A \in r..Len(s) /\ B \in A..Len(s)
    BY <1>1, <1>5
  <2>2. /\ \A i \in r..(A - 1) : s[i] = PIPE_CHAR
        /\ \A i \in A..B : s[i] # PIPE_CHAR
        /\ B < Len(s) => s[B + 1] = PIPE_CHAR
    BY <1>8, <1>9, <1>10
  <2> HIDE DEF A, B
  <2> QED
    BY <1>7, <2>1, <2>2, PartNext, ZenonT(120)
<1>12. SubSeq(s, A, B) = SubSeq(line, a, b)
  <2> DEFINE lo == Base + 1
  <2>1. lo \in 1..(Len(line) + 1) /\ last \in (lo - 1)..Len(line) /\ a \in lo..(last + 1) /\ b \in (a - 1)..last
        /\ a - lo + 1 = A /\ b - lo + 1 = B
    <3>1. /\ Base \in Nat /\ cut \in Nat /\ last \in Nat /\ Len(line) \in Nat
          /\ Base < cut /\ Base < last /\ last <= Len(line) /\ a <= b
      BY <1>1, <1>2, <1>3
    <3> QED
      BY <3>1
  <2> HIDE DEF lo, A, B
  <2>2. SubSeq(SubSeq(line, lo, last), a - lo + 1, b - lo + 1) = SubSeq(line, a, b)
    BY <1>1, <2>1, SubSeqTwice
  <2> QED
    BY <1>2, <2>1, <2>2 DEF lo
<1>13. b + 2 > last \/ line[(b + 2) - 1] = PIPE_CHAR
  <2>1. (b + 2) - 1 = b + 1 /\ (b < last \/ b + 2 > last)
    BY <1>1
  <2> QED
    BY <1>3, <2>1
<1>14. Len(commands) < CMD_MAX
  <2>1. Len(commands) + 1 <= Cardinality(Begins(s))
    BY <1>1, <1>2, <1>11
  <2> QED
    BY <1>1, <1>2, <2>1, CmdLineAssumption
<1> QED
  BY <1>2, <1>5, <1>11, <1>12, <1>13, <1>14 DEF s, r

LEMMA MeansNextSegment == ASSUME Inv, MeaningInv, NextSegment PROVE MeaningInv'
<1> DEFINE s == Trimmed(line)
           n == Len(commands) + 1
<1>1. /\ at = "list" /\ ~single /\ single = FALSE /\ InList(Len(commands)) /\ UNCHANGED <<line, single, quote>>
      /\ line \in Seq(Chars) /\ Len(commands) \in Nat /\ CMD_MAX \in Nat
  BY CmdLineAssumption DEF NextSegment, MeaningInv, Inv, ParserTypes, Lines
<1>2. PICK a \in cut..last, b \in cut..last :
        /\ IsSegment(a, b)
        /\ \/ Len(commands) >= CMD_MAX
           \/ IsBlank(a, b) /\ Reject(WARN_NO_CMDS)
           \/ Reject(ERR_MEMORY)
           \/ \E c, d \in a..b : /\ Trims(a, b, c, d) /\ StartBuff(c, d)
                                 /\ cut' = b + 2 /\ UNCHANGED <<last, commands, rc>>
  BY DEF NextSegment
<1>3. /\ a \in 1..Len(line) /\ b \in a..Len(line) /\ Base < b + 2
      /\ b + 2 > last \/ line[(b + 2) - 1] = PIPE_CHAR
      /\ Cardinality(Sofar(s, (b + 2) - Base)) = n
      /\ n \in 1..Cardinality(Begins(s)) /\ Parts(s)[n] = SubSeq(line, a, b)
      /\ Len(commands) < CMD_MAX
  BY <1>1, <1>2, SegmentIs
<1>4. a \in 1..(Len(line) + 1) /\ b \in (a - 1)..Len(line)
  BY <1>3
<1>5. CASE IsBlank(a, b) /\ Reject(WARN_NO_CMDS)
  <2>1. Trimmed(SubSeq(line, a, b)) = <<>>
    BY <1>1, <1>4, <1>5, TrimmedIs DEF IsBlank
  <2>2. Verdict(Parts(s)[n]) = WARN_NO_CMDS /\ WARN_NO_CMDS # OK
    BY <1>3, <2>1, VerdictIs
  <2>3. Meaning(line, FALSE) = None(WARN_NO_CMDS)
    BY <1>1, <1>3, <2>2, PartRefused
  <2> QED
    BY <1>1, <1>5, <2>3, RefusedAnswers
<1>6. CASE Reject(ERR_MEMORY)
  BY <1>1, <1>6, RefusedAnswers
<1>7. ASSUME NEW c \in a..b, NEW d \in a..b, Trims(a, b, c, d), StartBuff(c, d),
             cut' = b + 2, UNCHANGED <<last, commands, rc>>
      PROVE  MeaningInv'
  <2>1. /\ c <= d /\ line[c] # Blank /\ line[d] # Blank
        /\ (\A i \in a..(c - 1) : line[i] = Blank) /\ (\A i \in (d + 1)..b : line[i] = Blank)
    BY <1>7 DEF Trims, IsBlank
  <2>2. Trimmed(SubSeq(line, a, b)) = SubSeq(line, c, d)
    BY <1>1, <1>4, <2>1, TrimmedIs
  <2>3. c \in 1..Len(line) /\ d \in c..Len(line)
    BY <1>3, <2>1
  <2>4. Command' = SubSeq(line, c, d) /\ at' = "gap" /\ Reads(Command, src - from, at, quote, argv)'
    BY <1>1, <1>7, <2>3, CommandBegins
  <2>5. Base' = Base
    BY <1>1, <1>7 DEF Base
  <2>6. InList(Len(commands) + 1)'
    <3>1. /\ Base \in Nat /\ last <= Len(line) /\ Base < last
          /\ s = SubSeq(line, Base + 1, last) /\ Cardinality(PipesIn(s)) < CMD_MAX /\ Listed(s, commands)
      BY <1>1 DEF InList
    <3> QED
      BY <1>1, <1>3, <1>7, <2>5, <3>1 DEF InList
  <2>7. InPart'
    BY <1>1, <1>3, <1>7, <2>2, <2>4, <2>6 DEF InPart
  <2> QED
    BY <1>1, <2>4, <2>7 DEF MeaningInv, Answers
<1>8. ~(Len(commands) >= CMD_MAX)
  BY <1>1, <1>3
<1> QED
  BY <1>2, <1>5, <1>6, <1>7, <1>8

LEMMA MeansNoMoreSegments == ASSUME Inv, MeaningInv, NoMoreSegments PROVE MeaningInv'
<1> DEFINE s == Trimmed(line)
<1>1. /\ at = "list" /\ ~single /\ single = FALSE /\ InList(Len(commands)) /\ UNCHANGED <<line, single>>
      /\ \A i \in cut..last : line[i] = PIPE_CHAR
      /\ IF commands = <<>> THEN Reject(WARN_NO_CMDS) ELSE at' = "parsed" /\ rc' = OK /\ UNCHANGED commands
  BY DEF NoMoreSegments, MeaningInv, Inv, ParserTypes
<1>2. /\ s \in Seq(Chars) /\ s # <<>> /\ Len(s) = last - Base
      /\ \A i \in 1..(last - Base) : s[i] = line[Base + i]
      /\ Base \in Nat /\ last \in Nat /\ cut \in Nat
      /\ Cardinality(PipesIn(s)) \in Nat /\ Cardinality(Begins(s)) \in Nat
      /\ commands \in Seq(Seq(Seq(Chars)))
  BY <1>1, ListFacts
<1>3. Cardinality(PipesIn(s)) < CMD_MAX /\ Listed(s, commands) /\ Len(commands) = Cardinality(Sofar(s, cut - Base))
  BY <1>1 DEF InList
<1>4. Sofar(s, cut - Base) = Begins(s)
  <2> HIDE DEF Base, s
  <2>1. cut - Base \in Int
    BY <1>2
  <2>2. ASSUME NEW i \in 1..Len(s), i >= cut - Base PROVE s[i] = PIPE_CHAR
    <3>1. i \in 1..(last - Base) /\ Base + i \in cut..last
      BY <1>2, <2>2
    <3> QED
      BY <1>1, <1>2, <3>1
  <2> QED
    BY <1>2, <2>1, <2>2, PartsEnd
<1>5. Meaning(line, FALSE) = IF commands = <<>> THEN None(WARN_NO_CMDS) ELSE [rc |-> OK, commands |-> commands]
  BY <1>2, <1>3, <1>4, MeaningOfList
<1>6. CASE commands = <<>>
  <2>1. Reject(WARN_NO_CMDS) /\ Meaning(line, single) = None(WARN_NO_CMDS)
    BY <1>1, <1>5, <1>6
  <2> QED
    BY <1>1, <2>1, RefusedAnswers
<1>7. CASE commands # <<>>
  <2>1. Returned' = [rc |-> OK, commands |-> commands] /\ at' = "parsed"
    BY <1>1, <1>7 DEF Returned
  <2>2. Answers'
    BY <1>1, <1>5, <1>7, <2>1 DEF Answers
  <2> QED
    BY <1>1, <2>1, <2>2 DEF MeaningInv, Copying
<1> QED
  BY <1>6, <1>7

LEMMA MeaningInit == ParserInit => MeaningInv
BY DEF ParserInit, MeaningInv, Copying, Answers

\* Every step of the parser keeps the meaning.
LEMMA MeaningNext == Inv /\ MeaningInv /\ [ParserStep]_parser => MeaningInv'
<1> SUFFICES ASSUME Inv, MeaningInv, [ParserStep]_parser PROVE MeaningInv'
  OBVIOUS
<1>1. CASE BuffStep
  BY <1>1, MeansSkipBlank, MeansTooManyArgs, MeansStartWord, MeansQuotedWord, MeansPlainWord,
     MeansInnerQuote, MeansEndBuff DEF BuffStep, Framed
<1>2. CASE UNCHANGED parser
  <2>1. UNCHANGED <<line, single, at, cut, last, from, to, src, quote, argv, commands, rc>>
    BY <1>2 DEF parser, reading, position
  <2>2. UNCHANGED <<Base, Command, Returned>>
    BY <2>1 DEF Base, Command, Returned
  <2>3. (InPart <=> InPart') /\ (InList(Len(commands)) <=> InList(Len(commands))') /\ (Answers <=> Answers')
    BY <2>1, <2>2 DEF InPart, InList, Answers
  <2> QED
    BY <2>1, <2>2, <2>3 DEF MeaningInv
<1> QED
  BY <1>1, <1>2, MeansTrimLine, MeansNextSegment, MeansNoMoreSegments DEF ParserStep

\* What is returned for a line, or for one command, is what the line means,
\* whatever its blanks, quotes and pipes (dshlib.c:132-289), unless memory runs out.
THEOREM MeaningCorrect == ParserSpec => []Answers
<1>1. MeaningInv => Answers
  BY DEF MeaningInv
<1> QED
  BY <1>1, InvInit, InvNext, MeaningInit, MeaningNext, PTL DEF ParserSpec
====
