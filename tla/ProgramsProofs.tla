---- MODULE ProgramsProofs ----
(***************************************************************************)
(* Proofs about Programs, for every call of wordcount, minigrep and dsh:   *)
(* any arguments, any files, any buffer.  Each invariant says what the     *)
(* program knows of the arguments and the text it has gone through.        *)
(***************************************************************************)
EXTENDS Programs, FiniteSetTheorems, SequenceTheorems, WellFoundedInduction, TLAPS

----
(* Types. *)

\* num_files counts the arguments that were files, match_count starts with the file.
CallInv ==
    /\ call \in Calls /\ text \in Seq(Chars)
    /\ num_files < arg /\ (call.program # "wordcount" => num_files = 0)
    /\ call.program = "minigrep" /\ pc \in {"start", "open"} => match_count = 0

LEMMA Least ==
  ASSUME NEW S, S \subseteq Nat, S # {} PROVE Min(S) \in S /\ \A x \in S : Min(S) <= x
<1> DEFINE R == OpToRel(<, Nat)
<1>1. IsWellFoundedOn(R, Nat)
  BY NatLessThanWellFounded
<1>2. \A x, y \in Nat : x < y => <<x, y>> \in R
  BY DEF OpToRel
<1> HIDE DEF R
<1>3. PICK m \in S : \A y \in S : ~(<<y, m>> \in R)
  BY <1>1, WFMin
<1>4. ASSUME NEW y \in S PROVE m <= y
  <2>1. m \in Nat /\ y \in Nat
    OBVIOUS
  <2>2. ~(y < m)
    BY <1>2, <1>3, <2>1
  <2> QED
    BY <2>1, <2>2
<1> QED
  BY <1>3, <1>4 DEF Min

LEMMA Greatest ==
  ASSUME NEW n \in Nat, NEW S, S \subseteq 1..n, S # {} PROVE Max(S) \in S /\ \A x \in S : x <= Max(S)
<1> DEFINE T == {n - x : x \in S}
<1>1. T \subseteq Nat /\ T # {}
  <2>1. \A x \in 1..n : n - x \in Nat
    OBVIOUS
  <2> QED
    BY <2>1
<1>2. Min(T) \in T /\ \A y \in T : Min(T) <= y
  BY <1>1, Least
<1>3. PICK m \in S : n - m = Min(T)
  BY <1>2
<1>4. ASSUME NEW x \in S PROVE x <= m
  <2>1. x \in 1..n /\ m \in 1..n
    OBVIOUS
  <2>2. n - m <= n - x
    BY <1>2, <1>3
  <2> QED
    BY <2>1, <2>2
<1> QED
  BY <1>3, <1>4 DEF Max

LEMMA CallFacts ==
  ASSUME call \in Calls
  PROVE  /\ args \in Seq(Seq(Chars)) /\ argc \in Nat /\ DOMAIN args = 1..argc
         /\ \A i \in 1..argc : args[i] \in Seq(Chars)
         /\ \A f : Opens(f) => call.files[f] \in Seq(Chars)
         /\ call.program = "wordcount" => call.files[StdIn] \in Seq(Chars)
<1>1. call.args \in Seq(Seq(Chars)) /\ \A f \in DOMAIN call.files : call.files[f] \in Seq(Chars)
  BY ProgramAssumption
<1>2. call.program = "wordcount" => StdIn \in DOMAIN call.files
  BY WordCountAssumption
<1>3. /\ Len(call.args) \in Nat /\ DOMAIN call.args = 1..Len(call.args)
      /\ \A i \in 1..Len(call.args) : call.args[i] \in Seq(Chars)
  BY <1>1
<1> QED
  BY <1>1, <1>2, <1>3 DEF args, argc, Opens

LEMMA CallKept == Next => UNCHANGED <<call, args, argc>>
BY DEF Next, WordCountStep, Option, OptionsEnd, Open, CannotOpen, Char, CountReadFails, ReadFails, EndOfFile, Total,
       MiniGrepStep, NoArguments, Help, Flag, FlagsEnd, GrepOpen, GrepLine, GrepReadFails, GrepEnd,
       ModeStep, ModeOption, Start, args, argc

LEMMA TypeInit == Init => TypeOK /\ CallInv
<1> SUFFICES ASSUME Init PROVE TypeOK /\ CallInv
  OBVIOUS
<1>1. call \in Calls /\ argc \in Nat
  BY CallFacts DEF Init, ProgramInit
<1>2. ProgramInit /\ WordCountInit /\ MiniGrepInit /\ ModeInit
  BY DEF Init
<1>3. <<>> \in Seq(Chars) /\ Len(<<>>) = 0
  OBVIOUS
<1>4. WordCountTypes /\ CallInv
  <2>1. NoCounts \in [Columns -> Nat]
    BY DEF NoCounts
  <2>2. in_word \in BOOLEAN
    BY <1>2 DEF WordCountInit
  <2>3. columns = {} /\ counts = NoCounts /\ total = NoCounts /\ num_files = 0 /\ arg = 1 /\ text = <<>>
    BY <1>2 DEF WordCountInit, ProgramInit
  <2>4. match_count = 0
    BY <1>2 DEF MiniGrepInit
  <2> QED
    BY <1>1, <1>3, <2>1, <2>2, <2>3, <2>4 DEF WordCountTypes, CallInv
<1>5. MiniGrepTypes
  BY <1>2, <1>3, MiniGrepAssumption DEF MiniGrepInit, MiniGrepTypes
<1>6. ModeTypes
  BY <1>2, ModeAssumption DEF ModeInit, ModeTypes, MODE_LCLI
<1>7. unread \in BOOLEAN
  BY <1>2 DEF ProgramInit
<1>8. pc = "start" /\ arg = 1 /\ code = NoCode
  BY <1>2 DEF ProgramInit
<1> QED
  BY <1>1, <1>4, <1>5, <1>6, <1>7, <1>8 DEF TypeOK

LEMMA TypeWordCount == TypeOK /\ CallInv /\ WordCountStep /\ UNCHANGED <<minigrep, cargs>> => TypeOK' /\ CallInv'
<1> SUFFICES ASSUME TypeOK, CallInv, WordCountStep, UNCHANGED <<minigrep, cargs>> PROVE TypeOK' /\ CallInv'
  OBVIOUS
<1>0. /\ argc \in Nat /\ call \in Calls /\ arg \in 1..(argc + 1) /\ text \in Seq(Chars) /\ call.program = "wordcount"
      /\ num_files \in Nat /\ num_files < arg
      /\ columns \subseteq Columns /\ counts \in [Columns -> Nat] /\ total \in [Columns -> Nat]
  BY CallFacts DEF TypeOK, CallInv, WordCountTypes, WordCountStep
<1>1. UNCHANGED <<call, argc>>
  BY CallKept DEF Next
<1>2. MiniGrepTypes' /\ ModeTypes'
  BY DEF TypeOK, MiniGrepTypes, ModeTypes, minigrep, cargs
<1>3. text' \in Seq(Chars)
  <2>1. CASE OptionsEnd
    BY <1>0, <2>1, CallFacts DEF OptionsEnd
  <2>2. CASE Open
    BY <1>0, <2>2, CallFacts DEF Open
  <2>3. CASE Char
    BY <1>0, <2>3 DEF Char
  <2>4. CASE CountReadFails
    BY <2>4 DEF CountReadFails, ReadFails
  <2>5. CASE Option \/ CannotOpen \/ EndOfFile \/ Total
    BY <1>0, <2>5 DEF Option, CannotOpen, EndOfFile, Total
  <2> QED
    BY <2>1, <2>2, <2>3, <2>4, <2>5 DEF WordCountStep
<1>4. /\ pc' \in {"start", "open", "count", "lines", "ended", "runs"} /\ code' \in {NoCode} \cup 0..4
  BY DEF TypeOK, WordCountStep, Option, OptionsEnd, Open, CannotOpen, Char, CountReadFails, ReadFails, EndOfFile, Total,
         Goto, Finish, wordcount
<1>8. unread' \in BOOLEAN
  BY Zenon DEF TypeOK, WordCountStep, Option, OptionsEnd, Open, CannotOpen, Char, CountReadFails, ReadFails, EndOfFile, Total,
         wordcount
<1>5. arg' \in 1..(argc + 1) /\ num_files' \in 0..argc /\ num_files' < arg'
  <2>1. CASE Option
    BY <1>0, <2>1 DEF Option
  <2>2. CASE EndOfFile
    BY <1>0, <2>2 DEF EndOfFile
  <2>3. CASE OptionsEnd \/ Open \/ CannotOpen \/ Char \/ CountReadFails \/ Total
    BY <1>0, <2>3 DEF OptionsEnd, Open, CannotOpen, Char, CountReadFails, Total, wordcount
  <2> QED
    BY <2>1, <2>2, <2>3 DEF WordCountStep
<1>6. columns' \subseteq Columns /\ in_word' \in BOOLEAN
  <2>1. \A o \in DOMAIN Asks : Asks[o] \in Columns
    BY DEF Asks, Columns
  <2>2. CASE Option
    BY <1>0, <2>1, <2>2 DEF Option, TypeOK, WordCountTypes
  <2>3. CASE ~Option
    BY <1>0, <2>3 DEF OptionsEnd, Open, CannotOpen, Char, CountReadFails, EndOfFile, Total, wordcount,
                      WordCountStep, TypeOK, WordCountTypes
  <2> QED
    BY <2>2, <2>3
<1>7. counts' \in [Columns -> Nat] /\ total' \in [Columns -> Nat]
  <2>1. CASE Open
    BY <1>0, <2>1 DEF Open, NoCounts
  <2>2. CASE Char
    <3>1. /\ counts["chars"] \in Nat /\ counts["lines"] \in Nat /\ counts["words"] \in Nat
          /\ {"chars", "lines", "words"} \subseteq Columns
      BY <1>0 DEF Columns
    <3>2. PICK l \in {0, 1}, w \in {0, 1} :
            counts' = [counts EXCEPT !["chars"] = @ + 1, !["lines"] = @ + l, !["words"] = @ + w] /\ total' = total
      BY <2>2, Zenon DEF Char
    <3>3. \A f \in [Columns -> Nat], k \in Columns, n \in Nat : [f EXCEPT ![k] = n] \in [Columns -> Nat]
      OBVIOUS
    <3>4. counts["chars"] + 1 \in Nat /\ counts["lines"] + l \in Nat /\ counts["words"] + w \in Nat
      BY <3>1
    <3> QED
      BY <1>0, <3>1, <3>2, <3>3, <3>4, Zenon
  <2>3. CASE EndOfFile
    BY <1>0, <2>3 DEF EndOfFile
  <2>4. CASE Option \/ OptionsEnd \/ CannotOpen \/ CountReadFails \/ Total
    BY <1>0, <2>4 DEF Option, OptionsEnd, CannotOpen, CountReadFails, Total, wordcount
  <2> QED
    BY <2>1, <2>2, <2>3, <2>4 DEF WordCountStep
<1> QED
  BY <1>0, <1>1, <1>2, <1>3, <1>4, <1>5, <1>6, <1>7, <1>8 DEF TypeOK, WordCountTypes, CallInv

\* fgets takes a beginning of what is left, and leaves room for the 0.
LEMMA ChunkIs ==
  ASSUME NEW t \in Seq(Chars)
  PROVE  \E n \in 0..Len(t) : /\ Chunk(t) = SubSeq(t, 1, n) /\ n < LINE_BUFFER_SZ
                              /\ SubSeq(t, 1, n) \in Seq(Chars) /\ Len(SubSeq(t, 1, n)) = n
                              /\ SubSeq(t, n + 1, Len(t)) \in Seq(Chars)
<1> DEFINE S == {LINE_BUFFER_SZ - 1, Len(t)} \cup {i \in DOMAIN t : t[i] = Newline}
<1>1. Len(t) \in Nat /\ LINE_BUFFER_SZ - 1 \in Nat /\ DOMAIN t = 1..Len(t)
  BY MiniGrepAssumption
<1>2. S \subseteq Nat /\ S # {} /\ Len(t) \in S /\ LINE_BUFFER_SZ - 1 \in S
  BY <1>1
<1> HIDE DEF S
<1>3. Min(S) \in Nat /\ Min(S) <= Len(t) /\ Min(S) <= LINE_BUFFER_SZ - 1
  BY <1>2, Least
<1>4. Min(S) \in 0..Len(t) /\ Min(S) < LINE_BUFFER_SZ
  BY <1>1, <1>3, MiniGrepAssumption
<1>5. Chunk(t) = SubSeq(t, 1, Min(S))
  BY DEF Chunk, S
<1>6. ASSUME NEW n \in 0..Len(t)
      PROVE  SubSeq(t, 1, n) \in Seq(Chars) /\ Len(SubSeq(t, 1, n)) = n /\ SubSeq(t, n + 1, Len(t)) \in Seq(Chars)
  BY <1>1
<1> QED
  BY <1>4, <1>5, <1>6

LEMMA TypeMiniGrep == TypeOK /\ CallInv /\ MiniGrepStep /\ UNCHANGED <<wordcount, cargs>> => TypeOK' /\ CallInv'
<1> SUFFICES ASSUME TypeOK, CallInv, MiniGrepStep, UNCHANGED <<wordcount, cargs>> PROVE TypeOK' /\ CallInv'
  OBVIOUS
<1>0. /\ argc \in Nat /\ call \in Calls /\ arg \in 1..(argc + 1) /\ text \in Seq(Chars) /\ call.program = "minigrep"
      /\ num_files = 0 /\ num_files' = 0 /\ (pc \in {"start", "open"} => match_count = 0)
      /\ flags \subseteq {"n", "i", "c", "v"} /\ flag \in Nat /\ Len(line_buffer) < LINE_BUFFER_SZ
      /\ line_number \in Nat /\ match_count \in 0..line_number
  BY CallFacts DEF TypeOK, CallInv, MiniGrepTypes, MiniGrepStep, wordcount
<1>1. UNCHANGED <<call, argc>>
  BY CallKept DEF Next
<1>2. ModeTypes'
  BY DEF TypeOK, ModeTypes, cargs
<1>3. WordCountTypes'
  BY <1>1, Zenon DEF TypeOK, WordCountTypes, wordcount
<1>4. text' \in Seq(Chars)
  <2>1. CASE GrepOpen
    BY <1>0, <2>1, CallFacts DEF GrepOpen
  <2>2. CASE GrepLine
    <3>1. PICK n \in 0..Len(text) :
            line_buffer' = SubSeq(text, 1, n) /\ Len(line_buffer') = n /\ SubSeq(text, n + 1, Len(text)) \in Seq(Chars)
      BY <1>0, <2>2, ChunkIs DEF GrepLine
    <3> QED
      BY <2>2, <3>1 DEF GrepLine
  <2>3. CASE GrepReadFails
    BY <2>3 DEF GrepReadFails, ReadFails
  <2>4. CASE NoArguments \/ Help \/ Flag \/ FlagsEnd \/ GrepEnd
    BY <1>0, <2>4 DEF NoArguments, Help, Flag, FlagsEnd, GrepEnd
  <2> QED
    BY <2>1, <2>2, <2>3, <2>4 DEF MiniGrepStep
<1>5. pc' \in {"start", "open", "count", "lines", "ended", "runs"} /\ code' \in {NoCode} \cup 0..4
  BY DEF TypeOK, MiniGrepStep, NoArguments, Help, Flag, FlagsEnd, GrepOpen, GrepLine, GrepReadFails, GrepEnd, Goto, Finish
<1>6. unread' \in BOOLEAN
  BY Zenon DEF TypeOK, MiniGrepStep, NoArguments, Help, Flag, FlagsEnd, GrepOpen, GrepLine, GrepReadFails, ReadFails, GrepEnd
<1>7. arg' \in 1..(argc + 1)
  <2>1. CASE FlagsEnd
    BY <1>0, <2>1 DEF FlagsEnd
  <2>2. CASE ~FlagsEnd
    BY <1>0, <2>2 DEF MiniGrepStep, NoArguments, Help, Flag, GrepOpen, GrepLine, GrepReadFails, GrepEnd
  <2> QED
    BY <2>1, <2>2
<1>8. MiniGrepTypes'
  <2>1. CASE Flag
    <3>1. flags' \subseteq {"n", "i", "c", "v"} /\ flag' \in Nat
      <4>1. \/ \E f \in {"n", "i", "c", "v"} : flags' = flags \cup {f} /\ flag' = flag + 1
            \/ UNCHANGED <<flags, flag>>
        BY <2>1, Zenon DEF Flag, NextFlag
      <4>2. flags \subseteq {"n", "i", "c", "v"} => flags' \subseteq {"n", "i", "c", "v"}
        BY <4>1
      <4>3. flag \in Nat => flag' \in Nat
        BY <4>1
      <4> QED
        BY <1>0, <4>2, <4>3, Zenon
    <3>2. UNCHANGED <<line_buffer, line_number, match_count>>
      BY <2>1 DEF Flag
    <3> QED
      BY <1>0, <3>1, <3>2 DEF MiniGrepTypes
  <2>2. CASE GrepOpen
    <3>1. match_count' = 0 /\ line_number' \in {line_number, 1} /\ UNCHANGED <<flag, flags, line_buffer>>
      BY <1>0, <2>2 DEF GrepOpen
    <3> QED
      BY <1>0, <3>1 DEF MiniGrepTypes
  <2>3. CASE GrepLine
    <3>1. Len(line_buffer') < LINE_BUFFER_SZ
      BY <1>0, <2>3, ChunkIs DEF GrepLine
    <3>2. line_number' = line_number + 1 /\ match_count' \in {match_count, match_count + 1}
      BY <2>3, Zenon DEF GrepLine, NextLine
    <3>3. UNCHANGED <<flag, flags>>
      BY <2>3 DEF GrepLine
    <3> QED
      BY <1>0, <3>1, <3>2, <3>3 DEF MiniGrepTypes
  <2>4. CASE UNCHANGED minigrep
    BY <1>0, <2>4 DEF MiniGrepTypes, minigrep
  <2> QED
    BY <2>1, <2>2, <2>3, <2>4
    DEF MiniGrepStep, NoArguments, Help, FlagsEnd, GrepReadFails, GrepEnd
<1>9. pc' \in {"start", "open"} => match_count' = 0
  BY <1>0 DEF MiniGrepStep, NoArguments, Help, Flag, FlagsEnd, GrepOpen, GrepLine, GrepReadFails, GrepEnd, Goto, Finish, minigrep
<1> QED
  BY <1>0, <1>1, <1>2, <1>3, <1>4, <1>5, <1>6, <1>7, <1>8, <1>9 DEF TypeOK, CallInv

LEMMA TypeMode == TypeOK /\ CallInv /\ ModeStep /\ UNCHANGED <<wordcount, minigrep>> => TypeOK' /\ CallInv'
<1> SUFFICES ASSUME TypeOK, CallInv, ModeStep, UNCHANGED <<wordcount, minigrep>> PROVE TypeOK' /\ CallInv'
  OBVIOUS
<1>0. /\ argc \in Nat /\ call \in Calls /\ arg \in 1..(argc + 1) /\ text \in Seq(Chars) /\ call.program = "dsh"
      /\ num_files = 0 /\ num_files' = 0 /\ port \in Nat \ {0} /\ mode \in {MODE_LCLI, MODE_SCLI, MODE_SSVR}
  BY CallFacts DEF TypeOK, CallInv, ModeTypes, ModeStep, wordcount
<1>1. UNCHANGED <<call, argc, text, unread>>
  BY CallKept DEF Next, ModeStep, ModeOption, Start
<1>2. MiniGrepTypes'
  BY DEF TypeOK, MiniGrepTypes, minigrep
<1>3. WordCountTypes'
  BY <1>1, Zenon DEF TypeOK, WordCountTypes, wordcount
<1>4. pc' \in {"start", "open", "count", "lines", "ended", "runs"} /\ code' \in {NoCode} \cup 0..4
  BY DEF TypeOK, ModeStep, ModeOption, Start, Pick, SetIp, SetPort, SetThreaded, Usage, Accept, Refuse, Goto, Finish, EXIT_FAILURE
<1>5. arg' \in 1..(argc + 1)
  BY <1>0 DEF ModeStep, ModeOption, Start, Pick, SetIp, SetPort, SetThreaded, Usage, Accept, Refuse
<1>6. threaded_server' \in BOOLEAN
  BY Zenon DEF TypeOK, ModeTypes, ModeStep, ModeOption, Start, Pick, SetIp, SetPort, SetThreaded, Usage, Accept, Refuse, cargs
<1>7. mode' \in {MODE_LCLI, MODE_SCLI, MODE_SSVR}
  BY <1>0 DEF ModeStep, ModeOption, Start, Pick, SetIp, SetPort, SetThreaded, Usage, Accept, Refuse, cargs
<1>8. port' \in Nat \ {0}
  <2>1. CASE ModeOption /\ SetPort /\ port' = atoi(OptArg) /\ ~(atoi(OptArg) <= 0)
    <3>1. arg \in DOMAIN args
      BY <1>0, <2>1, CallFacts DEF ModeOption
    <3>2. atoi(OptArg) \in Int
      BY <1>0, <3>1, ModeAssumption DEF OptArg, args
    <3> QED
      BY <2>1, <3>2
  <2>2. CASE port' = port
    BY <1>0, <2>2
  <2> QED
    BY <2>1, <2>2 DEF ModeStep, ModeOption, Start, Pick, SetIp, SetPort, SetThreaded, Usage, Refuse, cargs
<1> QED
  BY <1>0, <1>1, <1>2, <1>3, <1>4, <1>5, <1>6, <1>7, <1>8 DEF TypeOK, ModeTypes, CallInv

LEMMA TypesCorrect == Spec => [](TypeOK /\ CallInv)
<1>1. TypeOK /\ CallInv /\ UNCHANGED vars => TypeOK' /\ CallInv'
  <2> SUFFICES ASSUME TypeOK, CallInv, UNCHANGED vars PROVE TypeOK' /\ CallInv'
    OBVIOUS
  <2>1. UNCHANGED <<call, pc, arg, text, output, unread, code, wordcount, minigrep, cargs, args, argc>>
    BY DEF vars, program, args, argc
  <2>2. WordCountTypes' /\ MiniGrepTypes' /\ ModeTypes'
    BY <2>1, Zenon DEF TypeOK, WordCountTypes, MiniGrepTypes, ModeTypes, wordcount, minigrep, cargs
  <2> QED
    BY <2>1, <2>2, Zenon DEF TypeOK, CallInv, wordcount, minigrep
<1>2. TypeOK /\ CallInv /\ [Next]_vars => (TypeOK /\ CallInv)'
  BY <1>1, TypeWordCount, TypeMiniGrep, TypeMode DEF Next
<1> QED
  BY <1>2, TypeInit, PTL DEF Spec

\* Every variable of wordcount, minigrep and dsh's start keeps its type, and
\* fgets never fills more than its buffer (minigrep.c:219), whatever they are
\* called with.
THEOREM TypeCorrect == Spec => []TypeOK
BY TypesCorrect, PTL

----
(* dsh's options. *)

\* The options before the one in hand were all accepted, and the last of each
\* kind counts; the first that was not decides how dsh ends.
Accepted == 1..(arg - 1)
OwnIp(m) == IF m = MODE_SSVR THEN RDSH_DEF_SVR_INTFACE
            ELSE IF m = MODE_SCLI THEN RDSH_DEF_CLI_CONNECT ELSE <<>>
Latest(o, i) == i \in At(o) \cap Accepted /\ \A j \in At(o) \cap Accepted : j <= i
Accepting ==
    /\ Ending \cap Accepted = {}
    /\ mode = (IF At("s") \cap Accepted # {} THEN MODE_SSVR
               ELSE IF At("c") \cap Accepted # {} THEN MODE_SCLI ELSE MODE_LCLI)
    /\ At("p") \cap Accepted = {} => port = RDSH_DEF_PORT
    /\ \A i \in DOMAIN args : Latest("p", i) => port = atoi(Tail(args[i]))
    /\ At("i") \cap Accepted = {} => ip = OwnIp(mode)
    /\ \A i \in DOMAIN args : Latest("i", i) => ip = Fitting(Tail(args[i]))
    /\ threaded_server <=> At("x") \cap Accepted # {}
ModeInv ==
    call.program = "dsh" =>
      /\ pc \in {"start", "runs"} => Accepting /\ (pc = "runs" => arg > argc)
      /\ pc = "ended" =>
           /\ arg \in Ending /\ Ending \cap Accepted = {}
           /\ code = (IF arg \in Shows THEN 0 ELSE EXIT_FAILURE)

LEMMA OptionsKept ==
  ASSUME UNCHANGED call
  PROVE  /\ UNCHANGED <<args, argc, Shows, Ending>>
         /\ \A o : At(o)' = At(o)
BY DEF args, argc, At, Shows, Ending, Bad, Modes

\* An option that is accepted is the latest of its kind, and of no other.
LEMMA OptionTaken ==
  ASSUME TypeOK, CallInv, UNCHANGED call, arg \in DOMAIN args, arg' = arg + 1, NEW o
  PROVE  /\ Opt = o => (At(o) \cap Accepted)' # {} /\ \A i : Latest(o, i)' => i = arg
         /\ Opt # o => /\ (At(o) \cap Accepted)' = At(o) \cap Accepted
                       /\ \A i : Latest(o, i)' <=> Latest(o, i)
<1>0. At(o)' = At(o) /\ arg \in 1..argc /\ argc \in Nat /\ At(o) \subseteq 1..argc /\ (arg \in At(o) <=> Opt = o)
  BY OptionsKept, CallFacts DEF CallInv, At, Opt
<1>1. Accepted' = Accepted \cup {arg} /\ arg \notin Accepted /\ \A i \in Accepted : i < arg
  BY <1>0 DEF Accepted
<1>2. CASE Opt = o
  <2>1. arg \in (At(o) \cap Accepted)'
    BY <1>0, <1>1, <1>2
  <2>2. ASSUME NEW i, Latest(o, i)' PROVE i = arg
    <3>1. i \in At(o) /\ i \in Accepted \cup {arg} /\ arg <= i
      BY <1>0, <1>1, <2>1, <2>2 DEF Latest
    <3>2. i \in Accepted => i < arg /\ i \in Int /\ arg \in Int
      BY <1>0, <1>1 DEF Accepted
    <3> QED
      BY <3>1, <3>2
  <2> QED
    BY <1>2, <2>1, <2>2
<1>3. CASE Opt # o
  BY <1>0, <1>1, <1>3 DEF Latest
<1> QED
  BY <1>2, <1>3

LEMMA OptionStep == TypeOK /\ CallInv /\ ModeInv /\ call.program = "dsh" /\ ModeOption => ModeInv'
<1> SUFFICES ASSUME TypeOK, CallInv, ModeInv, call.program = "dsh", ModeOption PROVE ModeInv'
  OBVIOUS
<1>0. /\ pc = "start" /\ arg \in DOMAIN args /\ UNCHANGED call /\ Accepting
      /\ argc \in Nat /\ DOMAIN args = 1..argc /\ arg \in 1..argc
  BY CallFacts DEF ModeOption, ModeInv, CallInv, TypeOK
<1>1. /\ \A o : At(o) \subseteq 1..argc /\ (arg \in At(o) <=> Opt = o)
      /\ Accepted = Before(arg)
      /\ \A i \in Accepted : i \in 1..argc /\ Before(i) \subseteq Accepted
  BY <1>0 DEF At, Opt, Accepted, Before
<1>2. /\ mode = MODE_LCLI <=> Modes \cap Accepted = {}
      /\ mode = MODE_SSVR <=> At("s") \cap Accepted # {}
  BY <1>0 DEF Accepting, Modes, MODE_LCLI, MODE_SCLI, MODE_SSVR
<1>3. ASSUME Refuse, Opt \notin {"h", "?"}, Bad(arg) PROVE ModeInv'
  <2>1. pc' = "ended" /\ code' = EXIT_FAILURE /\ arg' = arg
    BY <1>3 DEF Refuse, Finish
  <2>2. arg \in Ending /\ arg \notin Shows
    BY <1>0, <1>1, <1>3 DEF Ending, Shows
  <2> QED
    BY <1>0, <2>1, <2>2, OptionsKept DEF ModeInv, Accepting, Accepted
<1>4. ASSUME Usage, Opt \in {"h", "?"} PROVE ModeInv'
  <2>1. pc' = "ended" /\ code' = 0 /\ arg' = arg
    BY <1>4 DEF Usage, Finish
  <2>2. arg \in Shows /\ arg \in Ending
    BY <1>0, <1>1, <1>4 DEF Ending, Shows
  <2> QED
    BY <1>0, <2>1, <2>2, OptionsKept DEF ModeInv, Accepting, Accepted
<1>5. ASSUME Accept, Opt \notin {"h", "?"}, ~Bad(arg) PROVE pc' = "start" /\ arg' = arg + 1 /\ (Ending \cap Accepted)' = {}
  <2>1. pc' = "start" /\ arg' = arg + 1
    BY <1>0, <1>5 DEF Accept, Goto
  <2>2. arg \notin Ending
    BY <1>1, <1>5 DEF Ending, Shows
  <2>3. Accepted' = Accepted \cup {arg}
    BY <1>0, <2>1 DEF Accepted
  <2> QED
    BY <1>0, <2>1, <2>2, <2>3, OptionsKept DEF Accepting
<1>6. ASSUME Opt \in {"c", "s"}, mode = MODE_LCLI, Accept,
             mode' = (IF Opt = "s" THEN MODE_SSVR ELSE MODE_SCLI), ip' = OwnIp(mode'),
             UNCHANGED <<port, threaded_server>>
      PROVE  ModeInv'
  <2>1. ~Bad(arg)
    BY <1>1, <1>2, <1>6 DEF Bad
  <2>2. pc' = "start" /\ arg' = arg + 1 /\ (Ending \cap Accepted)' = {}
    BY <1>5, <1>6, <2>1
  <2>3. At("i") \cap Accepted = {}
    <3> SUFFICES ASSUME NEW i \in At("i") \cap Accepted PROVE FALSE
      OBVIOUS
    <3>1. i \notin Ending /\ i \in DOMAIN args
      BY <1>0, <1>1 DEF Accepting
    <3>2. Modes \cap Before(i) # {}
      BY <3>1 DEF Ending, Bad
    <3> QED
      BY <1>1, <1>2, <1>6, <3>2
  <2>4. \A i : ~Latest("i", i)
    BY <2>3 DEF Latest
  <2>5. \A o \in {"i", "p", "x"} : (At(o) \cap Accepted)' = At(o) \cap Accepted /\ \A i : Latest(o, i)' <=> Latest(o, i)
    BY <1>0, <1>6, <2>2, OptionTaken
  <2>6. mode' = (IF (At("s") \cap Accepted)' # {} THEN MODE_SSVR
                 ELSE IF (At("c") \cap Accepted)' # {} THEN MODE_SCLI ELSE MODE_LCLI)
    <3>1. Opt = "s" => (At("s") \cap Accepted)' # {}
      BY <1>0, <2>2, OptionTaken
    <3>2. Opt = "c" => (At("c") \cap Accepted)' # {} /\ (At("s") \cap Accepted)' = At("s") \cap Accepted
      BY <1>0, <2>2, OptionTaken
    <3> QED
      BY <1>2, <1>6, <3>1, <3>2 DEF MODE_LCLI, MODE_SSVR
  <2> QED
    BY <1>0, <1>6, <2>2, <2>4, <2>5, <2>6, OptionsKept DEF ModeInv, Accepting
<1>7. ASSUME Opt \notin {"c", "s", "h", "?"}, ~Bad(arg), Accept, UNCHANGED mode,
             Opt = "p" => port' = atoi(OptArg), Opt # "p" => port' = port,
             Opt = "i" => ip' = Fitting(OptArg), Opt # "i" => ip' = ip,
             Opt = "x" => threaded_server' = TRUE, Opt # "x" => threaded_server' = threaded_server
      PROVE  ModeInv'
  <2>1. pc' = "start" /\ arg' = arg + 1 /\ (Ending \cap Accepted)' = {}
    BY <1>5, <1>7
  <2>2. \A o : /\ Opt = o => (At(o) \cap Accepted)' # {} /\ \A i : Latest(o, i)' => i = arg
               /\ Opt # o => /\ (At(o) \cap Accepted)' = At(o) \cap Accepted
                             /\ \A i : Latest(o, i)' <=> Latest(o, i)
    BY <1>0, <2>1, OptionTaken
  <2>3. (At("s") \cap Accepted)' = At("s") \cap Accepted /\ (At("c") \cap Accepted)' = At("c") \cap Accepted
    BY <1>7, <2>2
  <2>4. mode' = (IF (At("s") \cap Accepted)' # {} THEN MODE_SSVR
                 ELSE IF (At("c") \cap Accepted)' # {} THEN MODE_SCLI ELSE MODE_LCLI)
    BY <1>0, <1>7, <2>3 DEF Accepting
  <2>5. /\ (At("p") \cap Accepted)' = {} => port' = RDSH_DEF_PORT
        /\ \A i \in DOMAIN args : Latest("p", i)' => port' = atoi(Tail(args[i]))
    <3>1. CASE Opt = "p"
      BY <1>7, <2>2, <3>1 DEF OptArg
    <3>2. CASE Opt # "p"
      BY <1>0, <1>7, <2>2, <3>2 DEF Accepting
    <3> QED
      BY <3>1, <3>2
  <2>6. /\ (At("i") \cap Accepted)' = {} => ip' = OwnIp(mode')
        /\ \A i \in DOMAIN args : Latest("i", i)' => ip' = Fitting(Tail(args[i]))
    <3>1. CASE Opt = "i"
      BY <1>7, <2>2, <3>1 DEF OptArg
    <3>2. CASE Opt # "i"
      BY <1>0, <1>7, <2>2, <3>2 DEF Accepting
    <3> QED
      BY <3>1, <3>2
  <2>7. threaded_server' <=> (At("x") \cap Accepted)' # {}
    <3>1. CASE Opt = "x"
      BY <1>7, <2>2, <3>1
    <3>2. CASE Opt # "x"
      BY <1>0, <1>7, <2>2, <3>2 DEF Accepting
    <3> QED
      BY <3>1, <3>2
  <2> QED
    BY <1>0, <2>1, <2>4, <2>5, <2>6, <2>7, OptionsKept DEF ModeInv, Accepting
<1>8. ASSUME NEW m \in {MODE_SCLI, MODE_SSVR}, Pick(m, OwnIp(m)), Opt = (IF m = MODE_SSVR THEN "s" ELSE "c")
      PROVE  ModeInv'
  <2>1. Opt \in {"c", "s"} /\ m = (IF Opt = "s" THEN MODE_SSVR ELSE MODE_SCLI)
    BY <1>8 DEF MODE_SSVR, MODE_SCLI
  <2>2. CASE mode = MODE_LCLI
    BY <1>6, <1>8, <2>1, <2>2 DEF Pick
  <2>3. CASE mode # MODE_LCLI
    <3>1. Bad(arg)
      BY <1>1, <1>2, <2>1, <2>3 DEF Bad, Modes
    <3> QED
      BY <1>3, <1>8, <2>1, <2>3, <3>1 DEF Pick
  <2> QED
    BY <2>2, <2>3
<1>9. ASSUME Opt = "i", SetIp PROVE ModeInv'
  <2>1. Bad(arg) <=> mode = MODE_LCLI
    BY <1>1, <1>2, <1>9 DEF Bad, Modes
  <2>2. CASE mode = MODE_LCLI
    BY <1>3, <1>9, <2>1, <2>2 DEF SetIp
  <2>3. CASE mode # MODE_LCLI
    BY <1>7, <1>9, <2>1, <2>3 DEF SetIp
  <2> QED
    BY <2>2, <2>3
<1>10. ASSUME Opt = "p", SetPort PROVE ModeInv'
  <2>1. Bad(arg) <=> mode = MODE_LCLI \/ atoi(OptArg) <= 0
    BY <1>1, <1>2, <1>10 DEF Bad, Modes, OptArg
  <2>2. CASE mode = MODE_LCLI \/ atoi(OptArg) <= 0
    BY <1>3, <1>10, <2>1, <2>2 DEF SetPort
  <2>3. CASE ~(mode = MODE_LCLI \/ atoi(OptArg) <= 0)
    BY <1>7, <1>10, <2>1, <2>3 DEF SetPort
  <2> QED
    BY <2>2, <2>3
<1>11. ASSUME Opt = "x", SetThreaded PROVE ModeInv'
  <2>1. Bad(arg) <=> mode # MODE_SSVR
    BY <1>1, <1>2, <1>11 DEF Bad, Modes
  <2>2. CASE mode # MODE_SSVR
    BY <1>3, <1>11, <2>1, <2>2 DEF SetThreaded
  <2>3. CASE mode = MODE_SSVR
    BY <1>7, <1>11, <2>1, <2>3 DEF SetThreaded
  <2> QED
    BY <2>2, <2>3
<1> QED
  <2>1. OwnIp(MODE_SSVR) = RDSH_DEF_SVR_INTFACE /\ OwnIp(MODE_SCLI) = RDSH_DEF_CLI_CONNECT
    BY DEF OwnIp, MODE_SSVR, MODE_SCLI
  <2> QED
    BY <1>4, <1>8, <1>9, <1>10, <1>11, <2>1 DEF ModeOption, MODE_SSVR, MODE_SCLI

LEMMA ModeNext == TypeOK /\ CallInv /\ ModeInv /\ [Next]_vars => ModeInv'
<1> SUFFICES ASSUME TypeOK, CallInv, ModeInv, [Next]_vars PROVE ModeInv'
  OBVIOUS
<1>1. CASE Start /\ call.program = "dsh"
  <2>1. /\ pc = "start" /\ pc' = "runs" /\ arg > argc /\ Accepting
        /\ UNCHANGED <<call, arg, mode, ip, port, threaded_server>>
    BY <1>1 DEF Start, Goto, ModeInv, cargs
  <2> QED
    BY <2>1, OptionsKept DEF ModeInv, Accepting, Accepted, Latest
<1>2. CASE UNCHANGED vars
  <2>1. UNCHANGED <<call, pc, arg, code, mode, ip, port, threaded_server>>
    BY <1>2 DEF vars, program, cargs
  <2> QED
    BY <2>1, OptionsKept DEF ModeInv, Accepting, Accepted, Latest
<1>3. CASE WordCountStep \/ MiniGrepStep
  <2>1. call' = call /\ call.program # "dsh"
    <3>1. call.program # "dsh"
      BY <1>3 DEF WordCountStep, MiniGrepStep
    <3>2. call' = call
      BY <1>3 DEF WordCountStep, Option, OptionsEnd, Open, CannotOpen, Char, CountReadFails, EndOfFile, Total,
                  MiniGrepStep, NoArguments, Help, Flag, FlagsEnd, GrepOpen, GrepLine, GrepReadFails, GrepEnd
    <3> QED
      BY <3>1, <3>2
  <2> QED
    BY <2>1 DEF ModeInv
<1> QED
  BY <1>1, <1>2, <1>3, OptionStep DEF Next, ModeStep

LEMMA ModeStarts == Init => ModeInv
<1> SUFFICES ASSUME Init PROVE ModeInv
  OBVIOUS
<1>1. pc = "start" /\ arg = 1
  BY DEF Init, ProgramInit
<1>2. mode = MODE_LCLI /\ port = RDSH_DEF_PORT
  BY DEF Init, ModeInit
<1>3. ~threaded_server /\ ip = OwnIp(mode)
  BY <1>2 DEF Init, ModeInit, OwnIp, MODE_LCLI, MODE_SSVR, MODE_SCLI
<1>4. Accepted = {}
  BY <1>1 DEF Accepted
<1> QED
  BY <1>1, <1>2, <1>3, <1>4 DEF ModeInv, Accepting, Latest

\* dsh starts in the mode its options ask for, at the last address and port given
\* or the mode's own, or ends at the first that comes too early, contradicts another or has a bad
\* value, for every list of options (dsh_cli.c:48-105).
THEOREM ModeCorrect == Spec => []ModeAnswer
<1>1. ASSUME TypeOK, CallInv, ModeInv, call.program = "dsh", pc = "ended"
      PROVE  Ending # {} /\ code = (IF Min(Ending) \in Shows THEN 0 ELSE EXIT_FAILURE)
  <2>1. /\ arg \in Ending /\ Ending \cap Accepted = {}
        /\ code = (IF arg \in Shows THEN 0 ELSE EXIT_FAILURE)
    BY <1>1 DEF ModeInv
  <2>2. Ending \subseteq Nat /\ arg \in Nat
    <3>1. Ending \subseteq 1..argc /\ argc \in Nat
      BY <1>1, CallFacts DEF CallInv, Ending
    <3> QED
      BY <2>1, <3>1
  <2>3. Min(Ending) \in Ending /\ Min(Ending) <= arg
    BY <2>1, <2>2, Least
  <2>4. Min(Ending) >= 1 /\ Min(Ending) \in Nat
    BY <1>1, <2>3, CallFacts DEF CallInv, Ending
  <2>5. Min(Ending) \notin 1..(arg - 1)
    BY <2>1, <2>3 DEF Accepted
  <2>6. Min(Ending) = arg
    BY <2>2, <2>3, <2>4, <2>5
  <2> QED
    BY <2>1, <2>6
<1>2. ASSUME TypeOK, CallInv, ModeInv, call.program = "dsh", pc = "runs"
      PROVE  /\ Ending = {}
             /\ mode = (IF At("s") # {} THEN MODE_SSVR ELSE IF At("c") # {} THEN MODE_SCLI ELSE MODE_LCLI)
             /\ port = (IF At("p") # {} THEN atoi(Tail(args[Max(At("p"))])) ELSE RDSH_DEF_PORT)
             /\ ip = (IF At("i") # {} THEN Fitting(Tail(args[Max(At("i"))]))
                      ELSE IF At("s") # {} THEN RDSH_DEF_SVR_INTFACE
                      ELSE IF At("c") # {} THEN RDSH_DEF_CLI_CONNECT ELSE <<>>)
             /\ threaded_server = (At("x") # {})
  <2>1. Accepting /\ argc \in Nat /\ DOMAIN args = 1..argc /\ Accepted = 1..argc
    <3>1. Accepting /\ argc \in Nat /\ DOMAIN args = 1..argc /\ arg > argc /\ arg \in 1..(argc + 1)
      BY <1>2, CallFacts DEF CallInv, ModeInv, TypeOK
    <3>2. arg = argc + 1
      BY <3>1
    <3> QED
      BY <3>1, <3>2 DEF Accepted
  <2>2. Ending \cap Accepted = Ending /\ \A o : At(o) \cap Accepted = At(o) /\ At(o) \subseteq 1..argc
    BY <2>1 DEF Ending, At
  <2>3. \A o : At(o) # {} => Max(At(o)) \in DOMAIN args /\ Latest(o, Max(At(o)))
    <3> SUFFICES ASSUME NEW o, At(o) # {} PROVE Max(At(o)) \in DOMAIN args /\ Latest(o, Max(At(o)))
      OBVIOUS
    <3>1. Max(At(o)) \in At(o) /\ \A i \in At(o) : i <= Max(At(o))
      BY <2>1, <2>2, Greatest
    <3> QED
      BY <2>1, <2>2, <3>1 DEF Latest
  <2>4. threaded_server = (At("x") # {})
    <3>1. threaded_server \in BOOLEAN
      BY <1>2 DEF TypeOK, ModeTypes
    <3>2. threaded_server <=> At("x") # {}
      BY <2>1, <2>2 DEF Accepting
    <3> QED
      BY <3>1, <3>2
  <2>5. /\ Ending = {}
        /\ mode = (IF At("s") # {} THEN MODE_SSVR ELSE IF At("c") # {} THEN MODE_SCLI ELSE MODE_LCLI)
        /\ port = (IF At("p") # {} THEN atoi(Tail(args[Max(At("p"))])) ELSE RDSH_DEF_PORT)
    BY <2>1, <2>2, <2>3 DEF Accepting
  <2>6. ip = (IF At("i") # {} THEN Fitting(Tail(args[Max(At("i"))])) ELSE OwnIp(mode))
    BY <2>1, <2>2, <2>3 DEF Accepting
  <2>7. OwnIp(mode) = (IF At("s") # {} THEN RDSH_DEF_SVR_INTFACE
                       ELSE IF At("c") # {} THEN RDSH_DEF_CLI_CONNECT ELSE <<>>)
    BY <2>5 DEF OwnIp, MODE_LCLI, MODE_SSVR, MODE_SCLI
  <2> QED
    BY <2>4, <2>5, <2>6, <2>7
<1>3. TypeOK /\ CallInv /\ ModeInv => ModeAnswer
  BY <1>1, <1>2, Zenon DEF ModeAnswer
<1>4. Spec => []ModeInv
  BY ModeStarts, ModeNext, TypesCorrect, PTL DEF Spec
<1> QED
  BY <1>3, <1>4, TypesCorrect, PTL

----
(* minigrep's flags and matches. *)

\* The flags before the one in hand were all taken; then what is left of the file
\* is an end of it, and what was counted is in it.
Taking ==
    /\ arg = 1 /\ flag >= 2 /\ (AsksHelp => flag = 2)
    /\ Given => flag <= Len(args[1]) + 1 /\ flags = {args[1][i] : i \in 2..(flag - 1)}
    /\ ~Given => flags = {}
Taken == ~AsksHelp /\ flags = AskedFlags /\ arg = Pattern
Remains(k) == text = SubSeq(Contents, k + 1, Len(Contents))
Found == "v" \notin AskedFlags => Contains(Contents, args[Pattern], "i" \in AskedFlags)
GrepInv ==
    call.program = "minigrep" =>
      /\ pc = "start" => Taking
      /\ pc = "open"  => Taken
      /\ pc = "lines" => /\ Taken /\ Readable /\ \E k \in 0..Len(Contents) : Remains(k)
                         /\ match_count > 0 => Found
      /\ pc = "ended" /\ Readable /\ code = 0 => Found

\* A pattern is in a text where its characters are.
LEMMA Occurs ==
  ASSUME NEW s \in Seq(Chars), NEW p \in Seq(Chars), NEW folded, NEW i \in 1..(Len(s) - Len(p) + 1),
         \A j \in 1..Len(p) : Fold(s[i + j - 1], folded) = Fold(p[j], folded)
  PROVE  Contains(s, p, folded)
<1> DEFINE S == [x \in DOMAIN s |-> Fold(s[x], folded)]
           P == [x \in DOMAIN p |-> Fold(p[x], folded)]
           U == {Fold(s[x], folded) : x \in DOMAIN s} \cup {Fold(p[x], folded) : x \in DOMAIN p}
<1>1. Len(s) \in Nat /\ DOMAIN s = 1..Len(s) /\ Len(p) \in Nat /\ DOMAIN p = 1..Len(p) /\ i \in 1..(Len(s) + 1)
  OBVIOUS
<1>2. /\ S \in Seq(U) /\ Len(S) = Len(s) /\ \A x \in 1..Len(s) : S[x] = Fold(s[x], folded)
      /\ P \in Seq(U) /\ Len(P) = Len(p) /\ \A x \in 1..Len(p) : P[x] = Fold(p[x], folded)
  BY <1>1
<1> HIDE DEF S, P, U
<1>3. /\ SubSeq(S, i, i + Len(p) - 1) \in Seq(U) /\ Len(SubSeq(S, i, i + Len(p) - 1)) = Len(p)
      /\ \A j \in 1..Len(p) : SubSeq(S, i, i + Len(p) - 1)[j] = S[i + j - 1]
  BY <1>1, <1>2
<1>4. \A j \in 1..Len(p) : i + j - 1 \in 1..Len(s)
  BY <1>1
<1>5. \A j \in 1..Len(p) : SubSeq(S, i, i + Len(p) - 1)[j] = P[j]
  BY <1>2, <1>3, <1>4
<1>6. SubSeq(S, i, i + Len(p) - 1) = P
  BY <1>2, <1>3, <1>5, SeqEqual
<1> QED
  BY <1>6 DEF Contains, S, P

\* A beginning of a text: what the string functions see of it.
LEMMA UpToIs ==
  ASSUME NEW s \in Seq(Chars), NEW c
  PROVE  \E m \in 0..Len(s) : UpTo(s, c) = SubSeq(s, 1, m)
<1> DEFINE S == {i \in DOMAIN s : s[i] = c}
<1>1. Len(s) \in Nat /\ DOMAIN s = 1..Len(s) /\ S \subseteq Nat /\ s = SubSeq(s, 1, Len(s))
  OBVIOUS
<1> HIDE DEF S
<1>2. CASE S = {}
  <2>1. UpTo(s, c) = SubSeq(s, 1, Len(s)) /\ Len(s) \in 0..Len(s)
    BY <1>1, <1>2 DEF UpTo, S
  <2> QED
    BY <2>1
<1>3. CASE S # {}
  <2>1. Min(S) \in S
    BY <1>1, <1>3, Least
  <2>2. Min(S) - 1 \in 0..Len(s)
    BY <1>1, <2>1 DEF S
  <2>3. UpTo(s, c) = SubSeq(s, 1, Min(S) - 1)
    BY <1>3 DEF UpTo, S
  <2> QED
    BY <2>2, <2>3
<1> QED
  BY <1>2, <1>3

\* What str_match finds in a buffer is in the file.
LEMMA MatchIsReal ==
  ASSUME NEW s \in Seq(Chars), NEW p \in Seq(Chars), NEW folded, NEW k \in 0..Len(s), NEW n \in 0..(Len(s) - k),
         NEW t, t = SubSeq(SubSeq(s, k + 1, Len(s)), 1, n), StrMatch(t, p, folded)
  PROVE  Contains(s, p, folded)
<1>1. Len(s) \in Nat /\ Len(p) \in Nat /\ DOMAIN p = 1..Len(p) /\ k \in Nat /\ n \in Nat /\ k + n <= Len(s)
  OBVIOUS
<1>2. SubSeq(s, k + 1, Len(s)) \in Seq(Chars) /\ Len(SubSeq(s, k + 1, Len(s))) = Len(s) - k
      /\ \A i \in 1..(Len(s) - k) : SubSeq(s, k + 1, Len(s))[i] = s[k + i]
  BY <1>1
<1>3. t \in Seq(Chars) /\ Len(t) = n /\ DOMAIN t = 1..n /\ \A i \in 1..n : t[i] = s[k + i]
  BY <1>1, <1>2
<1>4. CASE p = <<>>
  <2>1. 1 \in 1..(Len(s) - Len(p) + 1) /\ Len(p) = 0
    BY <1>1, <1>4
  <2>2. \A j \in 1..Len(p) : Fold(s[1 + j - 1], folded) = Fold(p[j], folded)
    BY <2>1
  <2> QED
    BY <2>1, <2>2, Occurs
<1>5. CASE p # <<>>
  <2>1. PICK start \in 1..n : \A j \in 1..Len(p) : /\ start + j - 1 <= n
                                                   /\ Fold(t[start + j - 1], folded) = Fold(p[j], folded)
    BY <1>1, <1>3, <1>5 DEF StrMatch
  <2>2. Len(p) \in 1..Len(p)
    BY <1>1, <1>5, EmptySeq
  <2>3. k + start \in 1..(Len(s) - Len(p) + 1)
    <3>1. start + Len(p) - 1 <= n
      BY <2>1, <2>2
    <3>2. start \in Nat /\ start >= 1
      OBVIOUS
    <3> QED
      BY <1>1, <3>1, <3>2
  <2>4. \A j \in 1..Len(p) : Fold(s[(k + start) + j - 1], folded) = Fold(p[j], folded)
    <3> SUFFICES ASSUME NEW j \in 1..Len(p) PROVE Fold(s[(k + start) + j - 1], folded) = Fold(p[j], folded)
      OBVIOUS
    <3>1. start + j - 1 \in 1..n /\ k + (start + j - 1) = (k + start) + j - 1
      BY <1>1, <2>1
    <3> QED
      BY <1>3, <2>1, <3>1
  <2> QED
    BY <2>3, <2>4, Occurs
<1> QED
  BY <1>4, <1>5

LEMMA GrepKept ==
  ASSUME UNCHANGED call
  PROVE  UNCHANGED <<args, argc, Given, AskedFlags, Pattern, AsksHelp, Malformed, Contents, Readable>> /\ (Found' <=> Found)
BY DEF args, argc, Given, AskedFlags, Pattern, AsksHelp, Malformed, Contents, Readable, Opens, Found

\* A line in which something is found is in the file.
LEMMA LineIsReal ==
  ASSUME TypeOK, CallInv, GrepInv, call.program = "minigrep", GrepLine, match_count' > 0 PROVE Found
<1>0. pc = "lines" /\ Taken /\ Readable /\ (match_count > 0 => Found) /\ match_count \in Nat
  BY DEF GrepLine, GrepInv, TypeOK, MiniGrepTypes
<1>1. PICK k \in 0..Len(Contents) : Remains(k)
  BY <1>0 DEF GrepInv
<1>2. Contents \in Seq(Chars) /\ args[Pattern] \in Seq(Chars)
  <2>1. argc \in Nat /\ argc >= Pattern + 1 /\ Pattern \in {1, 2} /\ Opens(args[Pattern + 1])
    BY <1>0, CallFacts DEF Readable, Malformed, Pattern, CallInv
  <2>2. Pattern \in 1..argc
    BY <2>1
  <2> QED
    BY <2>1, <2>2, CallFacts DEF Contents, CallInv
<1> SUFFICES ASSUME ~(match_count > 0), "v" \notin AskedFlags PROVE Contains(Contents, args[Pattern], "i" \in AskedFlags)
  BY <1>0 DEF Found
<1>3. StrMatch(CString(line_buffer'), args[Pattern], "i" \in AskedFlags)
  <2>1. match_count' # match_count
    BY <1>0
  <2>2. StrMatch(CString(line_buffer'), args[arg], "i" \in flags) # ("v" \in flags)
    BY <2>1 DEF GrepLine
  <2>3. arg = Pattern /\ flags = AskedFlags
    BY <1>0 DEF Taken
  <2>4. StrMatch(CString(line_buffer'), args[Pattern], "i" \in AskedFlags) \in BOOLEAN
    BY DEF StrMatch
  <2> QED
    BY <2>2, <2>3, <2>4
<1>4. PICK n \in 0..Len(text) : line_buffer' = SubSeq(text, 1, n) /\ line_buffer' \in Seq(Chars) /\ Len(line_buffer') = n
  BY ChunkIs DEF GrepLine, CallInv
<1>5. PICK m \in 0..n : CString(line_buffer') = SubSeq(line_buffer', 1, m)
  BY <1>4, UpToIs DEF CString
<1>6. m \in 0..(Len(Contents) - k) /\ SubSeq(line_buffer', 1, m) = SubSeq(SubSeq(Contents, k + 1, Len(Contents)), 1, m)
  <2>1. text = SubSeq(Contents, k + 1, Len(Contents)) /\ text \in Seq(Chars) /\ Len(text) = Len(Contents) - k
    BY <1>1, <1>2 DEF Remains
  <2>2. n \in Nat /\ m \in Nat /\ m <= n /\ n <= Len(text) /\ Len(text) \in Nat
    BY <1>4, <1>5, <2>1
  <2>3. SubSeq(SubSeq(text, 1, n), 1, m) = SubSeq(text, 1, m)
    <3>1. /\ SubSeq(text, 1, n) \in Seq(Chars) /\ Len(SubSeq(text, 1, n)) = n
          /\ \A i \in 1..n : SubSeq(text, 1, n)[i] = text[i]
      BY <2>1, <2>2
    <3>2. /\ SubSeq(SubSeq(text, 1, n), 1, m) \in Seq(Chars) /\ Len(SubSeq(SubSeq(text, 1, n), 1, m)) = m
          /\ \A i \in 1..m : SubSeq(SubSeq(text, 1, n), 1, m)[i] = text[i]
      BY <2>2, <3>1
    <3>3. SubSeq(text, 1, m) \in Seq(Chars) /\ Len(SubSeq(text, 1, m)) = m /\ \A i \in 1..m : SubSeq(text, 1, m)[i] = text[i]
      BY <2>1, <2>2
    <3> QED
      BY <3>2, <3>3, SeqEqual
  <2> QED
    BY <1>4, <2>1, <2>2, <2>3
<1> QED
  BY <1>2, <1>3, <1>5, <1>6, MatchIsReal

\* What is left of a text from some place on.
LEMMA RestIs ==
  ASSUME NEW s \in Seq(Chars), NEW k \in 0..Len(s), NEW t, t = SubSeq(s, k + 1, Len(s))
  PROVE  t \in Seq(Chars) /\ Len(t) = Len(s) - k /\ \A i \in 1..Len(t) : t[i] = s[k + i]
<1>1. Len(s) \in Nat /\ k \in Nat /\ t \in Seq(Chars) /\ Len(t) = Len(s) - k
  OBVIOUS
<1>2. Len(t) \in Nat
  BY <1>1
<1>3. \A i \in 1..Len(t) : t[i] = s[k + i]
  BY <1>1
<1> QED
  BY <1>1, <1>2, <1>3

\* A piece of what is left of a text is a piece of the text, and so is the rest.
LEMMA Pieces ==
  ASSUME NEW s \in Seq(Chars), NEW k \in 0..Len(s), NEW t, t = SubSeq(s, k + 1, Len(s)), NEW n \in 0..Len(t)
  PROVE  /\ t \in Seq(Chars) /\ Len(t) = Len(s) - k /\ k + n \in 0..Len(s)
         /\ \A i \in 1..Len(t) : t[i] = s[k + i]
         /\ SubSeq(t, 1, n) = SubSeq(s, k + 1, k + n)
         /\ SubSeq(t, n + 1, Len(t)) = SubSeq(s, k + n + 1, Len(s))
<1>1. /\ Len(s) \in Nat /\ k \in Nat /\ n \in Nat
      /\ t \in Seq(Chars) /\ Len(t) = Len(s) - k /\ \A i \in 1..Len(t) : t[i] = s[k + i]
  <2>1. Len(s) \in Nat /\ k \in Nat /\ Len(t) \in Nat
    OBVIOUS
  <2> QED
    BY <2>1, RestIs
<1>2. k + n \in 0..Len(s) /\ n <= Len(t)
  BY <1>1
<1>3. SubSeq(t, 1, n) = SubSeq(s, k + 1, k + n)
  <2>1. /\ SubSeq(t, 1, n) \in Seq(Chars) /\ Len(SubSeq(t, 1, n)) = n
        /\ \A i \in 1..n : SubSeq(t, 1, n)[i] = t[i]
    BY <1>1, <1>2
  <2>2. /\ SubSeq(s, k + 1, k + n) \in Seq(Chars) /\ Len(SubSeq(s, k + 1, k + n)) = n
        /\ \A i \in 1..n : SubSeq(s, k + 1, k + n)[i] = s[k + i]
    BY <1>1, <1>2
  <2>3. \A i \in 1..n : t[i] = s[k + i]
    BY <1>1, <1>2
  <2> QED
    BY <2>1, <2>2, <2>3, SeqEqual
<1>4. SubSeq(t, n + 1, Len(t)) = SubSeq(s, k + n + 1, Len(s))
  <2>1. /\ SubSeq(t, n + 1, Len(t)) \in Seq(Chars) /\ Len(SubSeq(t, n + 1, Len(t))) = Len(t) - n
        /\ \A i \in 1..(Len(t) - n) : SubSeq(t, n + 1, Len(t))[i] = t[n + i]
    BY <1>1, <1>2
  <2>2. /\ SubSeq(s, k + n + 1, Len(s)) \in Seq(Chars) /\ Len(SubSeq(s, k + n + 1, Len(s))) = Len(s) - (k + n)
        /\ \A i \in 1..(Len(s) - (k + n)) : SubSeq(s, k + n + 1, Len(s))[i] = s[k + n + i]
    BY <1>1, <1>2
  <2>3. Len(t) - n = Len(s) - (k + n)
    BY <1>1
  <2>4. ASSUME NEW i \in 1..(Len(t) - n) PROVE t[n + i] = s[k + n + i]
    <3>1. n + i \in 1..Len(t) /\ k + (n + i) = k + n + i
      BY <1>1
    <3> QED
      BY <1>1, <3>1
  <2>5. Len(SubSeq(t, n + 1, Len(t))) = Len(SubSeq(s, k + n + 1, Len(s)))
    BY <2>1, <2>2, <2>3
  <2>6. \A i \in 1..Len(SubSeq(t, n + 1, Len(t))) : SubSeq(t, n + 1, Len(t))[i] = SubSeq(s, k + n + 1, Len(s))[i]
    BY <2>1, <2>2, <2>3, <2>4
  <2> QED
    BY <2>1, <2>2, <2>5, <2>6, SeqEqual
<1> QED
  BY <1>1, <1>2, <1>3, <1>4

\* What is left after the line is an end of the file as well.
LEMMA LineRemains ==
  ASSUME TypeOK, CallInv, call.program = "minigrep", GrepLine, Contents \in Seq(Chars),
         NEW k \in 0..Len(Contents), Remains(k)
  PROVE  \E n \in 0..Len(Contents) : text' = SubSeq(Contents, n + 1, Len(Contents))
<1>1. text = SubSeq(Contents, k + 1, Len(Contents)) /\ text \in Seq(Chars)
  BY DEF Remains
<1>2. PICK n \in 0..Len(text) : line_buffer' = SubSeq(text, 1, n) /\ Len(line_buffer') = n
  BY <1>1, ChunkIs DEF GrepLine
<1>3. text' = SubSeq(text, n + 1, Len(text))
  BY <1>2 DEF GrepLine
<1>4. k + n \in 0..Len(Contents)
  BY <1>1, Pieces, Zenon
<1>5. SubSeq(text, n + 1, Len(text)) = SubSeq(Contents, k + n + 1, Len(Contents))
  <2>1. \A s \in Seq(Chars) : \A r : r = SubSeq(s, k + 1, Len(s)) /\ k \in 0..Len(s) /\ n \in 0..Len(r) =>
          SubSeq(r, n + 1, Len(r)) = SubSeq(s, k + n + 1, Len(s))
    BY Pieces
  <2> QED
    BY <1>1, <2>1
<1> QED
  BY <1>3, <1>4, <1>5

LEMMA GrepNext == TypeOK /\ CallInv /\ GrepInv /\ [Next]_vars => GrepInv'
<1> SUFFICES ASSUME TypeOK, CallInv, GrepInv, [Next]_vars, call.program = "minigrep", call' = call PROVE GrepInv'
  BY CallKept DEF GrepInv, vars, program
<1>0. /\ argc \in Nat /\ DOMAIN args = 1..argc /\ \A i \in 1..argc : args[i] \in Seq(Chars)
      /\ text \in Seq(Chars) /\ match_count \in Nat
      /\ pc = "start" \/ pc = "open" => match_count = 0
  BY CallFacts DEF CallInv, TypeOK, MiniGrepTypes
<1>1. CASE UNCHANGED vars
  <2>1. UNCHANGED <<pc, arg, text, code, flag, flags, match_count>>
    BY <1>1 DEF vars, program, minigrep
  <2> QED
    BY <2>1, GrepKept DEF GrepInv, Taking, Taken, Remains
<1>2. CASE NoArguments
  <2>1. pc' = "ended" /\ code' = 2
    BY <1>2 DEF NoArguments, Finish
  <2> QED
    BY <2>1, GrepKept DEF GrepInv
<1>3. CASE Help
  <2>1. pc' = "ended" /\ ~Readable
    BY <1>3 DEF Help, Finish, Readable, AsksHelp, Given
  <2> QED
    BY <2>1, GrepKept DEF GrepInv
<1>4. CASE Flag
  <2>0. /\ Taking /\ Given /\ flag <= Len(args[1]) /\ args[1] \in Seq(Chars) /\ ~AsksHelp
        /\ flag \in Nat /\ flag >= 2 /\ flags = {args[1][i] : i \in 2..(flag - 1)} /\ Len(args[1]) \in Nat
    <3>1. Taking /\ Given /\ flag <= Len(args[1]) /\ flag \in Nat /\ flag >= 2
      BY <1>4 DEF Flag, GrepInv, Given, Taking, TypeOK, MiniGrepTypes
    <3>2. args[1] \in Seq(Chars) /\ Len(args[1]) \in Nat
      BY <1>0, <3>1 DEF Given
    <3>3. ~AsksHelp
      BY <1>4, <3>1 DEF Flag, AsksHelp, Taking
    <3> QED
      BY <3>1, <3>2, <3>3 DEF Taking
  <2>1. CASE pc' = "ended" /\ code' = 2
    BY <2>1, GrepKept DEF GrepInv
  <2>2. CASE pc' = "start" /\ flags' = flags \cup {args[1][flag]} /\ flag' = flag + 1
    <3>1. arg' = 1
      BY <1>4, <2>0 DEF Flag, Taking
    <3>2. 2..((flag + 1) - 1) = (2..(flag - 1)) \cup {flag}
      BY <2>0
    <3>3. flags' = {args[1][i] : i \in 2..(flag' - 1)}
      BY <2>0, <2>2, <3>2
    <3>4. flag' >= 2 /\ flag' <= Len(args[1]) + 1
      BY <2>0, <2>2
    <3>5. Taking'
      BY <2>0, <3>1, <3>3, <3>4, GrepKept DEF Taking
    <3> QED
      BY <2>2, <3>5 DEF GrepInv
  <2> QED
    BY <1>4, <2>1, <2>2 DEF Flag, Finish, Goto, NextFlag
<1>5. CASE FlagsEnd
  <2>1. pc' = "open" /\ Taking /\ UNCHANGED flags /\ arg' = Pattern
    BY <1>5 DEF FlagsEnd, Goto, GrepInv, minigrep, Pattern, Given
  <2>2. CASE ~Given
    <3>1. ~AsksHelp /\ flags = AskedFlags
      BY <2>1, <2>2 DEF Taking, AsksHelp, AskedFlags
    <3> QED
      BY <2>1, <3>1, GrepKept DEF GrepInv, Taken
  <2>3. CASE Given
    <3>1. flag > Len(args[1]) /\ flag \in Nat /\ Len(args[1]) \in Nat /\ flag <= Len(args[1]) + 1
      BY <1>0, <1>5, <2>1, <2>3 DEF FlagsEnd, Given, Taking, TypeOK, MiniGrepTypes
    <3>2. ~AsksHelp
      BY <2>1, <3>1 DEF AsksHelp, Taking
    <3>3. flag - 1 = Len(args[1])
      BY <3>1
    <3>4. flags = AskedFlags
      BY <2>1, <2>3, <3>3 DEF AskedFlags, Taking
    <3> QED
      BY <2>1, <3>2, <3>4, GrepKept DEF GrepInv, Taken
  <2> QED
    BY <2>2, <2>3
<1>6. CASE GrepOpen
  <2>0. Taken /\ match_count = 0 /\ UNCHANGED <<arg, flags, match_count>> /\ flags \subseteq {"n", "i", "c", "v"}
    BY <1>0, <1>6 DEF GrepOpen, GrepInv, TypeOK, MiniGrepTypes
  <2>1. CASE pc' = "ended" /\ code' \in {2, 3, 4}
    BY <2>1, GrepKept DEF GrepInv
  <2>2. CASE argc >= arg + 1 /\ Opens(args[arg + 1]) /\ text' = call.files[args[arg + 1]] /\ pc' = "lines"
    <3>1. Pattern \in {1, 2} /\ Readable
      BY <1>0, <2>0, <2>2 DEF Pattern, Readable, Malformed, Taken
    <3>2. text' = Contents /\ Contents \in Seq(Chars)
      BY <2>0, <2>2, CallFacts DEF Contents, Taken, CallInv
    <3>3. 0 \in 0..Len(Contents) /\ Contents = SubSeq(Contents, 0 + 1, Len(Contents))
      BY <3>2
    <3>4. \E k \in 0..Len(Contents') : Remains(k)'
      BY <3>2, <3>3, GrepKept DEF Remains
    <3>5. Taken'
      BY <2>0, GrepKept DEF Taken
    <3> QED
      BY <2>0, <2>2, <3>1, <3>4, <3>5, GrepKept DEF GrepInv
  <2> QED
    BY <1>6, <2>1, <2>2 DEF GrepOpen, Finish, Goto
<1>7. CASE GrepLine
  <2>0. pc' = "lines" /\ pc = "lines" /\ UNCHANGED <<arg, flags>> /\ Taken /\ Readable
    BY <1>7 DEF GrepLine, GrepInv
  <2>1. match_count' > 0 => Found
    BY <1>7, LineIsReal
  <2>2. Contents \in Seq(Chars)
    BY <2>0, CallFacts DEF Contents, Readable, CallInv
  <2>3. \E k \in 0..Len(Contents) : text' = SubSeq(Contents, k + 1, Len(Contents))
    BY <1>7, <2>0, <2>2, LineRemains DEF GrepInv
  <2> QED
    BY <2>0, <2>1, <2>3, GrepKept DEF GrepInv, Taken, Remains
<1>8. CASE GrepReadFails
  <2>0. /\ pc' = "lines" /\ pc = "lines" /\ text' = <<>> /\ UNCHANGED <<arg, flags, match_count>>
        /\ Taken /\ Readable /\ (match_count > 0 => Found)
    BY <1>8 DEF GrepReadFails, ReadFails, GrepInv, minigrep
  <2>1. Contents \in Seq(Chars)
    BY <2>0, CallFacts DEF Contents, Readable, CallInv
  <2>2. Len(Contents) \in 0..Len(Contents) /\ SubSeq(Contents, Len(Contents) + 1, Len(Contents)) = <<>>
    BY <2>1
  <2>3. \E k \in 0..Len(Contents) : text' = SubSeq(Contents, k + 1, Len(Contents))
    BY <2>0, <2>2
  <2> QED
    BY <2>0, <2>3, GrepKept DEF GrepInv, Taken, Remains
<1>9. CASE GrepEnd
  <2>1. pc' = "ended" /\ pc = "lines" /\ code' = (IF match_count > 0 THEN 0 ELSE 1) /\ (match_count > 0 => Found)
    BY <1>9 DEF GrepEnd, Finish, GrepInv
  <2>2. code' = 0 => Found
    BY <2>1
  <2> QED
    BY <2>1, <2>2, GrepKept DEF GrepInv
<1> QED
  BY <1>1, <1>2, <1>3, <1>4, <1>5, <1>6, <1>7, <1>8, <1>9 DEF Next, WordCountStep, ModeStep, MiniGrepStep

LEMMA GrepStarts == Init => GrepInv
<1> SUFFICES ASSUME Init PROVE GrepInv
  OBVIOUS
<1>1. pc = "start" /\ arg = 1 /\ flag = 2 /\ flags = {}
  BY DEF Init, ProgramInit, MiniGrepInit
<1>2. ASSUME Given PROVE flag <= Len(args[1]) + 1 /\ flags = {args[1][i] : i \in 2..(flag - 1)}
  <2>1. args[1] \in Seq(Chars) /\ args[1] # <<>>
    BY <1>2, CallFacts DEF Init, ProgramInit, Given, IsFlags
  <2>2. Len(args[1]) \in Nat \ {0}
    BY <2>1, EmptySeq
  <2>3. 2..(2 - 1) = {}
    OBVIOUS
  <2> QED
    BY <1>1, <2>2, <2>3
<1> QED
  BY <1>1, <1>2 DEF GrepInv, Taking

\* What minigrep finds, without -v, is somewhere in the file, however long its
\* lines are, whatever zeros are in them and wherever reading fails
\* (minigrep.c:62-115, 219).
THEOREM MatchesCorrect == Spec => []MatchesAreReal
<1>1. GrepInv => MatchesAreReal
  BY DEF GrepInv, MatchesAreReal, Ended, Found
<1>2. Spec => []GrepInv
  BY GrepStarts, GrepNext, TypesCorrect, PTL DEF Spec
<1> QED
  BY <1>1, <1>2, PTL

----
(* wordcount's counts. *)

\* What count_stream knows of a stream it has read up to p.
CountsUpTo(s, p) ==
    [lines |-> Cardinality({i \in 1..p : s[i] = Newline}),
     words |-> Cardinality({i \in 1..p : ~IsSpace(s[i]) /\ (i = 1 \/ IsSpace(s[i - 1]))}),
     chars |-> p]
Reads(s) ==
    \E p \in 0..Len(s) : /\ text = SubSeq(s, p + 1, Len(s)) /\ counts = CountsUpTo(s, p)
                         /\ in_word <=> p > 0 /\ ~IsSpace(s[p])

\* What was printed of the first n files.
Printouts(n) == [i \in 1..n |-> Line(Files[i], CountsOf(call.files[Files[i]]))]

\* The options before the one in hand were accepted; then every file before the one
\* in hand was opened, printed and added to the total.
Asking ==
    /\ \A j \in 1..(arg - 1) : args[j] \in {<<"-", o>> : o \in DOMAIN Asks}
    /\ columns = {Asks[o] : o \in {o \in DOMAIN Asks : \E i \in 1..(arg - 1) : args[i] = <<"-", o>>}}
    /\ output = <<>> /\ counts = NoCounts /\ ~in_word /\ num_files = 0 /\ total = NoCounts
Counting ==
    /\ Files # <<>> /\ arg >= FirstFile /\ num_files = arg - FirstFile
    /\ \A j \in FirstFile..(arg - 1) : Opens(args[j])
    /\ output = Printouts(num_files)
    /\ total = Sums[num_files]
CountInv ==
    call.program = "wordcount" =>
      /\ pc = "start" => Asking /\ ~unread
      /\ pc \in {"open", "count"} => columns = Asked /\ ~BadOption
      /\ pc = "open" /\ ~unread => Counting
      /\ pc = "count" /\ ~unread =>
           \/ Files = <<>> /\ arg > argc /\ output = <<>> /\ Reads(call.files[StdIn])
           \/ Counting /\ arg <= argc /\ Opens(args[arg]) /\ Reads(call.files[args[arg]])
      /\ pc = "ended" => CountAnswer

\* The sets that are counted are finite, and one more position adds one or none.
LEMMA OneMore ==
  ASSUME NEW p \in Nat, NEW A, A \subseteq 1..p, NEW B, B \subseteq 1..(p + 1), B \cap 1..p = A
  PROVE  /\ Cardinality(A) \in Nat
         /\ Cardinality(B) = (IF p + 1 \in B THEN Cardinality(A) + 1 ELSE Cardinality(A))
<1>1. IsFiniteSet(A) /\ Cardinality(A) \in Nat
  <2>1. IsFiniteSet(1..p)
    BY FS_Interval
  <2>2. IsFiniteSet(A)
    BY <2>1, FS_Subset
  <2> QED
    BY <2>2, FS_CardinalityType
<1>2. p + 1 \notin A
  OBVIOUS
<1>3. (p + 1 \in B => B = A \cup {p + 1}) /\ (p + 1 \notin B => B = A)
  <2>1. 1..(p + 1) = (1..p) \cup {p + 1}
    OBVIOUS
  <2> QED
    BY <2>1
<1> QED
  BY <1>1, <1>2, <1>3, FS_AddElement

LEMMA CountsStart == ASSUME NEW s PROVE CountsUpTo(s, 0) = NoCounts
<1>1. 1..0 = {}
  OBVIOUS
<1>2. Cardinality({i \in 1..0 : s[i] = Newline}) = 0
  BY <1>1, FS_EmptySet
<1>3. Cardinality({i \in 1..0 : ~IsSpace(s[i]) /\ (i = 1 \/ IsSpace(s[i - 1]))}) = 0
  BY <1>1, FS_EmptySet
<1> QED
  BY <1>2, <1>3 DEF CountsUpTo, NoCounts, Columns

LEMMA CountsEnd == ASSUME NEW s \in Seq(Chars) PROVE CountsUpTo(s, Len(s)) = CountsOf(s)
<1>1. 1..Len(s) = DOMAIN s
  OBVIOUS
<1> QED
  BY <1>1, Zenon DEF CountsUpTo, CountsOf, NewlinesOf, WordStartsOf

LEMMA CountsStep ==
  ASSUME NEW s \in Seq(Chars), NEW p \in 0..Len(s), p + 1 <= Len(s),
         NEW k, k = [CountsUpTo(s, p) EXCEPT
                       !["chars"] = @ + 1,
                       !["lines"] = @ + (IF s[p + 1] = Newline THEN 1 ELSE 0),
                       !["words"] = @ + (IF ~IsSpace(s[p + 1]) /\ ~(p > 0 /\ ~IsSpace(s[p])) THEN 1 ELSE 0)]
  PROVE  k = CountsUpTo(s, p + 1)
<1> DEFINE N(q) == {i \in 1..q : s[i] = Newline}
           W(q) == {i \in 1..q : ~IsSpace(s[i]) /\ (i = 1 \/ IsSpace(s[i - 1]))}
<1>1. p \in Nat /\ p + 1 \in 1..(p + 1) /\ (p + 1) - 1 = p
  OBVIOUS
<1>2. N(p) \subseteq 1..p /\ N(p + 1) \subseteq 1..(p + 1) /\ N(p + 1) \cap 1..p = N(p)
      /\ (p + 1 \in N(p + 1) <=> s[p + 1] = Newline)
  BY <1>1
<1>3. W(p) \subseteq 1..p /\ W(p + 1) \subseteq 1..(p + 1) /\ W(p + 1) \cap 1..p = W(p)
      /\ (p + 1 \in W(p + 1) <=> ~IsSpace(s[p + 1]) /\ ~(p > 0 /\ ~IsSpace(s[p])))
  <2>1. p + 1 = 1 <=> ~(p > 0)
    BY <1>1
  <2>2. p + 1 \in W(p + 1) <=> ~IsSpace(s[p + 1]) /\ (p + 1 = 1 \/ IsSpace(s[p]))
    BY <1>1
  <2>3. p + 1 \in W(p + 1) <=> ~IsSpace(s[p + 1]) /\ ~(p > 0 /\ ~IsSpace(s[p]))
    <3> HIDE DEF W
    <3> QED
      BY <2>1, <2>2, Zenon
  <2>4. W(p) \subseteq 1..p /\ W(p + 1) \subseteq 1..(p + 1) /\ W(p + 1) \cap 1..p = W(p)
    BY <1>1
  <2> QED
    BY <2>3, <2>4
<1>4. CountsUpTo(s, p) = [lines |-> Cardinality(N(p)), words |-> Cardinality(W(p)), chars |-> p]
      /\ CountsUpTo(s, p + 1) = [lines |-> Cardinality(N(p + 1)), words |-> Cardinality(W(p + 1)), chars |-> p + 1]
  BY DEF CountsUpTo
<1> HIDE DEF N, W
<1>5. Cardinality(N(p + 1)) = Cardinality(N(p)) + (IF s[p + 1] = Newline THEN 1 ELSE 0)
  BY <1>1, <1>2, OneMore
<1>6. Cardinality(W(p + 1)) = Cardinality(W(p)) + (IF ~IsSpace(s[p + 1]) /\ ~(p > 0 /\ ~IsSpace(s[p])) THEN 1 ELSE 0)
  <2>1. Cardinality(W(p)) \in Nat
        /\ Cardinality(W(p + 1)) = (IF p + 1 \in W(p + 1) THEN Cardinality(W(p)) + 1 ELSE Cardinality(W(p)))
    BY <1>1, <1>3, OneMore
  <2>2. CASE ~IsSpace(s[p + 1]) /\ ~(p > 0 /\ ~IsSpace(s[p]))
    BY <1>3, <2>1, <2>2
  <2>3. CASE ~(~IsSpace(s[p + 1]) /\ ~(p > 0 /\ ~IsSpace(s[p])))
    BY <1>3, <2>1, <2>3
  <2> QED
    BY <2>2, <2>3
<1>7. k = [lines |-> Cardinality(N(p)) + (IF s[p + 1] = Newline THEN 1 ELSE 0),
           words |-> Cardinality(W(p)) + (IF ~IsSpace(s[p + 1]) /\ ~(p > 0 /\ ~IsSpace(s[p])) THEN 1 ELSE 0), chars |-> p + 1]
  <2> DEFINE a == IF s[p + 1] = Newline THEN 1 ELSE 0
             b == IF ~IsSpace(s[p + 1]) /\ ~(p > 0 /\ ~IsSpace(s[p])) THEN 1 ELSE 0
  <2>1. k = [CountsUpTo(s, p) EXCEPT !["chars"] = @ + 1, !["lines"] = @ + a, !["words"] = @ + b]
    OBVIOUS
  <2> HIDE DEF a, b
  <2>2. \A x, y, z, c, d, e :
          [[lines |-> x, words |-> y, chars |-> z] EXCEPT !["chars"] = c, !["lines"] = d, !["words"] = e]
            = [lines |-> d, words |-> e, chars |-> c]
    OBVIOUS
  <2>3. /\ CountsUpTo(s, p)["chars"] = p /\ CountsUpTo(s, p)["lines"] = Cardinality(N(p))
        /\ CountsUpTo(s, p)["words"] = Cardinality(W(p))
    BY <1>4
  <2>4. k = [lines |-> Cardinality(N(p)) + a, words |-> Cardinality(W(p)) + b, chars |-> p + 1]
    BY <1>4, <2>1, <2>2, <2>3, Zenon
  <2> QED
    BY <2>4 DEF a, b
<1> QED
  BY <1>4, <1>5, <1>6, <1>7

\* Where the files begin.
LEMMA FirstFileIs ==
  ASSUME argc \in Nat, NEW i \in 1..(argc + 1), \A j \in 1..(i - 1) : IsOption(args[j]),
         i <= argc => ~IsOption(args[i])
  PROVE  FirstFile = i
<1> DEFINE P(k) == /\ \A j \in 1..(k - 1) : IsOption(args[j])
                   /\ k <= argc => ~IsOption(args[k])
<1>1. ASSUME NEW k \in 1..(argc + 1), P(k) PROVE k = i
  <2>1. ~(k < i)
    <3>1. k < i => k \in 1..(i - 1) /\ k <= argc
      OBVIOUS
    <3> QED
      BY <1>1, <3>1
  <2>2. ~(i < k)
    <3>1. i < k => i \in 1..(k - 1) /\ i <= argc
      OBVIOUS
    <3> QED
      BY <1>1, <3>1
  <2> QED
    BY <2>1, <2>2
<1> QED
  BY <1>1 DEF FirstFile

\* The files named, by their arguments.
LEMMA FilesAre ==
  ASSUME call \in Calls, FirstFile \in 1..(argc + 1)
  PROVE  /\ Files \in Seq(Seq(Chars)) /\ Len(Files) = argc - FirstFile + 1 /\ DOMAIN Files = 1..Len(Files)
         /\ \A i \in 1..Len(Files) : Files[i] = args[FirstFile + i - 1] /\ FirstFile + i - 1 \in FirstFile..argc
         /\ Files = <<>> <=> FirstFile > argc
<1>1. args \in Seq(Seq(Chars)) /\ argc \in Nat /\ argc = Len(args)
  BY CallFacts DEF argc
<1>2. Files = SubSeq(args, FirstFile, Len(args))
  BY <1>1 DEF Files
<1> HIDE DEF FirstFile, Files, argc, args
<1>3. /\ Files \in Seq(Seq(Chars)) /\ Len(Files) = argc - FirstFile + 1
      /\ \A i \in 1..Len(Files) : Files[i] = args[FirstFile + i - 1]
  BY <1>1, <1>2
<1>4. \A i \in 1..Len(Files) : FirstFile + i - 1 \in FirstFile..argc
  BY <1>1, <1>3
<1>5. Files = <<>> <=> Len(Files) = 0
  BY <1>3, EmptySeq
<1>6. Len(Files) = 0 <=> FirstFile > argc
  BY <1>1, <1>3
<1> QED
  BY <1>3, <1>4, <1>5, <1>6

LEMMA CountsAre ==
  ASSUME NEW s \in Seq(Chars)
  PROVE  CountsOf(s) \in [Columns -> Nat]
<1>1. /\ Cardinality({i \in DOMAIN s : s[i] = Newline}) \in Nat
      /\ Cardinality({i \in DOMAIN s : ~IsSpace(s[i]) /\ (i = 1 \/ IsSpace(s[i - 1]))}) \in Nat
  <2>1. DOMAIN s = 1..Len(s) /\ Len(s) \in Nat
    OBVIOUS
  <2>2. ASSUME NEW T \in SUBSET DOMAIN s PROVE Cardinality(T) \in Nat
    BY <2>1, OneMore
  <2> QED
    BY <2>2
<1>2. \A x, y, z \in Nat : [lines |-> x, words |-> y, chars |-> z] \in [Columns -> Nat]
  BY DEF Columns
<1>3. Len(s) \in Nat
  OBVIOUS
<1> QED
  BY <1>1, <1>2, <1>3, Zenon DEF CountsOf, NewlinesOf, WordStartsOf

\* Sums is what its definition says of it.
LEMMA SumsAre ==
  ASSUME NEW n \in Nat, n = Len(Files), NEW i \in 0..n
  PROVE  Sums[i] = IF i = 0 THEN NoCounts
                   ELSE [c \in Columns |-> Sums[i - 1][c] + CountsOf(call.files[Files[i]])[c]]
<1> DEFINE Body(f, k) == IF k = 0 THEN NoCounts
                         ELSE [c \in Columns |-> f[k - 1][c] + CountsOf(call.files[Files[k]])[c]]
           Good(m) == \E f : f = [k \in 0..m |-> Body(f, k)]
           Fails == {m \in 0..n : ~Good(m)}
<1>1. Good(0)
  <2>1. [k \in 0..0 |-> NoCounts] = [k \in 0..0 |-> Body([j \in 0..0 |-> NoCounts], k)]
    <3>1. \A k \in 0..0 : k = 0
      OBVIOUS
    <3> QED
      BY <3>1
  <2> QED
    BY <2>1
<1>2. ASSUME NEW m \in 1..n, Good(m - 1) PROVE Good(m)
  <2>1. PICK f : f = [k \in 0..(m - 1) |-> Body(f, k)]
    BY <1>2
  <2> DEFINE g == [k \in 0..m |-> IF k < m THEN f[k] ELSE Body(f, m)]
  <2>2. ASSUME NEW k \in 0..m PROVE g[k] = Body(f, k) /\ (k # 0 => g[k - 1] = f[k - 1])
    <3>1. k < m => k \in 0..(m - 1)
      OBVIOUS
    <3>2. CASE k < m
      <4>1. f[k] = Body(f, k)
        BY <2>1, <3>1, <3>2
      <4>2. k # 0 => k - 1 \in 0..m /\ k - 1 < m
        OBVIOUS
      <4> QED
        BY <3>2, <4>1, <4>2
    <3>3. CASE k = m
      <4>1. m - 1 \in 0..m /\ m - 1 < m
        OBVIOUS
      <4> QED
        BY <3>3, <4>1
    <3> QED
      BY <3>2, <3>3
  <2>3. \A k \in 0..m : g[k] = Body(g, k)
    <3>1. ASSUME NEW k \in 0..m PROVE Body(g, k) = Body(f, k)
      <4> HIDE DEF g
      <4> QED
        BY <2>2
    <3> QED
      BY <2>2, <3>1, Zenon
  <2>4. g = [k \in 0..m |-> g[k]]
    OBVIOUS
  <2> HIDE DEF g, Body
  <2>5. g = [k \in 0..m |-> Body(g, k)]
    BY <2>3, <2>4, Zenon
  <2> QED
    BY <2>5
<1>3. Good(n)
  <2>1. SUFFICES ASSUME Fails # {} PROVE FALSE
    <3>1. n \in 0..n
      OBVIOUS
    <3> QED
      BY <3>1
  <2> HIDE DEF Good
  <2>2. Fails \subseteq Nat
    OBVIOUS
  <2>3. Min(Fails) \in Fails /\ \A m \in Fails : Min(Fails) <= m
    <3> HIDE DEF Fails
    <3> QED
      BY <2>1, <2>2, Least
  <2>4. PICK m \in 0..n : ~Good(m) /\ \A l \in 0..n : ~Good(l) => m <= l
    BY <2>3
  <2>5. m # 0
    BY <1>1, <2>4
  <2>6. m \in 1..n /\ m - 1 \in 0..n /\ ~(m <= m - 1)
    BY <2>5
  <2> QED
    BY <1>2, <2>4, <2>6
<1>4. Sums = CHOOSE f : f = [k \in 0..n |-> Body(f, k)]
  BY DEF Sums
<1>5. Sums = [k \in 0..n |-> Body(Sums, k)]
  <2> HIDE DEF Body
  <2> QED
    BY <1>3, <1>4, Zenon
<1>6. Sums[i] = Body(Sums, i)
  <2> HIDE DEF Body
  <2> QED
    BY <1>5
<1> QED
  BY <1>6

LEMMA CountKept ==
  ASSUME UNCHANGED call
  PROVE  /\ UNCHANGED <<args, argc, FirstFile, Files, BadOption, Counted, AllOpen, Asked, CountReport, Sums>>
         /\ \A w, k : Line(w, k)' = Line(w, k)
<1>1. UNCHANGED <<args, argc>>
  BY DEF args, argc
<1>2. UNCHANGED <<FirstFile, Files, BadOption, Asked>>
  BY <1>1 DEF FirstFile, Files, BadOption, Asked
<1>3. UNCHANGED <<Counted, AllOpen>>
  BY <1>2 DEF Counted, AllOpen, Opens
<1>4. UNCHANGED Sums
  BY <1>2 DEF Sums
<1>5. \A w, k : Line(w, k)' = Line(w, k)
  BY <1>2 DEF Line
<1>6. UNCHANGED CountReport
  BY <1>2, <1>3, <1>4 DEF CountReport, Line
<1> QED
  BY <1>1, <1>2, <1>3, <1>4, <1>5, <1>6

LEMMA FirstFileFacts ==
  ASSUME argc \in Nat
  PROVE  /\ FirstFile \in 1..(argc + 1) /\ \A j \in 1..(FirstFile - 1) : IsOption(args[j])
         /\ FirstFile <= argc => ~IsOption(args[FirstFile])
<1> DEFINE T == {i \in 1..(argc + 1) : i = argc + 1 \/ ~IsOption(args[i])}
<1>1. T \subseteq Nat /\ argc + 1 \in T
  OBVIOUS
<1>2. Min(T) \in T /\ \A i \in T : Min(T) <= i
  <2> HIDE DEF T
  <2> QED
    BY <1>1, Least
<1>3. PICK i \in 1..(argc + 1) : (i = argc + 1 \/ ~IsOption(args[i])) /\ \A j \in T : i <= j
  BY <1>2
<1>4. \A j \in 1..(i - 1) : j \in 1..(argc + 1) /\ j # argc + 1 /\ ~(i <= j)
  OBVIOUS
<1>5. \A j \in 1..(i - 1) : IsOption(args[j])
  BY <1>3, <1>4
<1>6. i <= argc => ~IsOption(args[i])
  BY <1>3
<1>7. FirstFile = i
  BY <1>5, <1>6, FirstFileIs
<1> QED
  BY <1>5, <1>6, <1>7

\* What is opened before the first file that is not.
LEMMA CountedAre ==
  ASSUME call \in Calls, argc \in Nat, NEW n \in 0..Len(Files), \A j \in FirstFile..(FirstFile + n - 1) : Opens(args[j]),
         n < Len(Files) => ~Opens(args[FirstFile + n])
  PROVE  Counted = 1..n /\ Cardinality(Counted) = n /\ (AllOpen <=> n = Len(Files))
<1>0. FirstFile \in 1..(argc + 1)
  BY FirstFileFacts
<1>1. /\ Len(Files) \in Nat /\ Len(Files) = argc - FirstFile + 1 /\ DOMAIN Files = 1..Len(Files)
      /\ \A i \in 1..Len(Files) : Files[i] = args[FirstFile + i - 1]
  BY <1>0, FilesAre
<1>2. ASSUME NEW i \in 1..n PROVE i \in Counted
  <2>1. \A j \in 1..i : j \in 1..Len(Files) /\ FirstFile + j - 1 \in FirstFile..(FirstFile + n - 1)
    BY <1>0, <1>1
  <2>2. \A j \in 1..i : Opens(Files[j])
    BY <1>1, <2>1
  <2>3. i \in 1..Len(Files)
    BY <1>1
  <2> QED
    BY <1>1, <2>2, <2>3 DEF Counted
<1>3. ASSUME NEW i \in Counted, i \notin 1..n PROVE FALSE
  <2>1. i \in 1..Len(Files) /\ \A j \in 1..i : Opens(Files[j])
    BY <1>1, <1>3 DEF Counted
  <2>2. n < Len(Files) /\ n + 1 \in 1..i /\ n + 1 \in 1..Len(Files) /\ FirstFile + (n + 1) - 1 = FirstFile + n
    BY <1>0, <1>1, <1>3, <2>1
  <2> QED
    BY <1>1, <2>1, <2>2
<1>4. Counted = 1..n
  BY <1>2, <1>3
<1>5. Cardinality(1..n) = n
  BY FS_Interval
<1>6. 1..n = 1..Len(Files) <=> n = Len(Files)
  <2>1. n # Len(Files) => Len(Files) \in 1..Len(Files) /\ Len(Files) \notin 1..n
    BY <1>1
  <2> QED
    BY <2>1
<1> QED
  BY <1>1, <1>4, <1>5, <1>6 DEF AllOpen

LEMMA CountStarts == Init => CountInv
<1> SUFFICES ASSUME Init PROVE CountInv
  OBVIOUS
<1>1. /\ pc = "start" /\ arg = 1 /\ output = <<>> /\ unread = FALSE
      /\ columns = {} /\ counts = NoCounts /\ ~in_word /\ num_files = 0 /\ total = NoCounts
  BY DEF Init, ProgramInit, WordCountInit
<1>2. 1..(1 - 1) = {}
  OBVIOUS
<1>3. Asking
  BY <1>1, <1>2 DEF Asking
<1> QED
  BY <1>1, <1>3 DEF CountInv

\* An option is accepted, or is the one that is bad.
LEMMA OptionCounts ==
  ASSUME TypeOK, CallInv, CountInv, call.program = "wordcount", UNCHANGED call, Option PROVE CountInv'
<1>0. /\ Asking /\ argc \in Nat /\ arg \in 1..argc /\ IsOption(args[arg]) /\ args[arg] \in Seq(Chars)
      /\ arg \in Nat /\ ~unread /\ UNCHANGED <<output, unread, counts, in_word, num_files, total>>
  <2>1. Asking /\ argc \in Nat /\ arg \in 1..argc
    BY CallFacts DEF Option, CountInv, CallInv, TypeOK
  <2>2. ~unread /\ UNCHANGED <<output, unread, counts, in_word, num_files, total>>
    BY Zenon DEF Option, CountInv
  <2>3. IsOption(args[arg]) /\ args[arg] \in Seq(Chars) /\ arg \in Nat
    BY <2>1, CallFacts DEF Option, CallInv
  <2> QED
    BY <2>1, <2>2, <2>3
<1> DEFINE Known == {<<"-", o>> : o \in DOMAIN Asks}
<1>1. CASE args[arg] \notin Known
  <2>1. pc' = "ended" /\ code' = 1
    <3>1. ASSUME Len(args[arg]) = 2, args[arg][2] \in DOMAIN Asks PROVE FALSE
      <4>1. args[arg] = <<"-", args[arg][2]>>
        BY <1>0, <3>1 DEF IsOption
      <4> QED
        BY <1>1, <3>1, <4>1
    <3> QED
      BY <3>1 DEF Option, Finish
  <2>2. BadOption
    <3>1. \A j \in 1..arg : IsOption(args[j])
      <4>1. \A j \in 1..arg : j \in 1..(arg - 1) \/ j = arg
        BY <1>0
      <4>2. \A o : IsOption(<<"-", o>>)
        BY DEF IsOption
      <4> QED
        BY <1>0, <4>1, <4>2 DEF Asking
    <3>2. ~(FirstFile <= arg) /\ FirstFile \in 1..(argc + 1)
      BY <1>0, <3>1, FirstFileFacts
    <3>3. arg \in 1..(FirstFile - 1)
      BY <1>0, <3>2
    <3> QED
      BY <1>1, <3>3 DEF BadOption
  <2>3. CountReport = output' /\ output' = <<>>
    BY <1>0, <2>2 DEF CountReport, Asking
  <2>4. CountAnswer'
    BY <2>1, <2>2, <2>3, CountKept DEF CountAnswer
  <2> QED
    BY <2>1, <2>4 DEF CountInv
<1>2. CASE args[arg] \in Known
  <2>1. PICK w \in DOMAIN Asks : args[arg] = <<"-", w>>
    BY <1>2
  <2>2. Len(args[arg]) = 2 /\ args[arg][2] = w
    BY <2>1
  <2>3. columns' = columns \cup {Asks[w]} /\ arg' = arg + 1 /\ pc' = "start"
    BY <2>1, <2>2 DEF Option, Goto
  <2>4. 1..(arg' - 1) = 1..(arg - 1) \cup {arg}
    BY <1>0, <2>3
  <2>5. \A j \in 1..(arg' - 1) : args[j] \in Known
    BY <1>0, <1>2, <2>4 DEF Asking
  <2>6. \A o : <<"-", o>> = <<"-", w>> <=> o = w
    OBVIOUS
  <2>7. columns' = {Asks[o] : o \in {o \in DOMAIN Asks : \E i \in 1..(arg' - 1) : args[i] = <<"-", o>>}}
    <3> DEFINE Gave(n, o) == \E i \in 1..n : args[i] = <<"-", o>>
    <3>1. ASSUME NEW o \in DOMAIN Asks PROVE Gave(arg' - 1, o) <=> Gave(arg - 1, o) \/ o = w
      <4>1. args[arg] = <<"-", o>> <=> o = w
        BY <2>1, <2>6
      <4>2. \A i : i \in 1..(arg' - 1) <=> i \in 1..(arg - 1) \/ i = arg
        BY <2>4
      <4> QED
        BY <4>1, <4>2, Zenon
    <3>2. columns = {Asks[o] : o \in {o \in DOMAIN Asks : Gave(arg - 1, o)}}
      BY <1>0 DEF Asking
    <3> HIDE DEF Gave
    <3>3. {o \in DOMAIN Asks : Gave(arg' - 1, o)} = {o \in DOMAIN Asks : Gave(arg - 1, o)} \cup {w}
      BY <3>1
    <3>4. columns' = {Asks[o] : o \in {o \in DOMAIN Asks : Gave(arg' - 1, o)}}
      BY <2>3, <3>2, <3>3
    <3> QED
      BY <3>4 DEF Gave
  <2>8. /\ output' = <<>> /\ counts' = NoCounts /\ num_files' = 0 /\ total' = NoCounts
        /\ UNCHANGED args
    BY <1>0, CountKept DEF Asking
  <2>9. ~in_word' /\ ~unread'
    BY <1>0, Zenon DEF Asking
  <2>10. Asking'
    BY <2>5, <2>7, <2>8, <2>9 DEF Asking
  <2> QED
    BY <2>3, <2>9, <2>10 DEF CountInv
<1> QED
  BY <1>1, <1>2

LEMMA PrintoutsAre ==
  ASSUME NEW n \in Nat
  PROVE  /\ Printouts(0) = <<>>
         /\ Append(Printouts(n), Line(Files[n + 1], CountsOf(call.files[Files[n + 1]]))) = Printouts(n + 1)
         /\ Printouts(n) \o <<>> = Printouts(n)
         /\ \A x : Append(Printouts(n), x) = Printouts(n) \o <<x>>
<1> DEFINE F(i) == Line(Files[i], CountsOf(call.files[Files[i]]))
           S == {F(i) : i \in 1..(n + 1)}
<1> HIDE DEF F
<1>1. /\ [i \in 1..n |-> F(i)] \in Seq(S) /\ [i \in 1..(n + 1) |-> F(i)] \in Seq(S) /\ F(n + 1) \in S
      /\ [i \in 1..0 |-> F(i)] \in Seq(S)
  OBVIOUS
<1>2. [i \in 1..0 |-> F(i)] = <<>>
  BY <1>1, EmptySeq
<1>3. Append([i \in 1..n |-> F(i)], F(n + 1)) = [i \in 1..(n + 1) |-> F(i)]
  <2> DEFINE a == Append([i \in 1..n |-> F(i)], F(n + 1))
             b == [i \in 1..(n + 1) |-> F(i)]
  <2>1. a \in Seq(S) /\ b \in Seq(S) /\ Len(a) = Len(b)
    BY <1>1
  <2>2. \A i \in 1..Len(b) : a[i] = b[i]
    BY <1>1
  <2> QED
    BY <2>1, <2>2, SeqEqual
<1>4. [i \in 1..n |-> F(i)] \o <<>> = [i \in 1..n |-> F(i)]
  BY <1>1, ConcatEmptySeq
<1>5. ASSUME NEW x PROVE Append([i \in 1..n |-> F(i)], x) = [i \in 1..n |-> F(i)] \o <<x>>
  <2> DEFINE f == [i \in 1..n |-> F(i)]
             T == S \cup {x}
             a == Append(f, x)
             b == f \o <<x>>
  <2>1. f \in Seq(T) /\ <<x>> \in Seq(T) /\ Len(f) = n
    OBVIOUS
  <2> HIDE DEF f, S
  <2>2. a \in Seq(T) /\ b \in Seq(T) /\ Len(a) = n + 1 /\ Len(b) = n + 1
    BY <2>1
  <2>3. \A i \in 1..(n + 1) : a[i] = b[i]
    BY <2>1
  <2> QED
    BY <2>2, <2>3, SeqEqual
<1> QED
  BY <1>2, <1>3, <1>4, <1>5 DEF Printouts, F

LEMMA PrintoutsSame == ASSUME UNCHANGED call PROVE Printouts(num_files)' = Printouts(num_files')
<1>1. /\ \A w, k : Line(w, k)' = Line(w, k)
      /\ Files' = Files
  BY CountKept
<1>2. \A i : Line(Files[i], CountsOf(call.files[Files[i]]))' = Line(Files[i], CountsOf(call.files[Files[i]]))
  BY <1>1 DEF Line, CountsOf, NewlinesOf, WordStartsOf
<1> QED
  BY <1>2, Zenon DEF Printouts

LEMMA ReadsFromStart ==
  ASSUME NEW s \in Seq(Chars), text' = s, counts' = NoCounts, ~in_word', UNCHANGED call
  PROVE  \E p \in 0..Len(s) : /\ text' = SubSeq(s, p + 1, Len(s)) /\ counts' = CountsUpTo(s, p)
                              /\ in_word' <=> p > 0 /\ ~IsSpace(s[p])
<1>1. 0 \in 0..Len(s) /\ SubSeq(s, 0 + 1, Len(s)) = s /\ ~(0 > 0)
  OBVIOUS
<1> QED
  BY <1>1, CountsStart

\* The first file is at hand, or there is none.
LEMMA OptionsEndCounts ==
  ASSUME TypeOK, CallInv, CountInv, call.program = "wordcount", UNCHANGED call, OptionsEnd PROVE CountInv'
<1>0. /\ Asking /\ argc \in Nat /\ arg \in 1..(argc + 1) /\ call \in Calls
      /\ arg' = arg /\ UNCHANGED <<output, counts, num_files, total>> /\ (arg <= argc => ~IsOption(args[arg]))
      /\ columns' = IF columns = {} THEN Columns ELSE columns
  BY CallFacts DEF OptionsEnd, CountInv, CallInv, TypeOK
<1>1. FirstFile = arg
  <2>1. \A j \in 1..(arg - 1) : IsOption(args[j])
    <3>1. \A o : IsOption(<<"-", o>>)
      BY DEF IsOption
    <3> QED
      BY <1>0, <3>1 DEF Asking
  <2> QED
    BY <1>0, <2>1, FirstFileIs
<1>2. ~BadOption
  BY <1>0, <1>1 DEF BadOption, Asking
<1>3. columns' = Asked
  BY <1>0, <1>1 DEF Asked, Asking
<1>4. ~in_word' /\ output' = <<>> /\ counts' = NoCounts /\ num_files' = 0 /\ total' = NoCounts /\ unread' = unread
  <2>1. ~in_word'
    BY <1>0, Zenon DEF OptionsEnd, Asking
  <2>2. output' = <<>> /\ counts' = NoCounts /\ num_files' = 0 /\ total' = NoCounts
    BY <1>0 DEF Asking
  <2>3. unread' = unread
    BY Zenon DEF OptionsEnd
  <2> QED
    BY <2>1, <2>2, <2>3
<1>5. CASE arg > argc
  <2>1. text' = call.files[StdIn] /\ pc' = "count"
    BY <1>5 DEF OptionsEnd, Goto
  <2>2. Files = <<>> /\ arg' > argc
    BY <1>0, <1>1, <1>5, FilesAre
  <2>3. Reads(call.files[StdIn])'
    <3>1. call.files[StdIn] \in Seq(Chars) /\ call'.files[StdIn'] = call.files[StdIn]
      BY <1>0, CallFacts DEF StdIn
    <3>2. \E p \in 0..Len(call.files[StdIn]) :
            /\ text' = SubSeq(call.files[StdIn], p + 1, Len(call.files[StdIn]))
            /\ counts' = CountsUpTo(call.files[StdIn], p)
            /\ in_word' <=> p > 0 /\ ~IsSpace(call.files[StdIn][p])
      BY <1>4, <2>1, <3>1, ReadsFromStart
    <3> QED
      BY <3>1, <3>2, Zenon DEF Reads, CountsUpTo
  <2> QED
    BY <1>2, <1>3, <1>4, <2>1, <2>2, <2>3, CountKept DEF CountInv
<1>6. CASE ~(arg > argc)
  <2>1. pc' = "open"
    BY <1>6 DEF OptionsEnd, Goto
  <2>2. Files # <<>> /\ arg - FirstFile = 0 /\ FirstFile..(arg - 1) = {} /\ Len(Files) \in Nat
    BY <1>0, <1>1, <1>6, FilesAre
  <2>3. Sums[0] = NoCounts
    <3>1. 0 \in 0..Len(Files)
      BY <2>2
    <3> QED
      BY <2>2, <3>1, SumsAre
  <2>5. Counting'
    <3>1. Files' # <<>> /\ arg' >= FirstFile' /\ num_files' = arg' - FirstFile'
      BY <1>0, <1>1, <1>4, <2>2, CountKept
    <3>2. \A j \in FirstFile'..(arg' - 1) : Opens(args[j])'
      BY <1>0, <2>2, CountKept
    <3>3. output' = Printouts(num_files)'
      BY <1>4, PrintoutsAre, PrintoutsSame
    <3>4. total' = Sums'[num_files']
      BY <1>4, <2>3, CountKept
    <3> QED
      BY <3>1, <3>2, <3>3, <3>4 DEF Counting
  <2> QED
    BY <1>2, <1>3, <2>1, <2>5, CountKept DEF CountInv
<1> QED
  BY <1>5, <1>6

\* The file at hand is opened, and its counts begin anew.
LEMMA OpenCounts ==
  ASSUME TypeOK, CallInv, CountInv, call.program = "wordcount", UNCHANGED call, Open PROVE CountInv'
<1>0. /\ pc' = "count" /\ arg <= argc /\ Opens(args[arg]) /\ text' = call.files[args[arg]] /\ counts' = NoCounts
      /\ UNCHANGED <<arg, output, columns, total, num_files>> /\ columns = Asked /\ ~BadOption
  BY DEF Open, Goto, CountInv
<1>1. ~in_word' /\ unread' = unread
  BY Zenon DEF Open
<1>2. ASSUME ~unread
      PROVE  Counting' /\ arg' <= argc' /\ Opens(args[arg])' /\ Reads(call.files[args[arg]])'
  <2>1. Counting /\ UNCHANGED <<args, argc>>
    BY <1>2, CountKept DEF Open, CountInv
  <2>2. Counting'
    BY <1>0, <2>1, CountKept, PrintoutsSame DEF Counting, Opens
  <2>3. arg' <= argc' /\ Opens(args[arg])'
    BY <1>0, <2>1 DEF Opens
  <2>4. call.files[args[arg]] \in Seq(Chars) /\ call'.files[args'[arg']] = call.files[args[arg]]
    BY <1>0, <2>1, CallFacts DEF CallInv
  <2>5. \E p \in 0..Len(call.files[args[arg]]) :
          /\ text' = SubSeq(call.files[args[arg]], p + 1, Len(call.files[args[arg]]))
          /\ counts' = CountsUpTo(call.files[args[arg]], p)
          /\ in_word' <=> p > 0 /\ ~IsSpace(call.files[args[arg]][p])
    BY <1>0, <1>1, <2>4, ReadsFromStart
  <2>6. Reads(call.files[args[arg]])'
    BY <2>4, <2>5, Zenon DEF Reads, CountsUpTo
  <2> QED
    BY <2>2, <2>3, <2>6
<1>3. columns' = Asked' /\ ~BadOption'
  BY <1>0, CountKept
<1> QED
  BY <1>0, <1>1, <1>2, <1>3 DEF CountInv

\* A file that does not open ends it, with what was printed before.
LEMMA CannotOpenCounts ==
  ASSUME TypeOK, CallInv, CountInv, call.program = "wordcount", UNCHANGED call, CannotOpen PROVE CountInv'
<1>0. /\ pc' = "ended" /\ code' = 1 /\ arg <= argc /\ ~Opens(args[arg]) /\ output' = output /\ ~BadOption
      /\ argc \in Nat /\ arg \in 1..(argc + 1) /\ call \in Calls
  BY CallFacts DEF CannotOpen, Finish, CountInv, TypeOK, CallInv
<1>1. unread' = unread
  BY Zenon DEF CannotOpen
<1>2. ASSUME ~unread PROVE output = CountReport /\ ~AllOpen
  <2>1. Counting /\ output = Printouts(num_files) /\ Files # <<>> /\ num_files = arg - FirstFile /\ arg >= FirstFile
        /\ \A j \in FirstFile..(arg - 1) : Opens(args[j])
    BY <1>2 DEF CannotOpen, CountInv, Counting
  <2>2. FirstFile \in 1..(argc + 1)
    BY <1>0, FirstFileFacts
  <2>3. Len(Files) = argc - FirstFile + 1
    BY <1>0, <2>2, FilesAre
  <2>4. num_files \in 0..Len(Files) /\ num_files < Len(Files) /\ FirstFile + num_files = arg
        /\ FirstFile + num_files - 1 = arg - 1
    BY <1>0, <2>1, <2>2, <2>3
  <2>5. Cardinality(Counted) = num_files /\ ~AllOpen
    BY <1>0, <2>1, <2>4, CountedAre
  <2>6. CountReport = Printouts(num_files) \o <<>>
    BY <1>0, <2>1, <2>5 DEF CountReport, Printouts
  <2>7. Printouts(num_files) \o <<>> = Printouts(num_files)
    BY <2>4, PrintoutsAre
  <2> QED
    BY <2>1, <2>5, <2>6, <2>7
<1>3. CountAnswer'
  <2>1. ~unread => output' = CountReport' /\ ~AllOpen'
    BY <1>0, <1>2, CountKept
  <2> QED
    BY <1>0, <1>1, <2>1 DEF CountAnswer
<1> QED
  BY <1>0, <1>3 DEF CountInv

\* A character is counted.
LEMMA CharReads ==
  ASSUME TypeOK, CallInv, call.program = "wordcount", Char, NEW s \in Seq(Chars),
         NEW p \in 0..Len(s), text = SubSeq(s, p + 1, Len(s)), counts = CountsUpTo(s, p),
         in_word <=> p > 0 /\ ~IsSpace(s[p])
  PROVE  \E q \in 0..Len(s) : /\ text' = SubSeq(s, q + 1, Len(s)) /\ counts' = CountsUpTo(s, q)
                              /\ in_word' <=> q > 0 /\ ~IsSpace(s[q])
<1>1. text # <<>> /\ Len(s) \in Nat /\ text \in Seq(Chars)
  BY DEF Char, CallInv
<1>2. p + 1 <= Len(s)
  <2>1. Len(text) \in Nat \ {0}
    BY <1>1, EmptySeq
  <2>2. Len(text) = Len(s) - p
    BY <1>1
  <2> QED
    BY <1>1, <2>1, <2>2
<1>3. Head(text) = s[p + 1]
  BY <1>1, <1>2
<1>4. text' = SubSeq(s, (p + 1) + 1, Len(s))
  <2>1. text' = Tail(text) /\ Len(text) = Len(s) - p /\ \A i \in 1..Len(text) : text[i] = s[p + i]
    BY <1>1 DEF Char
  <2>2. Tail(text) \in Seq(Chars) /\ Len(Tail(text)) = Len(s) - (p + 1)
    BY <1>1, <1>2, <2>1
  <2>3. ASSUME NEW i \in 1..(Len(s) - (p + 1)) PROVE Tail(text)[i] = s[(p + 1) + i]
    <3>1. Tail(text)[i] = text[i + 1]
      BY <1>1, <2>2
    <3>2. i + 1 \in 1..Len(text) /\ p + (i + 1) = (p + 1) + i
      BY <1>1, <2>1
    <3> QED
      BY <2>1, <3>1, <3>2
  <2>4. SubSeq(s, (p + 1) + 1, Len(s)) \in Seq(Chars) /\ Len(SubSeq(s, (p + 1) + 1, Len(s))) = Len(s) - (p + 1)
        /\ \A i \in 1..(Len(s) - (p + 1)) : SubSeq(s, (p + 1) + 1, Len(s))[i] = s[(p + 1) + i]
    BY <1>1, <1>2
  <2>5. Tail(text) = SubSeq(s, (p + 1) + 1, Len(s))
    BY <2>2, <2>3, <2>4, SeqEqual
  <2> QED
    BY <2>1, <2>5
<1>5. counts' = [counts EXCEPT
                   !["chars"] = @ + 1,
                   !["lines"] = @ + (IF s[p + 1] = Newline THEN 1 ELSE 0),
                   !["words"] = @ + (IF ~IsSpace(s[p + 1]) /\ ~in_word THEN 1 ELSE 0)]
  BY <1>3, Zenon DEF Char
<1>6. in_word' <=> ~IsSpace(s[p + 1])
  BY <1>3, Zenon DEF Char
<1>7. (IF ~IsSpace(s[p + 1]) /\ ~in_word THEN 1 ELSE 0)
        = (IF ~IsSpace(s[p + 1]) /\ ~(p > 0 /\ ~IsSpace(s[p])) THEN 1 ELSE 0)
  BY Zenon
<1>8. counts' = CountsUpTo(s, p + 1)
  <2>1. counts' = [CountsUpTo(s, p) EXCEPT
                     !["chars"] = @ + 1,
                     !["lines"] = @ + (IF s[p + 1] = Newline THEN 1 ELSE 0),
                     !["words"] = @ + (IF ~IsSpace(s[p + 1]) /\ ~(p > 0 /\ ~IsSpace(s[p])) THEN 1 ELSE 0)]
    BY <1>5, <1>7, Zenon
  <2> QED
    BY <1>2, <2>1, CountsStep
<1>9. p + 1 \in 0..Len(s) /\ p + 1 > 0
  BY <1>1, <1>2
<1>10. in_word' <=> p + 1 > 0 /\ ~IsSpace(s[p + 1])
  BY <1>6, <1>9, Zenon
<1> QED
  BY <1>4, <1>8, <1>9, <1>10, Zenon

LEMMA CharCounts ==
  ASSUME TypeOK, CallInv, CountInv, call.program = "wordcount", UNCHANGED call, Char PROVE CountInv'
<1>0. /\ pc = "count" /\ pc' = pc /\ columns = Asked /\ ~BadOption /\ UNCHANGED <<arg, output, columns, total, num_files>>
      /\ UNCHANGED <<args, argc>> /\ call \in Calls
  BY CountKept DEF Char, CountInv, CallInv
<1>1. unread' = unread
  BY Zenon DEF Char
<1>2. ASSUME NEW s \in Seq(Chars), Reads(s)
      PROVE  \E q \in 0..Len(s) : /\ text' = SubSeq(s, q + 1, Len(s)) /\ counts' = CountsUpTo(s, q)
                                  /\ in_word' <=> q > 0 /\ ~IsSpace(s[q])
  BY <1>2, CharReads DEF Reads
<1>3. CASE unread
  BY <1>0, <1>1, <1>3, CountKept DEF CountInv
<1>4. CASE Files = <<>> /\ arg > argc /\ output = <<>> /\ Reads(call.files[StdIn])
  <2>1. call.files[StdIn] \in Seq(Chars) /\ call'.files[StdIn'] = call.files[StdIn]
    BY <1>0, CallFacts DEF StdIn
  <2>2. Reads(call.files[StdIn])'
    BY <1>2, <1>4, <2>1, Zenon DEF Reads, CountsUpTo
  <2> QED
    BY <1>0, <1>4, <2>2, CountKept DEF CountInv
<1>5. CASE Counting /\ arg <= argc /\ Opens(args[arg]) /\ Reads(call.files[args[arg]])
  <2>1. call.files[args[arg]] \in Seq(Chars) /\ call'.files[args'[arg']] = call.files[args[arg]]
    BY <1>0, <1>5, CallFacts
  <2>2. Reads(call.files[args[arg]])'
    BY <1>2, <1>5, <2>1, Zenon DEF Reads, CountsUpTo
  <2>3. Counting'
    BY <1>0, <1>5, CountKept, PrintoutsSame DEF Counting, Opens
  <2>4. arg' <= argc' /\ Opens(args[arg])'
    BY <1>0, <1>5 DEF Opens
  <2> QED
    BY <1>0, <2>2, <2>3, <2>4, CountKept DEF CountInv
<1> QED
  BY <1>0, <1>3, <1>4, <1>5 DEF CountInv

\* At its end a stream's counts are those of all of it.
LEMMA ReadsAll ==
  ASSUME TypeOK, CallInv, text = <<>>, NEW s \in Seq(Chars), Reads(s) PROVE counts = CountsOf(s)
<1>1. PICK p \in 0..Len(s) : text = SubSeq(s, p + 1, Len(s)) /\ counts = CountsUpTo(s, p)
  BY DEF Reads
<1>2. p = Len(s)
  <2>1. Len(SubSeq(s, p + 1, Len(s))) = Len(s) - p /\ Len(s) \in Nat
    OBVIOUS
  <2>2. Len(<<>>) = 0
    OBVIOUS
  <2>3. 0 = Len(s) - p
    BY <1>1, <2>1, <2>2, Zenon
  <2> QED
    BY <2>1, <2>3
<1> QED
  BY <1>1, <1>2, CountsEnd

\* The counts of standard input, or of a file, are printed.
LEMMA EndOfFileCounts ==
  ASSUME TypeOK, CallInv, CountInv, call.program = "wordcount", UNCHANGED call, EndOfFile PROVE CountInv'
<1>0. /\ pc = "count" /\ text = <<>> /\ columns = Asked /\ ~BadOption /\ UNCHANGED columns
      /\ UNCHANGED <<args, argc>> /\ call \in Calls /\ argc \in Nat /\ arg \in 1..(argc + 1)
      /\ \A w, k : Counts(w, k) = Line(w, k)
  <2>1. pc = "count" /\ text = <<>> /\ columns = Asked /\ ~BadOption /\ UNCHANGED columns
    BY DEF EndOfFile, CountInv
  <2>2. \A w, k : Counts(w, k) = Line(w, k)
    BY <2>1 DEF Counts, Line
  <2> QED
    BY <2>1, <2>2, CountKept, CallFacts DEF CallInv, TypeOK
<1>1. unread' = unread
  BY Zenon DEF EndOfFile
<1>2. CASE arg > argc
  <2>1. pc' = "ended" /\ code' = 0 /\ output' = Append(output, Line(StdIn, counts))
    BY <1>0, <1>2 DEF EndOfFile, Finish, PrintLine
  <2>2. ASSUME ~unread PROVE output' = CountReport /\ AllOpen
    <3>1. Files = <<>> /\ output = <<>> /\ Reads(call.files[StdIn])
      BY <1>0, <1>2, <2>2 DEF CountInv
    <3>2. call.files[StdIn] \in Seq(Chars)
      BY <1>0, CallFacts
    <3>3. counts = CountsOf(call.files[StdIn])
      BY <1>0, <3>1, <3>2, ReadsAll
    <3>4. AllOpen
      BY <3>1 DEF AllOpen, Counted
    <3>5. CountReport = <<Line(StdIn, CountsOf(call.files[StdIn]))>>
      BY <1>0, <3>1 DEF CountReport
    <3>6. Append(output, Line(StdIn, counts)) = <<Line(StdIn, counts)>>
      BY <3>1
    <3> QED
      BY <2>1, <3>3, <3>4, <3>5, <3>6
  <2>3. ~unread => output' = CountReport' /\ AllOpen'
    BY <2>2, CountKept
  <2>4. ~BadOption'
    BY <1>0, CountKept
  <2>5. CountAnswer'
    BY <1>1, <2>1, <2>3, <2>4 DEF CountAnswer
  <2> QED
    BY <2>1, <2>5 DEF CountInv
<1>3. CASE ~(arg > argc)
  <2>0. /\ pc' = "open" /\ output' = Append(output, Line(args[arg], counts)) /\ arg' = arg + 1
        /\ total' = [k \in Columns |-> total[k] + counts[k]] /\ num_files' = num_files + 1
    BY <1>0, <1>3 DEF EndOfFile, Goto, PrintLine
  <2>1. ASSUME ~unread PROVE Counting'
    <3>1. Counting /\ Opens(args[arg]) /\ Reads(call.files[args[arg]])
      BY <1>0, <1>3, <2>1 DEF CountInv
    <3>2. FirstFile \in 1..(argc + 1)
      BY <1>0, FirstFileFacts
    <3>3. /\ Files # <<>> /\ arg >= FirstFile /\ num_files = arg - FirstFile
          /\ \A j \in FirstFile..(arg - 1) : Opens(args[j])
          /\ output = Printouts(num_files) /\ total = Sums[num_files]
      BY <3>1 DEF Counting
    <3>4. /\ num_files \in Nat /\ Len(Files) \in Nat /\ num_files + 1 \in 1..Len(Files)
          /\ Files[num_files + 1] = args[arg]
      <4>1. Len(Files) = argc - FirstFile + 1 /\ num_files \in Nat /\ num_files + 1 \in 1..Len(Files)
            /\ FirstFile + (num_files + 1) - 1 = arg
        BY <1>0, <1>3, <3>2, <3>3, FilesAre
      <4>2. Files[num_files + 1] = args[FirstFile + (num_files + 1) - 1]
        BY <1>0, <3>2, <4>1, FilesAre
      <4>3. Len(Files) \in Nat
        BY <1>0, <3>2, FilesAre
      <4> QED
        BY <4>1, <4>2, <4>3
    <3>5. counts = CountsOf(call.files[Files[num_files + 1]])
      <4>1. call.files[args[arg]] \in Seq(Chars)
        BY <1>0, <3>1, CallFacts
      <4> QED
        BY <1>0, <3>1, <3>4, <4>1, ReadsAll
    <3>6. output' = Printouts(num_files + 1)
      BY <2>0, <3>3, <3>4, <3>5, PrintoutsAre
    <3>7. total' = Sums[num_files + 1]
      <4>1. num_files + 1 \in 0..Len(Files) /\ num_files + 1 # 0 /\ (num_files + 1) - 1 = num_files
        BY <3>4
      <4>2. Sums[num_files + 1] = [c \in Columns |->
              Sums[num_files][c] + CountsOf(call.files[Files[num_files + 1]])[c]]
        BY <3>4, <4>1, SumsAre
      <4> QED
        BY <2>0, <3>3, <3>5, <4>2
    <3>8. \A j \in FirstFile..(arg' - 1) : Opens(args[j])
      <4>1. \A j \in FirstFile..(arg' - 1) : j \in FirstFile..(arg - 1) \/ j = arg
        BY <1>0, <2>0, <3>2
      <4> QED
        BY <3>1, <3>3, <4>1
    <3>9. arg' >= FirstFile /\ num_files' = arg' - FirstFile
      BY <1>0, <2>0, <3>2, <3>3
    <3>10. /\ Files' # <<>> /\ arg' >= FirstFile' /\ num_files' = arg' - FirstFile'
           /\ total' = Sums'[num_files']
      BY <2>0, <3>3, <3>7, <3>9, CountKept
    <3>11. \A j \in FirstFile'..(arg' - 1) : Opens(args[j])'
      BY <1>0, <3>8, CountKept DEF Opens
    <3>12. output' = Printouts(num_files)'
      BY <2>0, <3>6, PrintoutsSame
    <3> QED
      BY <3>10, <3>11, <3>12 DEF Counting
  <2>2. columns' = Asked' /\ ~BadOption'
    BY <1>0, CountKept
  <2> QED
    BY <1>1, <2>0, <2>1, <2>2 DEF CountInv
<1> QED
  BY <1>2, <1>3

\* The total of all files is printed, if there are two.
LEMMA TotalCounts ==
  ASSUME TypeOK, CallInv, CountInv, call.program = "wordcount", UNCHANGED call, Total PROVE CountInv'
<1>0. /\ pc' = "ended" /\ code' = 0 /\ arg = argc + 1 /\ ~BadOption /\ columns = Asked
      /\ argc \in Nat /\ call \in Calls
      /\ output' = IF num_files > 1 THEN Append(output, Line(All, total)) ELSE output
  <2>1. /\ pc = "open" /\ arg > argc /\ pc' = "ended" /\ code' = 0
        /\ output' = IF num_files > 1 THEN Append(output, Counts(All, total)) ELSE output
    BY DEF Total, Finish, PrintLine
  <2>2. columns = Asked /\ ~BadOption
    BY <2>1 DEF CountInv
  <2>3. argc \in Nat /\ call \in Calls /\ arg \in 1..(argc + 1)
    BY CallFacts DEF CallInv, TypeOK
  <2>4. Counts(All, total) = Line(All, total)
    BY <2>2 DEF Counts, Line
  <2> QED
    BY <2>1, <2>2, <2>3, <2>4
<1>1. unread' = unread
  BY Zenon DEF Total
<1>2. ASSUME ~unread PROVE output' = CountReport /\ AllOpen
  <2>1. /\ Files # <<>> /\ arg >= FirstFile /\ num_files = arg - FirstFile
        /\ \A j \in FirstFile..(arg - 1) : Opens(args[j])
        /\ output = Printouts(num_files) /\ total = Sums[num_files]
    BY <1>2 DEF Total, CountInv, Counting
  <2>2. FirstFile \in 1..(argc + 1)
    BY <1>0, FirstFileFacts
  <2>3. num_files = Len(Files) /\ num_files \in Nat /\ FirstFile + num_files - 1 = arg - 1 /\ num_files \in 0..Len(Files)
    BY <1>0, <2>1, <2>2, FilesAre
  <2>4. Cardinality(Counted) = num_files /\ AllOpen
    BY <1>0, <2>1, <2>3, CountedAre
  <2>5. CountReport = Printouts(num_files) \o (IF num_files > 1 THEN <<Line(All, total)>> ELSE <<>>)
    BY <1>0, <2>1, <2>3, <2>4 DEF CountReport, Printouts
  <2>6. Printouts(num_files) \o (IF num_files > 1 THEN <<Line(All, total)>> ELSE <<>>) = output'
    BY <1>0, <2>1, <2>3, PrintoutsAre
  <2> QED
    BY <2>4, <2>5, <2>6
<1>3. ~unread => output' = CountReport' /\ AllOpen'
  BY <1>2, CountKept
<1>4. ~BadOption'
  BY <1>0, CountKept
<1>5. CountAnswer'
  BY <1>0, <1>1, <1>3, <1>4 DEF CountAnswer
<1> QED
  BY <1>0, <1>5 DEF CountInv

LEMMA CountNext == TypeOK /\ CallInv /\ CountInv /\ [Next]_vars => CountInv'
<1> SUFFICES ASSUME TypeOK, CallInv, CountInv, [Next]_vars, call.program = "wordcount", UNCHANGED call PROVE CountInv'
  BY CallKept DEF CountInv, vars, program
<1>1. CASE UNCHANGED vars
  <2>1. UNCHANGED <<call, pc, arg, text, output, unread, code, columns, counts, num_files, total>> /\ (in_word' <=> in_word)
    BY <1>1, Zenon DEF vars, program, wordcount
  <2>2. Counting' <=> Counting
    BY <2>1, CountKept, PrintoutsSame DEF Counting, Opens
  <2>3. /\ Reads(call.files[StdIn])' <=> Reads(call.files[StdIn])
        /\ Reads(call.files[args[arg]])' <=> Reads(call.files[args[arg]])
    BY <2>1, Zenon DEF Reads, CountsUpTo, StdIn, args
  <2>4. Asking' <=> Asking
    BY <2>1, CountKept, Zenon DEF Asking
  <2>5. CountAnswer' <=> CountAnswer
    <3>1. BadOption' = BadOption /\ AllOpen' = AllOpen /\ CountReport' = CountReport /\ unread' = unread
      BY <2>1, CountKept
    <3>2. (BadOption' <=> BadOption) /\ (AllOpen' <=> AllOpen) /\ (unread' <=> unread)
      BY <3>1, Zenon
    <3> QED
      BY <2>1, <3>1, <3>2 DEF CountAnswer, Ended
  <2>6. Opens(args[arg])' <=> Opens(args[arg])
    BY <2>1 DEF Opens, args
  <2> QED
    BY <2>1, <2>2, <2>3, <2>4, <2>5, <2>6, CountKept, Zenon DEF CountInv
<1>2. CASE Next
  <2>1. WordCountStep
    BY <1>2 DEF Next, MiniGrepStep, ModeStep
  <2>2. CASE CountReadFails
    <3>1. unread' /\ pc = "count" /\ pc' = pc /\ columns' = columns
      BY <2>2, Zenon DEF CountReadFails, ReadFails, wordcount
    <3> QED
      BY <3>1, CountKept DEF CountInv
  <2> QED
    BY <2>1, <2>2, OptionCounts, OptionsEndCounts, OpenCounts, CannotOpenCounts, CharCounts, EndOfFileCounts, TotalCounts
    DEF WordCountStep
<1> QED
  BY <1>1, <1>2

\* For any files and options wordcount prints the lines, words and characters of
\* each file up to the first that does not open, then the total, which that file
\* costs together with the exit code (wordcount.c:62-127), if nothing fails in
\* reading.
THEOREM CountsCorrect == Spec => []CountAnswer
<1>1. CountInv => CountAnswer
  BY DEF CountInv, CountAnswer, Ended
<1>2. Spec => []CountInv
  BY CountStarts, CountNext, TypesCorrect, PTL DEF Spec
<1> QED
  BY <1>1, <1>2, PTL

----
(* minigrep's lines. *)

\* Where every line fits the buffer, what was taken so far are the lines up to k;
\* those that match were counted and printed.
LinesTo(k) ==
    /\ (k # 0 => k \in EndsOf(Contents)) /\ text = SubSeq(Contents, k + 1, Len(Contents))
    /\ line_number = Cardinality({d \in EndsOf(Contents) : d <= k}) + 1
Matched(n) == [m \in 1..n |-> Printed(NthOf(Wanted, m))]
LinesInv ==
    /\ \E k \in 0..Len(Contents) : LinesTo(k)
    /\ match_count = Cardinality({n \in Wanted : n < line_number})
    /\ output = IF "c" \in flags THEN <<>> ELSE Matched(match_count)
ReportInv ==
    call.program = "minigrep" =>
      /\ pc \in {"start", "open"} => output = <<>>
      /\ pc = "lines" /\ ~unread /\ Plain => LinesInv
      /\ pc = "ended" => GrepAnswer

LEMMA LeastIs ==
  ASSUME NEW S, S \subseteq Nat, NEW x \in S, \A y \in S : x <= y PROVE Min(S) = x
<1>1. Min(S) \in S /\ Min(S) <= x
  BY Least
<1>2. Min(S) \in Nat /\ x \in Nat /\ x <= Min(S)
  BY <1>1
<1> QED
  BY <1>1, <1>2

\* A set's members are numbered in their order.
LEMMA NthIs ==
  ASSUME NEW L \in Nat, NEW S, S \subseteq 1..L, NEW m \in S
  PROVE  NthOf(S, Cardinality({k \in S : k <= m})) = m
<1> DEFINE B(i) == {k \in S : k <= i}
<1>1. ASSUME NEW i \in S, NEW j \in S, i < j PROVE Cardinality(B(i)) # Cardinality(B(j))
  <2>1. i \in Nat /\ j \in Nat /\ S \subseteq Nat
    OBVIOUS
  <2>2. B(i) \in SUBSET B(j) /\ j \in B(j) /\ j \notin B(i)
    <3>1. j <= j /\ ~(j <= i) /\ \A k \in Nat : k <= i => k <= j
      BY <1>1, <2>1
    <3>2. \A k \in S : k <= i => k <= j
      BY <2>1, <3>1
    <3> QED
      BY <3>1, <3>2
  <2>3. IsFiniteSet(1..L) /\ B(j) \in SUBSET (1..L)
    <3>1. B(j) \in SUBSET (1..L)
      OBVIOUS
    <3> QED
      BY <3>1, FS_Interval
  <2>4. IsFiniteSet(B(j))
    BY <2>3, FS_Subset
  <2> HIDE DEF B
  <2>5. B(i) # B(j)
    BY <2>2
  <2> QED
    BY <2>2, <2>4, <2>5, FS_Subset
<1>2. ASSUME NEW i \in S, Cardinality(B(i)) = Cardinality(B(m)) PROVE i = m
  <2>1. i \in Nat /\ m \in Nat
    OBVIOUS
  <2>2. i < m \/ m < i \/ i = m
    BY <2>1
  <2> HIDE DEF B
  <2> QED
    BY <1>1, <1>2, <2>2
<1> QED
  BY <1>2, Zenon DEF NthOf

\* One more member, behind those counted so far.
LEMMA NextNth ==
  ASSUME NEW L \in Nat, NEW S, S \subseteq 1..L, NEW k \in Nat, NEW e \in Nat, k < e,
         \A d \in S : d < e => d <= k
  PROVE  /\ Cardinality({d \in S : d <= k}) \in Nat
         /\ Cardinality({d \in S : d <= e})
              = (IF e \in S THEN Cardinality({d \in S : d <= k}) + 1 ELSE Cardinality({d \in S : d <= k}))
         /\ e \in S => NthOf(S, Cardinality({d \in S : d <= k}) + 1) = e
         /\ Cardinality({d \in S : d <= e}) <= Cardinality(S) /\ Cardinality(S) \in Nat
<1> DEFINE A == {d \in S : d <= k}
           B == {d \in S : d <= e}
<1>0. S \subseteq Nat
  OBVIOUS
<1>1. e \notin A /\ (e \in S => B = A \cup {e}) /\ (e \notin S => B = A)
  <2>1. e \notin A
    OBVIOUS
  <2>2. ASSUME NEW d PROVE d \in B <=> d \in A \/ (d = e /\ e \in S)
    <3>1. CASE d \in S
      <4>1. d \in Nat /\ (d = e \/ d < e \/ e < d)
        BY <1>0, <3>1
      <4>2. d < e => d <= k /\ d <= e /\ d # e
        BY <3>1, <4>1
      <4>3. e < d => ~(d <= k) /\ ~(d <= e) /\ d # e
        BY <4>1
      <4>4. d = e => d <= e /\ ~(d <= k)
        OBVIOUS
      <4>5. d \in A <=> d <= k
        BY <3>1
      <4>6. d \in B <=> d <= e
        BY <3>1
      <4> HIDE DEF A, B
      <4> QED
        BY <3>1, <4>1, <4>2, <4>3, <4>4, <4>5, <4>6
    <3>2. CASE d \notin S
      BY <3>2
    <3> QED
      BY <3>1, <3>2
  <2> HIDE DEF A, B
  <2>3. e \in S => B = A \cup {e}
    BY <2>2
  <2>4. e \notin S => B = A
    BY <2>2
  <2> QED
    BY <2>1, <2>3, <2>4
<1>2. IsFiniteSet(S)
  <2>1. IsFiniteSet(1..L)
    BY FS_Interval
  <2> QED
    BY <2>1, FS_Subset
<1>3. A \in SUBSET S /\ B \in SUBSET S
  OBVIOUS
<1>4. e \in S => NthOf(S, Cardinality(B)) = e
  BY NthIs
<1> HIDE DEF A, B
<1>5. IsFiniteSet(A) /\ Cardinality(B) <= Cardinality(S)
  BY <1>2, <1>3, FS_Subset
<1>6. Cardinality(A) \in Nat /\ Cardinality(S) \in Nat
  BY <1>2, <1>5, FS_CardinalityType
<1>7. Cardinality(B) = IF e \in S THEN Cardinality(A) + 1 ELSE Cardinality(A)
  BY <1>1, <1>5, FS_AddElement
<1> QED
  BY <1>4, <1>5, <1>6, <1>7 DEF A, B

LEMMA ThisNth ==
  ASSUME NEW L \in Nat, NEW S, S \subseteq 1..L, NEW k \in Nat, k # 0 => k \in S
  PROVE  IF Cardinality({d \in S : d <= k}) = 0 THEN k = 0 ELSE NthOf(S, Cardinality({d \in S : d <= k})) = k
<1> DEFINE A == {d \in S : d <= k}
<1>1. CASE k = 0
  <2>1. ASSUME NEW d \in A PROVE FALSE
    <3>1. d \in 1..L /\ d <= 0
      BY <1>1
    <3> QED
      BY <3>1
  <2> HIDE DEF A
  <2>2. A = {}
    BY <2>1
  <2>3. Cardinality(A) = 0
    BY <2>2, FS_EmptySet
  <2> QED
    BY <1>1, <2>3 DEF A
<1>2. CASE k # 0
  <2>1. k \in S
    BY <1>2
  <2>2. NthOf(S, Cardinality(A)) = k
    BY <2>1, NthIs
  <2>3. k \in A /\ A \in SUBSET (1..L)
    <3>1. k <= k
      OBVIOUS
    <3>2. k \in A
      BY <2>1, <3>1
    <3>3. A \in SUBSET (1..L)
      OBVIOUS
    <3> QED
      BY <3>2, <3>3
  <2> HIDE DEF A
  <2>4. IsFiniteSet(1..L)
    BY FS_Interval
  <2>5. IsFiniteSet(A)
    BY <2>3, <2>4, FS_Subset
  <2>6. Cardinality(A) # 0
    BY <2>3, <2>5, FS_EmptySet
  <2> QED
    BY <2>2, <2>6 DEF A
<1> QED
  BY <1>1, <1>2

\* The line after k ends at the next end.
LEMMA LineIs ==
  ASSUME NEW t \in Seq(Chars), NEW k \in Nat, k # 0 => k \in EndsOf(t), k < Len(t)
  PROVE  \E e \in EndsOf(t) :
           /\ e \in 1..Len(t) /\ k \in 0..(e - 1) /\ \A d \in EndsOf(t) : d < e => d <= k
           /\ LET n == Cardinality({d \in EndsOf(t) : d <= k}) + 1
              IN /\ n \in DOMAIN LinesOf(t) /\ LinesOf(t)[n] = SubSeq(t, k + 1, e)
                 /\ n \in Nat /\ Cardinality({d \in EndsOf(t) : d <= e}) = n
<1> DEFINE E == EndsOf(t)
           T == {d \in E : d > k}
           n == Cardinality({d \in E : d <= k}) + 1
<1>1. Len(t) \in Nat /\ DOMAIN t = 1..Len(t) /\ E \subseteq 1..Len(t) /\ (k # 0 => k \in E) /\ k \in Nat
      /\ Len(t) \in E
  <2>1. Len(t) \in Nat /\ DOMAIN t = 1..Len(t) /\ E \subseteq 1..Len(t)
    BY DEF EndsOf
  <2>2. Len(t) \in E
    <3>1. Len(t) \in 1..Len(t)
      BY <2>1
    <3> QED
      BY <2>1, <3>1 DEF EndsOf
  <2> QED
    BY <2>1, <2>2
<1> HIDE DEF E
<1>2. T \subseteq Nat /\ Len(t) \in T
  <2>1. T \subseteq E /\ E \subseteq Nat
    BY <1>1
  <2>2. Len(t) > k
    OBVIOUS
  <2> QED
    BY <1>1, <2>1, <2>2
<1>3. Min(T) \in T /\ \A d \in T : Min(T) <= d
  <2> HIDE DEF T
  <2> QED
    BY <1>2, Least
<1>4. PICK e \in E : e > k /\ \A d \in T : e <= d
  BY <1>3
<1>5. e \in 1..Len(t) /\ k \in 0..(e - 1) /\ \A d \in E : d < e => d <= k
  <2>1. e \in 1..Len(t) /\ k \in 0..(e - 1)
    BY <1>1, <1>4
  <2>2. ASSUME NEW d \in E, d < e PROVE d <= k
    BY <1>1, <1>4, <2>2
  <2> QED
    BY <2>1, <2>2
<1>6. /\ Cardinality({d \in E : d <= k}) \in Nat
      /\ Cardinality({d \in E : d <= e}) = n /\ NthOf(E, n) = e
      /\ n <= Cardinality(E) /\ Cardinality(E) \in Nat
  <2>1. k \in Nat /\ e \in Nat /\ k < e /\ Len(t) \in Nat /\ E \subseteq 1..Len(t) /\ e \in E
    BY <1>1, <1>4, <1>5
  <2>2. /\ Cardinality({d \in E : d <= k}) \in Nat
        /\ Cardinality({d \in E : d <= e}) = (IF e \in E THEN n ELSE Cardinality({d \in E : d <= k}))
        /\ e \in E => NthOf(E, n) = e
        /\ Cardinality({d \in E : d <= e}) <= Cardinality(E) /\ Cardinality(E) \in Nat
    BY <1>5, <2>1, NextNth
  <2> HIDE DEF n
  <2> QED
    BY <2>1, <2>2
<1>7. IF n = 1 THEN k = 0 ELSE NthOf(E, n - 1) = k
  <2> DEFINE a == Cardinality({d \in E : d <= k})
  <2>1. IF a = 0 THEN k = 0 ELSE NthOf(E, a) = k
    BY <1>1, ThisNth
  <2>2. a \in Nat /\ n = a + 1
    BY <1>6
  <2> HIDE DEF a, n
  <2>3. n - 1 = a /\ (n = 1 <=> a = 0)
    BY <2>2
  <2> QED
    BY <2>1, <2>3
<1>8. n \in DOMAIN LinesOf(t) /\ LinesOf(t)[n] = SubSeq(t, k + 1, e)
  <2>1. n \in 1..Cardinality(E)
    BY <1>6
  <2>2. (IF n = 1 THEN 1 ELSE NthOf(E, n - 1) + 1) = k + 1
    BY <1>7
  <2> HIDE DEF n
  <2>3. LinesOf(t)[n] = SubSeq(t, IF n = 1 THEN 1 ELSE NthOf(E, n - 1) + 1, NthOf(E, n))
    BY <2>1 DEF LinesOf, E
  <2>4. DOMAIN LinesOf(t) = 1..Cardinality(E)
    BY DEF LinesOf, E
  <2> QED
    BY <1>6, <2>1, <2>2, <2>3, <2>4 
<1>9. n \in Nat
  BY <1>6
<1>10. /\ e \in E /\ e \in 1..Len(t) /\ k \in 0..(e - 1) /\ \A d \in E : d < e => d <= k
       /\ n \in DOMAIN LinesOf(t) /\ LinesOf(t)[n] = SubSeq(t, k + 1, e)
       /\ n \in Nat /\ Cardinality({d \in E : d <= e}) = n
  BY <1>4, <1>5, <1>6, <1>8, <1>9
<1> QED
  BY <1>10, Zenon DEF E

\* fgets takes a line that fits its buffer whole.
LEMMA ChunkIsLine ==
  ASSUME NEW t \in Seq(Chars), NEW e \in EndsOf(t), e \in 1..Len(t), NEW k \in 0..(e - 1),
         \A d \in EndsOf(t) : d < e => d <= k, e - k < LINE_BUFFER_SZ,
         NEW r, r = SubSeq(t, k + 1, Len(t))
  PROVE  Chunk(r) = SubSeq(t, k + 1, e) /\ e - k \in 0..Len(r) /\ k \in 0..Len(t)
<1> DEFINE S == {LINE_BUFFER_SZ - 1, Len(r)} \cup {i \in DOMAIN r : r[i] = Newline}
<1>1. /\ Len(t) \in Nat /\ DOMAIN t = 1..Len(t) /\ k \in Nat /\ e \in Nat /\ k < e /\ e <= Len(t)
      /\ k \in 0..Len(t) /\ LINE_BUFFER_SZ \in Nat
  BY MiniGrepAssumption
<1>2. /\ r \in Seq(Chars) /\ Len(r) = Len(t) - k /\ DOMAIN r = 1..Len(r)
      /\ \A i \in 1..Len(r) : r[i] = t[k + i]
  <2>1. r \in Seq(Chars) /\ Len(r) = Len(t) - k /\ \A i \in 1..Len(r) : r[i] = t[k + i]
    BY <1>1, RestIs, Zenon
  <2> QED
    BY <2>1
<1>3. e - k \in 1..Len(r) /\ k + (e - k) = e
  <2>1. \A a, b, c \in Nat : a < b /\ b <= c => b - a \in 1..(c - a) /\ a + (b - a) = b
    OBVIOUS
  <2>2. Len(r) = Len(t) - k
    BY <1>2
  <2> QED
    BY <1>1, <2>1, <2>2, Zenon
<1>4. e - k \in S
  <2>1. CASE e = Len(t)
    BY <1>2, <2>1
  <2>2. CASE t[e] = Newline
    <3>1. r[e - k] = Newline
      BY <1>2, <1>3, <2>2
    <3> QED
      BY <1>2, <1>3, <3>1
  <2> QED
    BY <2>1, <2>2 DEF EndsOf
<1>5. ASSUME NEW y \in S PROVE y \in Nat /\ e - k <= y
  <2>1. CASE y = LINE_BUFFER_SZ - 1
    BY <1>1, <2>1, MiniGrepAssumption
  <2>2. CASE y = Len(r)
    BY <1>1, <1>2, <2>2
  <2>3. CASE y \in 1..Len(r) /\ r[y] = Newline
    <3>1. y \in Nat /\ y >= 1 /\ y <= Len(t) - k /\ t[k + y] = Newline
      <4>1. y \in 1..Len(r) /\ r[y] = t[k + y] /\ Len(r) = Len(t) - k /\ Len(r) \in Nat
        BY <1>2, <2>3
      <4> HIDE DEF S
      <4> QED
        BY <2>3, <4>1
    <3>2. k + y \in 1..Len(t) /\ ~(k + y <= k)
      <4> HIDE DEF S
      <4> QED
        BY <1>1, <3>1
    <3>3. k + y \in EndsOf(t)
      BY <1>1, <3>1, <3>2 DEF EndsOf
    <3>4. ~(k + y < e)
      BY <3>2, <3>3
    <3> HIDE DEF S
    <3> QED
      BY <1>1, <3>1, <3>4
  <2> QED
    BY <1>2, <2>1, <2>2, <2>3
<1>6. S \subseteq Nat
  BY <1>5
<1>7. Chunk(r) = SubSeq(r, 1, Min(S))
  BY DEF Chunk
<1> HIDE DEF S
<1>8. Min(S) = e - k
  BY <1>4, <1>5, <1>6, LeastIs
<1>9. SubSeq(r, 1, e - k) = SubSeq(t, k + 1, k + (e - k))
  <2>1. e - k \in 0..Len(r)
    BY <1>3
  <2>2. \A n \in 0..Len(r) : SubSeq(r, 1, n) = SubSeq(t, k + 1, k + n)
    BY <1>1, Pieces
  <2> QED
    BY <2>1, <2>2
<1> QED
  BY <1>1, <1>3, <1>7, <1>8, <1>9

\* str_match and the pattern's place in the line.
LEMMA MatchIsContains ==
  ASSUME NEW s \in Seq(Chars), NEW p \in Seq(Chars), NEW folded
  PROVE  StrMatch(s, p, folded) <=> Contains(s, p, folded)
<1>1. Len(s) \in Nat /\ DOMAIN s = 1..Len(s) /\ Len(p) \in Nat /\ DOMAIN p = 1..Len(p)
  OBVIOUS
<1>2. ASSUME StrMatch(s, p, folded) PROVE Contains(s, p, folded)
  <2>1. 0 \in 0..Len(s) /\ Len(s) \in 0..(Len(s) - 0)
    BY <1>1
  <2>2. SubSeq(s, 0 + 1, Len(s)) = s /\ SubSeq(s, 1, Len(s)) = s
    BY <1>1
  <2>3. s = SubSeq(SubSeq(s, 0 + 1, Len(s)), 1, Len(s))
    BY <2>2
  <2> QED
    BY <1>2, <2>1, <2>3, MatchIsReal
<1>3. ASSUME Contains(s, p, folded), p # <<>> PROVE StrMatch(s, p, folded)
  <2> DEFINE S == [x \in DOMAIN s |-> Fold(s[x], folded)]
             P == [x \in DOMAIN p |-> Fold(p[x], folded)]
             U == {Fold(s[x], folded) : x \in DOMAIN s} \cup {Fold(p[x], folded) : x \in DOMAIN p}
  <2>1. PICK i \in 1..(Len(s) - Len(p) + 1) : SubSeq(S, i, i + Len(p) - 1) = P
    BY <1>3 DEF Contains
  <2>2. /\ S \in Seq(U) /\ Len(S) = Len(s) /\ \A x \in 1..Len(s) : S[x] = Fold(s[x], folded)
        /\ Len(P) = Len(p) /\ \A x \in 1..Len(p) : P[x] = Fold(p[x], folded)
    BY <1>1
  <2> HIDE DEF S, P, U
  <2>3. Len(p) >= 1
    BY <1>1, <1>3, EmptySeq
  <2>4. i \in 1..Len(s) /\ \A j \in 1..Len(p) : i + j - 1 \in 1..Len(s)
    BY <1>1, <2>3
  <2>5. \A j \in 1..Len(p) : SubSeq(S, i, i + Len(p) - 1)[j] = S[i + j - 1]
    BY <1>1, <2>2, <2>4
  <2>6. ASSUME NEW j \in 1..Len(p) PROVE i + j - 1 <= Len(s) /\ Fold(s[i + j - 1], folded) = Fold(p[j], folded)
    <3>1. S[i + j - 1] = P[j]
      BY <2>1, <2>5
    <3>2. S[i + j - 1] = Fold(s[i + j - 1], folded) /\ P[j] = Fold(p[j], folded)
      BY <2>2, <2>4
    <3>3. i + j - 1 <= Len(s)
      BY <1>1, <2>4
    <3> QED
      BY <3>1, <3>2, <3>3
  <2> QED
    BY <1>1, <2>4, <2>6 DEF StrMatch
<1>4. p = <<>> => StrMatch(s, p, folded)
  BY DEF StrMatch
<1> QED
  BY <1>2, <1>3, <1>4

\* A text without the character is what it is up to it.
LEMMA UpToNone ==
  ASSUME NEW s \in Seq(Chars), NEW c, c \notin {s[i] : i \in DOMAIN s} PROVE UpTo(s, c) = s
<1>1. {i \in DOMAIN s : s[i] = c} = {}
  OBVIOUS
<1> QED
  BY <1>1 DEF UpTo

LEMMA ReportKept ==
  ASSUME UNCHANGED call
  PROVE  /\ UNCHANGED <<Contents, EndsOf(Contents), FileLines, Wanted, GrepReport>> /\ (Plain' <=> Plain)
         /\ Matched(match_count)' = Matched(match_count')
<1>1. UNCHANGED <<args, AskedFlags, Pattern, Contents>>
  BY GrepKept
<1>2. UNCHANGED <<EndsOf(Contents), FileLines>>
  BY <1>1 DEF EndsOf, FileLines, LinesOf, NthOf
<1>3. UNCHANGED Wanted
  BY <1>1, <1>2 DEF Wanted, Contains, Fold
<1>4. Plain' <=> Plain
  BY <1>2 DEF Plain
<1>6. \A n : NthOf(Wanted, n)' = NthOf(Wanted, n)
  BY <1>3 DEF NthOf
<1>7. ASSUME NEW n PROVE UNCHANGED Printed(NthOf(Wanted, n))
  <2> DEFINE m == NthOf(Wanted, n)
             w == FileLines[m]
             u == UpTo(w, Newline)
  <2>1. UNCHANGED m
    BY <1>6
  <2> HIDE DEF m
  <2>2. UNCHANGED w
    BY <1>2, <2>1
  <2> HIDE DEF w
  <2>3. UNCHANGED u
    BY <2>2 DEF UpTo
  <2> HIDE DEF u
  <2>4. Printed(m) = [number |-> IF "n" \in AskedFlags THEN m ELSE 0, line |-> u]
    BY DEF Printed, u, w
  <2>5. Printed(m)' = [number |-> IF "n" \in AskedFlags' THEN m' ELSE 0, line |-> u']
    BY DEF Printed, u, w
  <2> QED
    BY <1>1, <2>1, <2>3, <2>4, <2>5 DEF m
<1>8. Matched(match_count)' = Matched(match_count')
  BY <1>7, Zenon DEF Matched
<1>9. UNCHANGED GrepReport
  BY <1>1, <1>3, <1>7, Zenon DEF GrepReport
<1> QED
  BY <1>1, <1>2, <1>3, <1>4, <1>8, <1>9

\* One more line, which may be one that is wanted.
LEMMA NextMember ==
  ASSUME NEW L \in Nat, NEW S, S \subseteq 1..L, NEW n \in Nat \ {0}
  PROVE  LET c == Cardinality({m \in S : m < n}) IN
         /\ c \in Nat /\ Cardinality({m \in S : m < n + 1}) = (IF n \in S THEN c + 1 ELSE c)
         /\ n \in S => NthOf(S, c + 1) = n
<1>1. PICK k \in Nat : k = n - 1 /\ k < n
  OBVIOUS
<1>2. ASSUME NEW d \in S PROVE (d < n <=> d <= k) /\ (d < n + 1 <=> d <= n)
  <2>1. d \in Nat
    OBVIOUS
  <2> QED
    BY <1>1, <2>1
<1>3. {m \in S : m < n} = {m \in S : m <= k} /\ {m \in S : m < n + 1} = {m \in S : m <= n}
  BY <1>2
<1>4. \A d \in S : d < n => d <= k
  BY <1>2
<1>5. n \in Nat /\ k < n
  BY <1>1
<1>6. /\ Cardinality({d \in S : d <= k}) \in Nat
      /\ Cardinality({d \in S : d <= n})
           = (IF n \in S THEN Cardinality({d \in S : d <= k}) + 1 ELSE Cardinality({d \in S : d <= k}))
      /\ n \in S => NthOf(S, Cardinality({d \in S : d <= k}) + 1) = n
      /\ Cardinality({d \in S : d <= n}) <= Cardinality(S) /\ Cardinality(S) \in Nat
  BY <1>4, <1>5, NextNth
<1> QED
  BY <1>3, <1>6

LEMMA MatchedAre ==
  ASSUME NEW n \in Nat
  PROVE  /\ Matched(0) = <<>> /\ Append(Matched(n), Printed(NthOf(Wanted, n + 1))) = Matched(n + 1)
<1> DEFINE F(i) == Printed(NthOf(Wanted, i))
           S == {F(i) : i \in 1..(n + 1)}
<1> HIDE DEF F
<1>1. /\ [i \in 1..n |-> F(i)] \in Seq(S) /\ [i \in 1..(n + 1) |-> F(i)] \in Seq(S) /\ F(n + 1) \in S
      /\ [i \in 1..0 |-> F(i)] \in Seq(S)
  OBVIOUS
<1>2. [i \in 1..0 |-> F(i)] = <<>>
  BY <1>1, EmptySeq
<1>3. Append([i \in 1..n |-> F(i)], F(n + 1)) = [i \in 1..(n + 1) |-> F(i)]
  <2> DEFINE a == Append([i \in 1..n |-> F(i)], F(n + 1))
             b == [i \in 1..(n + 1) |-> F(i)]
  <2>1. a \in Seq(S) /\ b \in Seq(S) /\ Len(a) = Len(b)
    BY <1>1
  <2>2. \A i \in 1..Len(b) : a[i] = b[i]
    BY <1>1
  <2> QED
    BY <2>1, <2>2, SeqEqual
<1> QED
  BY <1>2, <1>3 DEF Matched, F

LEMMA GrepArguments ==
  ASSUME call \in Calls, Readable
  PROVE  Contents \in Seq(Chars) /\ args[Pattern] \in Seq(Chars)
<1>1. argc \in Nat /\ argc >= Pattern + 1 /\ Pattern \in {1, 2} /\ Opens(args[Pattern + 1])
  BY CallFacts DEF Readable, Malformed, Pattern
<1>2. Pattern \in 1..argc
  BY <1>1
<1> QED
  BY <1>1, <1>2, CallFacts DEF Contents

LEMMA LinesAre ==
  ASSUME NEW t \in Seq(Chars)
  PROVE  /\ EndsOf(t) \subseteq 1..Len(t) /\ Len(t) \in Nat
         /\ Cardinality(EndsOf(t)) \in Nat /\ DOMAIN LinesOf(t) = 1..Cardinality(EndsOf(t))
<1>1. EndsOf(t) \subseteq 1..Len(t) /\ Len(t) \in Nat
  BY DEF EndsOf
<1>2. IsFiniteSet(1..Len(t))
  BY <1>1, FS_Interval
<1>3. IsFiniteSet(EndsOf(t))
  BY <1>1, <1>2, FS_Subset
<1> QED
  BY <1>1, <1>3, FS_CardinalityType DEF LinesOf

\* A turn of the loop takes the next line, whole.
LEMMA LineTaken ==
  ASSUME TypeOK, CallInv, call.program = "minigrep", UNCHANGED call, Taken, Readable, Plain, GrepLine, LinesInv
  PROVE  /\ \E k \in 0..Len(Contents) : LinesTo(k)'
         /\ line_number \in DOMAIN FileLines /\ FileLines[line_number] \in Seq(Chars)
         /\ CString(line_buffer') = FileLines[line_number]
<1>0. /\ Contents \in Seq(Chars) /\ Len(Contents) \in Nat /\ text # <<>> /\ line_buffer' = Chunk(text)
      /\ text' = SubSeq(text, Len(line_buffer') + 1, Len(text)) /\ line_number' = line_number + 1
  BY GrepArguments DEF CallInv, GrepLine, NextLine
<1>1. PICK k \in 0..Len(Contents) : LinesTo(k)
  BY DEF LinesInv
<1>2. /\ k # 0 => k \in EndsOf(Contents)
      /\ text = SubSeq(Contents, k + 1, Len(Contents))
      /\ line_number = Cardinality({d \in EndsOf(Contents) : d <= k}) + 1
  BY <1>1 DEF LinesTo
<1>3. k \in Nat /\ k < Len(Contents)
  <2>1. k = Len(Contents) => text = <<>>
    BY <1>0, <1>2
  <2> QED
    BY <1>0, <2>1
<1>4. PICK e \in EndsOf(Contents) :
        /\ e \in 1..Len(Contents) /\ k \in 0..(e - 1) /\ \A d \in EndsOf(Contents) : d < e => d <= k
        /\ line_number \in DOMAIN FileLines /\ FileLines[line_number] = SubSeq(Contents, k + 1, e)
        /\ Cardinality({d \in EndsOf(Contents) : d <= e}) = line_number
  BY <1>0, <1>2, <1>3, LineIs DEF FileLines
<1> DEFINE w == FileLines[line_number]
<1>5. w \in Seq(Chars) /\ Len(w) = e - k
  <2>1. k \in Nat /\ e \in Nat /\ k < e /\ e <= Len(Contents)
    BY <1>0, <1>4
  <2>2. w = SubSeq(Contents, k + 1, e)
    BY <1>4
  <2> HIDE DEF w
  <2> QED
    BY <1>0, <2>1, <2>2
<1>6. Len(w) < LINE_BUFFER_SZ /\ Nul \notin {w[i] : i \in DOMAIN w}
  BY <1>4 DEF Plain
<1> HIDE DEF w
<1>7. e - k < LINE_BUFFER_SZ /\ w = SubSeq(Contents, k + 1, e)
  BY <1>4, <1>5, <1>6 DEF w
<1>8. line_buffer' = w /\ e - k \in 0..Len(text)
  BY <1>0, <1>2, <1>4, <1>7, ChunkIsLine
<1>9. CString(line_buffer') = w
  BY <1>5, <1>6, <1>8, UpToNone DEF CString
<1>10. text' = SubSeq(Contents, e + 1, Len(Contents))
  <2>1. PICK n \in 0..Len(text) : n = e - k
    BY <1>8
  <2>2. SubSeq(text, n + 1, Len(text)) = SubSeq(Contents, k + n + 1, Len(Contents))
    <3>1. Contents \in Seq(Chars) /\ text = SubSeq(Contents, k + 1, Len(Contents))
      BY <1>0, <1>2
    <3>2. \A s \in Seq(Chars) : \A r : r = SubSeq(s, k + 1, Len(s)) /\ k \in 0..Len(s) /\ n \in 0..Len(r) =>
            SubSeq(r, n + 1, Len(r)) = SubSeq(s, k + n + 1, Len(s))
      BY Pieces
    <3> QED
      BY <3>1, <3>2
  <2>3. k + n = e
    BY <1>0, <1>3, <1>4, <2>1
  <2> QED
    BY <1>0, <1>5, <1>8, <2>1, <2>2, <2>3
<1>11. LinesTo(e)'
  <2>1. e \in EndsOf(Contents)
    BY <1>4
  <2>2. line_number' = Cardinality({d \in EndsOf(Contents) : d <= e}) + 1
    BY <1>0, <1>4
  <2>3. UNCHANGED Contents /\ UNCHANGED EndsOf(Contents)
    BY ReportKept
  <2> QED
    BY <1>10, <2>1, <2>2, <2>3 DEF LinesTo
<1>12. e \in 0..Len(Contents) /\ UNCHANGED Contents
  BY <1>0, <1>4, ReportKept
<1> QED
  BY <1>4, <1>5, <1>9, <1>11, <1>12 DEF w

LEMMA LineReports ==
  ASSUME TypeOK, CallInv, call.program = "minigrep", UNCHANGED call, Taken, Readable, Plain, GrepLine, LinesInv
  PROVE  LinesInv'
<1>0. /\ line_number \in DOMAIN FileLines /\ FileLines[line_number] \in Seq(Chars)
      /\ CString(line_buffer') = FileLines[line_number] /\ args[Pattern] \in Seq(Chars) /\ Contents \in Seq(Chars)
      /\ arg = Pattern /\ flags = AskedFlags /\ line_number \in Nat /\ line_number' = line_number + 1
      /\ UNCHANGED flags
  BY LineTaken, GrepArguments DEF CallInv, Taken, TypeOK, MiniGrepTypes, GrepLine, NextLine
<1> DEFINE found == StrMatch(CString(line_buffer'), args[arg], "i" \in flags) # ("v" \in flags)
<1>1. found <=> line_number \in Wanted
  <2>1. StrMatch(CString(line_buffer'), args[arg], "i" \in flags)
          <=> Contains(FileLines[line_number], args[Pattern], "i" \in AskedFlags)
    BY <1>0, MatchIsContains
  <2>2. /\ StrMatch(CString(line_buffer'), args[arg], "i" \in flags) \in BOOLEAN
        /\ Contains(FileLines[line_number], args[Pattern], "i" \in AskedFlags) \in BOOLEAN
    BY DEF StrMatch, Contains
  <2> QED
    BY <1>0, <2>1, <2>2 DEF Wanted
<1>2. /\ match_count' = IF found THEN match_count + 1 ELSE match_count
      /\ IF found /\ "c" \notin flags
         THEN output' = Append(output, Printed(line_number))
         ELSE UNCHANGED output
  BY <1>0 DEF GrepLine, PrintLine, Printed
<1> HIDE DEF found
<1>3. LET c == Cardinality({m \in Wanted : m < line_number}) IN
      /\ c \in Nat /\ Cardinality({m \in Wanted : m < line_number + 1}) = (IF line_number \in Wanted THEN c + 1 ELSE c)
      /\ line_number \in Wanted => NthOf(Wanted, c + 1) = line_number
  <2>1. PICK L \in Nat : DOMAIN FileLines = 1..L
    BY <1>0, LinesAre DEF FileLines
  <2>2. Wanted \subseteq 1..L /\ line_number \in Nat \ {0}
    BY <1>0, <2>1 DEF Wanted
  <2> QED
    BY <2>1, <2>2, NextMember
<1>4. match_count = Cardinality({m \in Wanted : m < line_number}) /\ match_count \in Nat
  BY <1>3 DEF LinesInv
<1>5. match_count' = Cardinality({m \in Wanted : m < line_number'})
  BY <1>0, <1>1, <1>2, <1>3, <1>4
<1>6. output' = IF "c" \in flags THEN <<>> ELSE Matched(match_count')
  <2>1. output = IF "c" \in flags THEN <<>> ELSE Matched(match_count)
    BY DEF LinesInv
  <2>2. CASE found
    <3>1. NthOf(Wanted, match_count + 1) = line_number
      BY <1>1, <1>3, <1>4, <2>2
    <3>2. Append(Matched(match_count), Printed(line_number)) = Matched(match_count + 1)
      BY <1>4, <3>1, MatchedAre
    <3> QED
      BY <1>2, <2>1, <2>2, <3>2
  <2>3. CASE ~found
    BY <1>2, <2>1, <2>3
  <2> QED
    BY <2>2, <2>3
<1>7. UNCHANGED Wanted /\ Matched(match_count)' = Matched(match_count')
  BY ReportKept
<1>8. \E k \in 0..Len(Contents') : LinesTo(k)'
  BY LineTaken, ReportKept
<1> QED
  BY <1>0, <1>5, <1>6, <1>7, <1>8 DEF LinesInv

\* Behind the last line every line that is wanted was counted.
LEMMA ReportDone ==
  ASSUME call \in Calls, Readable, LinesInv, text = <<>>
  PROVE  match_count = Cardinality(Wanted) /\ match_count \in Nat /\ (match_count = 0 <=> Wanted = {})
<1>1. Contents \in Seq(Chars) /\ Len(Contents) \in Nat
  BY GrepArguments
<1>2. PICK k \in 0..Len(Contents) : LinesTo(k)
  BY DEF LinesInv
<1>3. k = Len(Contents)
  <2>1. text \in Seq(Chars) /\ Len(text) = Len(Contents) - k
    BY <1>1, <1>2, RestIs DEF LinesTo
  <2>2. Len(text) = 0
    OBVIOUS
  <2>3. Len(Contents) - k = 0
    BY <2>1, <2>2
  <2> QED
    BY <1>1, <2>3
<1>4. /\ EndsOf(Contents) \subseteq 1..Len(Contents)
      /\ Cardinality(EndsOf(Contents)) \in Nat /\ DOMAIN FileLines = 1..Cardinality(EndsOf(Contents))
  BY <1>1, LinesAre DEF FileLines
<1>5. line_number = Cardinality(EndsOf(Contents)) + 1
  <2>1. {d \in EndsOf(Contents) : d <= k} = EndsOf(Contents)
    BY <1>3, <1>4
  <2> QED
    BY <1>2, <2>1 DEF LinesTo
<1>6. Wanted \subseteq 1..Cardinality(EndsOf(Contents))
  BY <1>4 DEF Wanted
<1>7. {n \in Wanted : n < line_number} = Wanted
  <2>1. ASSUME NEW n \in Wanted PROVE n < line_number
    <3>1. n \in 1..Cardinality(EndsOf(Contents))
      BY <1>6
    <3> QED
      BY <1>4, <1>5, <3>1
  <2> QED
    BY <2>1
<1>8. match_count = Cardinality(Wanted)
  BY <1>7 DEF LinesInv
<1>9. IsFiniteSet(Wanted)
  <2>1. IsFiniteSet(1..Cardinality(EndsOf(Contents)))
    BY <1>4, FS_Interval
  <2> QED
    BY <1>6, <2>1, FS_Subset
<1> QED
  BY <1>8, <1>9, FS_CardinalityType, FS_EmptySet

LEMMA GrepOpens ==
  ASSUME TypeOK, CallInv, GrepInv, ReportInv, call.program = "minigrep", UNCHANGED call, GrepOpen
  PROVE  ReportInv'
<1>0. /\ Taken /\ output = <<>> /\ match_count = 0 /\ arg = Pattern /\ ~AsksHelp /\ UNCHANGED <<arg, output, flags, match_count>>
      /\ AskedFlags \subseteq {"n", "i", "c", "v"} /\ argc \in Nat /\ Pattern \in {1, 2} /\ call \in Calls
  BY CallFacts DEF GrepOpen, GrepInv, ReportInv, CallInv, Taken, TypeOK, MiniGrepTypes, Pattern
<1>1. CASE argc < arg + 1 /\ Finish(2)
  <2>1. Malformed /\ pc' = "ended" /\ code' = 2
    BY <1>0, <1>1 DEF Malformed, Finish
  <2> QED
    BY <1>0, <2>1, GrepKept DEF ReportInv, GrepAnswer, Ended
<1>2. ~(argc < arg + 1) => ~Malformed
  BY <1>0 DEF Malformed
<1>3. CASE argc >= arg + 1 /\ "malloc" \in Faults /\ Finish(4)
  <2>1. ~Malformed /\ pc' = "ended" /\ code' = 4
    BY <1>0, <1>2, <1>3 DEF Finish
  <2> QED
    BY <1>0, <1>3, <2>1, GrepKept DEF ReportInv, GrepAnswer, Ended
<1>4. CASE argc >= arg + 1 /\ ~Opens(args[arg + 1]) /\ Finish(3)
  <2>1. ~Malformed /\ ~Readable /\ pc' = "ended" /\ code' = 3
    BY <1>0, <1>2, <1>4 DEF Finish, Readable
  <2> QED
    BY <1>0, <2>1, GrepKept DEF ReportInv, GrepAnswer, Ended
<1>5. CASE /\ argc >= arg + 1 /\ Opens(args[arg + 1])
           /\ text' = call.files[args[arg + 1]] /\ line_number' = 1 /\ Goto("lines")
  <2>1. text' = Contents /\ Contents \in Seq(Chars) /\ pc' = "lines"
    BY <1>0, <1>5, CallFacts DEF Contents, Goto
  <2>2. 0 \in 0..Len(Contents) /\ SubSeq(Contents, 0 + 1, Len(Contents)) = Contents
    BY <2>1
  <2>3. Cardinality({d \in EndsOf(Contents) : d <= 0}) = 0
    <3>1. EndsOf(Contents) \subseteq 1..Len(Contents) /\ Len(Contents) \in Nat
      BY <2>1, LinesAre
    <3>2. {d \in EndsOf(Contents) : d <= 0} = {}
      BY <3>1
    <3> QED
      BY <3>2, FS_EmptySet
  <2>4. LinesTo(0)'
    BY <1>5, <2>1, <2>2, <2>3, ReportKept DEF LinesTo
  <2>5. Cardinality({n \in Wanted : n < 1}) = 0
    <3>1. Wanted \subseteq 1..Cardinality(EndsOf(Contents)) /\ Cardinality(EndsOf(Contents)) \in Nat
      BY <2>1, LinesAre DEF Wanted, FileLines
    <3>2. ASSUME NEW n \in Wanted PROVE ~(n < 1)
      <4>1. n \in 1..Cardinality(EndsOf(Contents))
        BY <3>1
      <4> QED
        BY <3>1, <4>1
    <3>3. {n \in Wanted : n < 1} = {}
      BY <3>2
    <3> QED
      BY <3>3, FS_EmptySet
  <2>6. Matched(match_count)' = <<>>
    BY <1>0, ReportKept, MatchedAre
  <2>7. LinesInv'
    BY <1>0, <1>5, <2>2, <2>4, <2>5, <2>6, ReportKept DEF LinesInv
  <2> QED
    BY <2>1, <2>7 DEF ReportInv
<1> QED
  BY <1>1, <1>3, <1>4, <1>5 DEF GrepOpen

LEMMA ReportNext == TypeOK /\ CallInv /\ GrepInv /\ ReportInv /\ [Next]_vars => ReportInv'
<1> SUFFICES ASSUME TypeOK, CallInv, GrepInv, ReportInv, [Next]_vars, call.program = "minigrep" PROVE ReportInv'
  BY CallKept DEF ReportInv, vars, program
<1>0. UNCHANGED call /\ argc \in Nat /\ \A i \in 1..argc : args[i] \in Seq(Chars)
  BY CallKept, CallFacts DEF CallInv, vars, program
<1>1. CASE UNCHANGED vars
  <2>1. /\ UNCHANGED <<call, pc, arg, text, output, unread, code>>
        /\ UNCHANGED <<flag, flags, line_buffer, line_number, match_count>>
    BY <1>1, Zenon DEF vars, program, minigrep
  <2>2. LinesInv' <=> LinesInv
    <3>1. \A k : LinesTo(k)' <=> LinesTo(k)
      BY <2>1, ReportKept DEF LinesTo
    <3> QED
      BY <2>1, <3>1, ReportKept DEF LinesInv
  <2>3. (unread' <=> unread) /\ (Plain' <=> Plain) /\ (AsksHelp' <=> AsksHelp) /\ (Malformed' <=> Malformed)
        /\ (Readable' <=> Readable)
    <3>1. UNCHANGED <<AsksHelp, Malformed, Readable>> /\ UNCHANGED unread /\ (Plain' <=> Plain)
      BY <1>0, <2>1, ReportKept, GrepKept
    <3> QED
      BY <3>1, Zenon
  <2>4. GrepAnswer' <=> GrepAnswer
    BY <2>1, <2>3, ReportKept DEF GrepAnswer, Ended
  <2> QED
    BY <2>1, <2>2, <2>3, <2>4 DEF ReportInv
<1>2. CASE NoArguments
  <2>1. pc' = "ended" /\ code' = 2 /\ output' = <<>> /\ ~AsksHelp /\ Malformed
    BY <1>0, <1>2 DEF NoArguments, Finish, ReportInv, AsksHelp, Given, Malformed, Pattern
  <2> QED
    BY <1>0, <2>1, GrepKept DEF ReportInv, GrepAnswer, Ended
<1>3. CASE Help
  <2>1. pc' = "ended" /\ code' = 0 /\ output' = <<>> /\ AsksHelp
    BY <1>3 DEF Help, Finish, ReportInv, AsksHelp, Given
  <2> QED
    BY <1>0, <2>1, GrepKept DEF ReportInv, GrepAnswer, Ended
<1>4. CASE Flag
  <2>0. pc = "start" /\ output' = <<>> /\ Taking /\ Given /\ flag <= Len(args[1]) /\ flag \in Nat /\ flag >= 2
    <3>1. pc = "start" /\ Taking /\ output = <<>> /\ UNCHANGED output
      BY <1>4 DEF Flag, GrepInv, ReportInv
    <3> QED
      BY <1>4, <3>1 DEF Flag, Given, Taking, TypeOK, MiniGrepTypes
  <2>1. CASE pc' = "start"
    BY <2>0, <2>1 DEF ReportInv
  <2>2. CASE args[1][flag] \notin {"n", "i", "c", "v"} /\ pc' = "ended" /\ code' = 2
    <3>1. ~AsksHelp
      BY <1>4, <2>0 DEF Flag, AsksHelp, Taking
    <3>2. args[1][flag] \in AskedFlags
      <4>1. flag \in 2..Len(args[1])
        BY <1>0, <2>0 DEF Given
      <4> QED
        BY <2>0, <4>1 DEF AskedFlags
    <3>3. Malformed
      BY <2>2, <3>2 DEF Malformed
    <3> QED
      BY <1>0, <2>0, <2>2, <3>1, <3>3, GrepKept DEF ReportInv, GrepAnswer, Ended
  <2> QED
    BY <1>4, <2>0, <2>1, <2>2 DEF Flag, Finish, Goto
<1>5. CASE FlagsEnd
  BY <1>5 DEF FlagsEnd, Goto, ReportInv
<1>6. CASE GrepOpen
  BY <1>0, <1>6, GrepOpens
<1>7. CASE GrepLine
  <2>1. pc' = "lines" /\ pc = "lines" /\ Taken /\ Readable /\ (unread' <=> unread)
    BY <1>7, Zenon DEF GrepLine, GrepInv
  <2>2. ~unread /\ Plain => LinesInv'
    BY <1>0, <1>7, <2>1, LineReports DEF ReportInv
  <2> QED
    BY <1>0, <2>1, <2>2, ReportKept DEF ReportInv
<1>8. CASE GrepReadFails
  <2>1. pc' = "lines" /\ unread'
    BY <1>8, Zenon DEF GrepReadFails, ReadFails, GrepInv
  <2> QED
    BY <2>1 DEF ReportInv
<1>9. CASE GrepEnd
  <2>1. /\ pc = "lines" /\ pc' = "ended" /\ text = <<>> /\ Taken /\ Readable /\ (unread' <=> unread)
        /\ code' = (IF match_count > 0 THEN 0 ELSE 1)
        /\ output' = IF "c" \in flags THEN Append(output, [number |-> match_count]) ELSE output
    <3>1. unread' <=> unread
      BY <1>9, Zenon DEF GrepEnd
    <3> QED
      BY <1>9, <3>1 DEF GrepEnd, Finish, PrintLine, GrepInv
  <2>2. ~unread /\ Plain => output' = GrepReport /\ code' = (IF Wanted = {} THEN 1 ELSE 0)
    <3> SUFFICES ASSUME ~unread, Plain PROVE output' = GrepReport /\ code' = (IF Wanted = {} THEN 1 ELSE 0)
      OBVIOUS
    <3>1. LinesInv
      BY <2>1 DEF ReportInv
    <3>2. match_count = Cardinality(Wanted) /\ match_count \in Nat /\ (match_count = 0 <=> Wanted = {})
      BY <2>1, <3>1, ReportDone DEF CallInv
    <3>3. flags = AskedFlags
      BY <2>1 DEF Taken
    <3>4. ASSUME "c" \in flags PROVE output' = GrepReport
      <4>1. output' = Append(<<>>, [number |-> match_count])
        BY <2>1, <3>1, <3>4 DEF LinesInv
      <4>2. \A x : Append(<<>>, x) = <<x>>
        OBVIOUS
      <4>3. output' = <<[number |-> match_count]>>
        BY <4>1, <4>2
      <4>4. GrepReport = <<[number |-> Cardinality(Wanted)]>>
        BY <3>3, <3>4 DEF GrepReport
      <4> QED
        BY <3>2, <4>3, <4>4
    <3>5. ASSUME "c" \notin flags PROVE output' = GrepReport
      BY <2>1, <3>1, <3>2, <3>3, <3>5 DEF LinesInv, GrepReport, Matched
    <3>6. code' = (IF Wanted = {} THEN 1 ELSE 0)
      BY <2>1, <3>2
    <3> QED
      BY <3>4, <3>5, <3>6
  <2>3. ~AsksHelp /\ ~Malformed
    BY <2>1 DEF Readable
  <2> QED
    BY <1>0, <2>1, <2>2, <2>3, ReportKept, GrepKept DEF ReportInv, GrepAnswer, Ended
<1> QED
  BY <1>1, <1>2, <1>3, <1>4, <1>5, <1>6, <1>7, <1>8, <1>9 DEF Next, WordCountStep, ModeStep, MiniGrepStep

LEMMA ReportStarts == Init => ReportInv
BY DEF Init, ProgramInit, ReportInv

\* For any arguments and file minigrep refuses what it should, and else, in a file
\* whose lines fit its buffer and hold no zero, prints just the lines that match,
\* each with its own number, or how many they are, and exits accordingly
\* (minigrep.c:130-292), if nothing fails in reading.
THEOREM ReportCorrect == Spec => []GrepAnswer
<1>1. ReportInv => GrepAnswer
  BY DEF ReportInv, GrepAnswer, Ended
<1>2. Spec => []GrepInv
  BY GrepStarts, GrepNext, TypesCorrect, PTL DEF Spec
<1>3. Spec => []ReportInv
  BY ReportStarts, ReportNext, TypesCorrect, <1>2, PTL DEF Spec
<1> QED
  BY <1>1, <1>3, PTL
====
