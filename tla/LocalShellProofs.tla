---- MODULE LocalShellProofs ----
(***************************************************************************)
(* Proofs about LocalShell, for every set of sessions, scripts of any      *)
(* length and pipelines of any size.  The parser's invariants hold inside  *)
(* the loop; the others say what the loop knows of a line while the shell, *)
(* its children and the buffers of stdio each hold a part of the input and *)
(* of the output.                                                          *)
(***************************************************************************)
EXTENDS LocalShell, CmdLineProofs, SequenceTheorems

\* A line is refused and leaves no command, or leaves one at least; P2's only one.
ParsedInv ==
    /\ single = (part = "P2")
    /\ single => at # "list" /\ (at \in Copying => commands = <<>>)
    /\ pc \in {"prompt", "exit", "ended"} => commands = <<>>
    /\ pc = "parse" /\ at = "parsed" =>
         IF rc = OK THEN commands # <<>> /\ (single => Len(commands) = 1) ELSE commands = <<>>

\* While a line is parsed, what is read of it means what it should.
MeansInv == pc = "parse" => MeaningInv

\* The buffer being filled, or lost with the line, is not yet one of the list's.
Hand(where, result) ==
    IF where \in Copying \/ (where = "parsed" /\ result = ERR_CMD_OR_ARGS_TOO_BIG) THEN 1 ELSE 0
InHand == IF pc = "parse" THEN Hand(at, rc) ELSE 0

HeapInv ==
    /\ single => heap = IF pc = "ended" THEN 0 ELSE 1
    /\ ~single => heap = refused + Len(commands) + InHand

\* The commands of a line are forked in their order.
JobsInv ==
    /\ pc \in {"fork", "wait"} => /\ Len(job) = Len(commands) /\ commands # <<>>
                                  /\ part = "P2" => Len(commands) = 1
    /\ pc \notin {"fork", "wait"} => \A j \in Jobs : job[j] # "forked"
    /\ \A j \in Forked : 1..j \subseteq Forked

StatusInv ==
    /\ pc \in {"fork", "wait"} /\ Len(commands) = 1 =>
         /\ job[1] = "ended" => outcome # ERR_EXEC_CMD
         /\ pc = "wait" /\ job[1] = "none" => outcome = ERR_EXEC_CMD
    /\ pc \notin {"fork", "wait", "ended"} /\ part = "P2" =>
         last_return_code = IF outcome = Killed THEN ERR_EXEC_CMD ELSE outcome

\* What the shell has read ahead is what follows the line in hand; a line up to
\* the offset that is not read ahead was taken or eaten, once.
Ahead  == (current + 1)..(current + Len(ahead))
Ate(i) == IF i \in eaten THEN 1 ELSE 0
LinesInv ==
    NothingSeeks =>
      /\ \A k \in DOMAIN ahead : ahead[k] = current + k
      /\ current + Len(ahead) <= offset
      /\ \A i \in Index : times[i] + Ate(i) = IF i <= offset /\ i \notin Ahead THEN 1 ELSE 0

\* Has the line in hand been said something of?
Said == \/ pc \in {"prompt", "ended"}
        \/ /\ pc \in {"fork", "wait"} /\ job[LastJob] = "ended"
           /\ LastJob = 1 => outcome # Killed
UpTo == IF Said THEN current ELSE current - 1

Within(s, m) == \A k \in DOMAIN s : s[k] <= m
Rising(s)    == \A k, l \in DOMAIN s : k < l => s[k] < s[l]
Apart(s, h)  == /\ IsInjective(s) /\ IsInjective(h)
                /\ \A k \in DOMAIN s : \A l \in DOMAIN h : s[k] # h[l]

TextsInv ==
    /\ session.stdout = "tty" => held = <<>>
    /\ Interactive /\ pc # "prompt" => held = <<>>
    /\ NothingSeeks =>
         /\ Within(shown, UpTo) /\ Within(held, UpTo)
         /\ session.stdout = "tty" => Rising(shown)
         /\ ~failed \/ Interactive => Apart(shown, held)

----
(* The parser's invariant inside the loop, and what a session is. *)

LEMMA SessionTypes ==
  ASSUME session \in Sessions
  PROVE  /\ part \in {"P1", "P2", "P3", "P4"} /\ script \in Seq(Lines)
         /\ session.stdin \in {"tty", "pipe", "file"} /\ session.stdout \in {"tty", "pipe", "file"}
         /\ Len(script) \in Nat /\ Index = 1..Len(script) /\ \A i \in Index : script[i] \in Lines
BY LocalShellAssumption DEF part, script, Index

\* A step of the parser, as the loop sees it.
LEMMA ParserEffect ==
  ASSUME Inv, ParserStep
  PROVE  /\ at # "parsed" /\ single' = single
         /\ at' = "parsed" => (rc' = OK <=> commands' # <<>>)
         /\ ~single => heap' - Len(commands') - Hand(at', rc') = heap - Len(commands) - Hand(at, rc)
         /\ single /\ at # "list" /\ (at \in Copying => commands = <<>>) =>
              /\ heap' = heap /\ at' # "list" /\ (at' \in Copying => commands' = <<>>)
              /\ at' = "parsed" /\ rc' = OK => Len(commands') = 1
<1> USE DEF Hand, Copying, OK, WARN_NO_CMDS, ERR_TOO_MANY_COMMANDS, ERR_CMD_OR_ARGS_TOO_BIG, ERR_MEMORY
<1>0. /\ commands \in Seq(Seq(Seq(Chars))) /\ Len(commands) \in Nat /\ heap \in Int /\ single \in BOOLEAN
      /\ at = "line" => commands = <<>>
      /\ argv \in Seq(Seq(Chars))
  BY DEF Inv, ParserTypes, CopyInv
<1>1. CASE TrimLine
  BY <1>0, <1>1 DEF TrimLine, Reject, StartBuff
<1>2. CASE NextSegment
  <2>1. CASE \E r \in {ERR_TOO_MANY_COMMANDS, WARN_NO_CMDS, ERR_MEMORY} : Reject(r)
    <3>1. at = "list" /\ at' = "parsed" /\ commands' = <<>> /\ single' = single
          /\ rc' \in {ERR_TOO_MANY_COMMANDS, WARN_NO_CMDS, ERR_MEMORY}
          /\ heap' = IF single THEN heap ELSE heap - Len(commands)
      BY <1>2, <2>1 DEF NextSegment, Reject
    <3>2. Len(commands') = 0
      BY <3>1
    <3>3. rc' # OK /\ Hand(at, rc) = 0 /\ Hand(at', rc') = 0
      BY <3>1
    <3> QED
      <4> HIDE DEF Hand
      <4> QED
        BY <1>0, <3>1, <3>2, <3>3
  <2>2. CASE at' = "gap" /\ heap' = heap + 1 /\ UNCHANGED <<commands, rc>>
    BY <1>0, <1>2, <2>2 DEF NextSegment
  <2> QED
    BY <1>2, <2>1, <2>2 DEF NextSegment, StartBuff
<1>3. CASE NoMoreSegments
  BY <1>0, <1>3 DEF NoMoreSegments, Reject
<1>4. CASE BuffStep /\ EndBuff
  <2>1. commands' # <<>> /\ Len(commands') = Len(commands) + 1
    <3>1. commands' = Append(commands, argv)
      BY <1>4 DEF EndBuff
    <3>2. Len(commands') = Len(commands) + 1 /\ Len(commands') # 0
      BY <1>0, <3>1
    <3> QED
      BY <3>2
  <2>2. commands = <<>> => Len(commands') = 1
    BY <2>1
  <2> QED
    BY <1>0, <1>4, <2>1, <2>2 DEF BuffStep, EndBuff, Goto
<1>5. CASE BuffStep /\ TooManyArgs
  BY <1>0, <1>5 DEF BuffStep, TooManyArgs, Reject
<1>6. CASE BuffStep /\ (SkipBlank \/ StartWord \/ QuotedWord \/ PlainWord \/ InnerQuote)
  BY <1>0, <1>6 DEF BuffStep, SkipBlank, StartWord, QuotedWord, PlainWord, InnerQuote, Copy, Goto
<1> QED
  BY <1>1, <1>2, <1>3, <1>4, <1>5, <1>6 DEF ParserStep, BuffStep

LEMMA ParserBegins ==
  ASSUME Inv, NEW l \in Lines, Parse(l) PROVE Inv'
BY CmdLineAssumption DEF Inv, ParserTypes, PositionTypes, CopyInv, Copying, FitsBuffer, FitsArrays, Parse, position

LEMMA ParserRests ==
  ASSUME Inv, UNCHANGED <<reading, rc>>, commands' \in {commands, <<>>}, heap' \in Int
  PROVE  Inv'
<1>0. /\ UNCHANGED <<line, single, at, cut, last, from, to, src, dst, quote, argv, rc>>
      /\ commands' \in Seq(Seq(Seq(Chars))) /\ (Len(commands') = Len(commands) \/ Len(commands') = 0)
      /\ commands = <<>> => commands' = <<>>
  <2>1. /\ UNCHANGED <<line, single, at, cut, last, from, to, src, dst, quote, argv, rc>>
        /\ commands \in Seq(Seq(Seq(Chars)))
    BY DEF Inv, ParserTypes, reading, position
  <2>2. CASE commands' = <<>>
    BY <2>1, <2>2
  <2>3. CASE commands' = commands
    BY <2>1, <2>3
  <2> QED
    BY <2>1, <2>2, <2>3
<1>1. ParserTypes'
  BY <1>0 DEF Inv, ParserTypes, PositionTypes
<1>2. CopyInv'
  BY <1>0, CmdLineAssumption DEF Inv, CopyInv, Copying, Left, Here
<1>3. FitsBuffer' /\ FitsArrays'
  BY <1>0, CmdLineAssumption DEF Inv, FitsBuffer, FitsArrays
<1> QED
  BY <1>1, <1>2, <1>3 DEF Inv

----
(* Types. *)

Types == Inv /\ LoopTypes

LEMMA SessionKept ==
  ASSUME Next \/ UNCHANGED vars PROVE UNCHANGED <<session, part, script, Index, Texts, Pipelines, Interactive>>
<1>1. UNCHANGED session
  BY DEF Next, LoopStep, ParseStep, Child, TakeLine, EndOfInput, Exit, Leave, Rejected, ChangeDir, Tell,
         NoDragon, Prompt, Execute, Fork, ForkFails, AllForked, Wait, Runs, CannotRun, vars
<1> QED
  BY <1>1 DEF part, script, Index, Texts, Pipelines, Interactive

LEMMA TypesInit == Init => Types
<1> SUFFICES ASSUME Init PROVE Types
  OBVIOUS
<1>1. Inv
  <2>1. line \in Lines
    BY CmdLineAssumption DEF Init, Lines
  <2>2. ParserTypes
    BY <2>1 DEF Init, ParserTypes, PositionTypes, Quotes, Owned
  <2>3. CopyInv /\ FitsBuffer
    BY CmdLineAssumption DEF Init, CopyInv, Copying, FitsBuffer
  <2>4. FitsArrays
    BY CmdLineAssumption DEF Init, FitsArrays, CMD_ARGV_MAX
  <2> QED
    BY <2>2, <2>3, <2>4 DEF Inv
<1>2. LoopTypes
  <2>1. InputTypes
    <3>1. Len(script) \in Nat /\ Index = 1..Len(script)
      BY SessionTypes DEF Init
    <3>2. times = [i \in Index |-> 0] /\ ahead = <<>>
      BY DEF Init
    <3>3. [i \in Index |-> 0] \in [Index -> 0..2] /\ <<>> \in Seq(Index)
      OBVIOUS
    <3>4. failed \in BOOLEAN /\ eaten \subseteq Index
      BY DEF Init
    <3>5. offset = 0 /\ refused = 0 /\ current = 0
      BY DEF Init
    <3> QED
      BY <3>1, <3>2, <3>3, <3>4, <3>5 DEF InputTypes
  <2>2. OutputTypes
    <3>1. <<0>> \in Seq(Texts) /\ <<>> \in Seq(Texts)
      BY DEF Texts
    <3> QED
      BY <3>1 DEF Init, OutputTypes
  <2>3. JobTypes
    BY CmdLineAssumption DEF Init, JobTypes
  <2> QED
    BY <2>1, <2>2, <2>3 DEF Init, LoopTypes
<1> QED
  BY <1>1, <1>2 DEF Types

\* A line that is there: the first of those read ahead or of those that arrive.
LEMMA LineTaken ==
  ASSUME Types, TakeLine
  PROVE  \E n \in Nat : \E lines \in Seq(Index) :
           /\ lines # <<>> /\ Take(lines) /\ offset' = offset + n /\ offset' <= Len(script)
           /\ IF ahead # <<>> THEN n = 0 /\ lines = ahead
              ELSE n > 0 /\ lines = [i \in 1..n |-> offset + i]
<1>1. /\ Len(script) \in Nat /\ Index = 1..Len(script) /\ offset \in 0..Len(script) /\ ahead \in Seq(Index)
      /\ session.stdin \in {"tty", "pipe", "file"}
  BY SessionTypes DEF Types, LoopTypes, InputTypes
<1>2. CASE ahead # <<>>
  BY <1>1, <1>2 DEF TakeLine
<1>3. CASE ahead = <<>>
  <2>1. Arrived \subseteq 1..(Len(script) - offset)
    BY <1>1 DEF Arrived
  <2>2. PICK n \in 1..(Len(script) - offset) :
          Take([i \in 1..n |-> offset + i]) /\ offset' = offset + n
    BY <1>3, <2>1 DEF TakeLine
  <2>3. [i \in 1..n |-> offset + i] \in Seq(Index) /\ [i \in 1..n |-> offset + i] # <<>>
    BY <1>1, <2>2
  <2> QED
    BY <1>1, <1>3, <2>2, <2>3
<1> QED
  BY <1>2, <1>3

LEMMA TypesTake == ASSUME Types, TakeLine PROVE Types'
<1>1. PICK n \in Nat, lines \in Seq(Index) :
         /\ lines # <<>> /\ Take(lines) /\ offset' = offset + n /\ offset' <= Len(script)
  BY LineTaken
<1>2. Head(lines) \in Index /\ Tail(lines) \in Seq(Index)
  BY <1>1
<1>3. UNCHANGED <<session, script, Index, Texts>>
  BY DEF TakeLine, script, Index, Texts
<1>4. Inv'
  <2>1. CASE UNCHANGED parser
    BY <2>1, ParserRests DEF Types, Inv, ParserTypes, parser
  <2>2. CASE Parse(script[Head(lines)])
    BY <1>2, <2>2, ParserBegins, SessionTypes DEF Types, LoopTypes
  <2> QED
    BY <1>1, <2>1, <2>2 DEF Take
<1>5. OutputTypes'
  <2>1. Flush
    BY DEF TakeLine
  <2>2. held \in Seq(Texts) /\ shown \in Seq(Texts) /\ shown \o held \in Seq(Texts) /\ <<>> \in Seq(Texts)
    BY ConcatProperties DEF Types, LoopTypes, OutputTypes
  <2> QED
    BY <1>3, <2>1, <2>2 DEF Flush, OutputTypes, output
<1>6. InputTypes'
  <2>1. /\ ahead' = Tail(lines) /\ current' = Head(lines)
        /\ times' = [times EXCEPT ![Head(lines)] = IF @ = 2 THEN 2 ELSE @ + 1]
    BY <1>1 DEF Take, Unread
  <2>2. UNCHANGED <<eaten, failed, refused>>
    BY DEF TakeLine
  <2>3. times' \in [Index -> 0..2]
    <3>1. Head(lines) \in Index /\ times \in [Index -> 0..2]
      BY <1>2 DEF Types, LoopTypes, InputTypes
    <3>2. times[Head(lines)] \in 0..2
      BY <3>1
    <3>3. (IF times[Head(lines)] = 2 THEN 2 ELSE times[Head(lines)] + 1) \in 0..2
      BY <3>2
    <3> QED
      BY <2>1, <3>1, <3>3
  <2> QED
    BY <1>1, <1>2, <1>3, <2>1, <2>2, <2>3, SessionTypes DEF Types, LoopTypes, InputTypes
<1>7. JobTypes' /\ session' \in Sessions /\ pc' \in {"parse", "exit"}
  BY <1>1, <1>3 DEF Types, LoopTypes, JobTypes, TakeLine, Take
<1> QED
  BY <1>4, <1>5, <1>6, <1>7 DEF Types, LoopTypes

LEMMA TypesLeave == ASSUME Types, EndOfInput \/ Exit PROVE Types'
<1>1. PICK texts \in {<<>>, <<current>>} : Leave(texts)
  BY DEF EndOfInput, Exit
<1>2. Inv'
  BY <1>1, ParserRests DEF Types, Inv, ParserTypes, Leave, Free, reading
<1>3. UNCHANGED <<session, script, Index, Texts>>
  BY <1>1 DEF Leave, script, Index, Texts
<1>4. OutputTypes'
  <2>1. <<current>> \in Seq(Texts) /\ <<>> \in Seq(Texts)
    BY DEF Types, LoopTypes, InputTypes, Texts
  <2>2. shown \o held \o texts \in Seq(Texts)
    BY <1>1, <2>1, ConcatProperties DEF Types, LoopTypes, OutputTypes
  <2> QED
    BY <1>1, <1>3, <2>2 DEF Leave, OutputTypes
<1>5. InputTypes' /\ JobTypes' /\ pc' = "ended"
  BY <1>1, <1>3 DEF Types, LoopTypes, InputTypes, JobTypes, Leave, input
<1> QED
  BY <1>2, <1>3, <1>4, <1>5 DEF Types, LoopTypes

\* What is said of the line in hand.
LEMMA TypesSay ==
  ASSUME Types, Say(current) PROVE shown' \in Seq(Texts) /\ held' \in Seq(Texts)
<1>1. current \in Texts /\ shown \in Seq(Texts) /\ held \in Seq(Texts)
  BY DEF Types, LoopTypes, InputTypes, OutputTypes, Texts
<1> QED
  BY <1>1 DEF Say

LEMMA FreeTypes == ASSUME Types, Free PROVE commands' = <<>> /\ heap' \in Int
<1>1. heap \in Int /\ Len(commands) \in Nat
  BY DEF Types, Inv, ParserTypes
<1> QED
  BY <1>1 DEF Free

\* A job changes its state.
LEMMA JobChanged ==
  ASSUME Types, NEW j \in Jobs, NEW e \in {"none", "forked", "ended"}, job' = [job EXCEPT ![j] = e]
  PROVE  /\ job' \in Seq({"none", "forked", "ended"}) /\ Len(job') = Len(job) /\ Jobs' = Jobs
         /\ Jobs = 1..Len(job) /\ Len(job) \in Nat
         /\ job'[j] = e /\ \A i \in Jobs \ {j} : job'[i] = job[i]
<1>1. job \in Seq({"none", "forked", "ended"}) /\ Len(job) \in Nat /\ Jobs = 1..Len(job)
  BY DEF Types, LoopTypes, JobTypes, Jobs
<1> QED
  BY <1>1 DEF Jobs

\* The actions that end with the next prompt.
LEMMA TypesPrompt ==
  ASSUME Types, \E text : Prompt(text), commands' \in {commands, <<>>}, heap' \in Int, refused' \in Nat,
         outcome' \in Codes \cup {0, EXIT_FAILURE, ERR_EXEC_CMD, Killed},
         last_return_code' \in Codes \cup {0, EXIT_FAILURE, ERR_EXEC_CMD}
  PROVE  Types'
<1>1. Inv'
  BY ParserRests DEF Types, Prompt
<1>2. shown' \in Seq(Texts) /\ held' \in Seq(Texts)
  BY TypesSay DEF Prompt, Types, LoopTypes, OutputTypes, output
<1>3. LoopTypes'
  <2>1. UNCHANGED <<session, script, Index, Texts, offset, ahead, eaten, failed, current, times, job>>
    BY DEF Prompt, script, Index, Texts
  <2>2. InputTypes' /\ JobTypes'
    BY <2>1 DEF Types, LoopTypes, InputTypes, JobTypes
  <2> QED
    BY <1>2, <2>1, <2>2 DEF Types, LoopTypes, OutputTypes, Prompt
<1> QED
  BY <1>1, <1>3 DEF Types

LEMMA TypesNext == Types /\ [Next]_vars => Types'
<1> SUFFICES ASSUME Types, [Next]_vars PROVE Types'
  OBVIOUS
<1>0. /\ heap \in Int /\ commands \in Seq(Seq(Seq(Chars))) /\ Len(commands) \in Nat
      /\ refused \in Nat /\ job \in Seq({"none", "forked", "ended"}) /\ Len(job) <= CMD_MAX
      /\ outcome \in Codes \cup {0, EXIT_FAILURE, ERR_EXEC_CMD, Killed}
      /\ last_return_code \in Codes \cup {0, EXIT_FAILURE, ERR_EXEC_CMD}
      /\ Len(commands) <= CMD_MAX
  BY DEF Types, LoopTypes, InputTypes, JobTypes, Inv, ParserTypes, FitsArrays
<1>1. CASE TakeLine \/ EndOfInput \/ Exit
  BY <1>1, TypesTake, TypesLeave
<1>2. CASE Rejected
  <2>1. refused' \in Nat
    BY <1>0, <1>2 DEF Rejected
  <2>2. \E text : Prompt(text)
    BY <1>2 DEF Rejected
  <2>3. UNCHANGED <<commands, heap, outcome, last_return_code>>
    BY <1>2 DEF Rejected
  <2> QED
    BY <1>0, <2>1, <2>2, <2>3, TypesPrompt
<1>3. CASE ChangeDir
  <2>1. /\ outcome' \in Codes \cup {0, EXIT_FAILURE, ERR_EXEC_CMD, Killed}
        /\ last_return_code' \in Codes \cup {0, EXIT_FAILURE, ERR_EXEC_CMD}
    BY <1>0, <1>3 DEF ChangeDir, EXIT_FAILURE
  <2>2. commands' = <<>> /\ heap' \in Int
    BY <1>3, FreeTypes DEF ChangeDir
  <2> QED
    BY <1>0, <1>3, <2>1, <2>2, TypesPrompt DEF ChangeDir
<1>4. CASE Tell \/ NoDragon
  <2>1. commands' = <<>> /\ heap' \in Int
    BY <1>4, FreeTypes DEF Tell, NoDragon
  <2> QED
    BY <1>0, <1>4, <2>1, TypesPrompt DEF Tell, NoDragon
<1>5. CASE Wait
  <2>1. commands' = <<>> /\ heap' \in Int
    BY <1>5, FreeTypes DEF Wait
  <2>2. Result \in Codes \cup {0, EXIT_FAILURE, ERR_EXEC_CMD}
    BY <1>0 DEF Result, OK
  <2> QED
    BY <1>0, <1>5, <2>1, <2>2, TypesPrompt DEF Wait
<1>6. CASE Execute \/ Fork \/ ForkFails \/ AllForked
  <2>1. /\ UNCHANGED <<parser, session, script, Index, Texts, input, current, times, output, last_return_code>>
        /\ pc' \in {"fork", "wait"} /\ (outcome' = outcome \/ outcome' = ERR_EXEC_CMD)
    BY <1>6 DEF Execute, Fork, ForkFails, AllForked, script, Index, Texts
  <2>2. job' \in Seq({"none", "forked", "ended"}) /\ Len(job') <= CMD_MAX
    <3>1. CASE Execute
      BY <1>0, <3>1 DEF Execute
    <3>2. CASE Fork
      BY <1>0, <3>2, JobChanged DEF Fork
    <3>3. CASE ForkFails \/ AllForked
      BY <1>0, <3>3 DEF ForkFails, AllForked
    <3> QED
      BY <1>6, <3>1, <3>2, <3>3
  <2>3. Inv'
    BY <1>0, <2>1, ParserRests DEF Types, parser
  <2>4. JobTypes'
    BY <1>0, <2>1, <2>2 DEF JobTypes
  <2>5. InputTypes' /\ OutputTypes'
    BY <2>1 DEF Types, LoopTypes, InputTypes, OutputTypes, input, output
  <2> QED
    BY <2>1, <2>3, <2>4, <2>5 DEF Types, LoopTypes
<1>7. ASSUME NEW j \in Jobs, Child(j) PROVE Types'
  <2>1. UNCHANGED <<parser, session, script, Index, Texts, pc, ahead, refused, current, times, held, last_return_code>>
    BY <1>7 DEF Child, Runs, CannotRun, script, Index, Texts
  <2>2. job' \in Seq({"none", "forked", "ended"}) /\ Len(job') <= CMD_MAX
    BY <1>0, <1>7, JobChanged DEF Child, Runs, CannotRun
  <2>3. outcome' \in Codes \cup {0, EXIT_FAILURE, ERR_EXEC_CMD, Killed}
    BY <1>0, <1>7 DEF Child, Runs, CannotRun
  <2>4. OutputTypes'
    <3>1. current \in Texts /\ shown \in Seq(Texts) /\ held \in Seq(Texts)
      BY DEF Types, LoopTypes, InputTypes, OutputTypes, Texts
    <3>2. Append(shown, current) \in Seq(Texts) /\ shown \o held \in Seq(Texts)
      BY <3>1, ConcatProperties
    <3> QED
      BY <1>7, <2>1, <3>1, <3>2 DEF Child, Runs, CannotRun, OutputTypes
  <2>5. offset' \in 0..Len(script) /\ eaten' \subseteq Index /\ failed' \in BOOLEAN
    <3>1. offset \in 0..Len(script) /\ eaten \subseteq Index /\ Len(ahead) \in Nat /\ failed \in BOOLEAN
          /\ Len(script) \in Nat /\ Index = 1..Len(script)
      BY SessionTypes DEF Types, LoopTypes, InputTypes
    <3>2. CASE Runs(j)
      BY <3>1, <3>2 DEF Runs
    <3>3. CASE CannotRun(j)
      BY <3>1, <3>3 DEF CannotRun
    <3> QED
      BY <1>7, <3>2, <3>3 DEF Child
  <2>6. Inv'
    BY <1>0, <2>1, ParserRests DEF Types, parser
  <2>7. InputTypes' /\ JobTypes'
    BY <1>0, <2>1, <2>2, <2>3, <2>5 DEF Types, LoopTypes, InputTypes, JobTypes
  <2> QED
    BY <2>1, <2>4, <2>6, <2>7 DEF Types, LoopTypes
<1>8. CASE ParseStep
  <2>1. Inv'
    BY <1>8, InvNext DEF ParseStep, Types
  <2> QED
    BY <1>8, <2>1 DEF ParseStep, Types, LoopTypes, InputTypes, OutputTypes, JobTypes, input, output, script, Index, Texts
<1>9. CASE UNCHANGED vars
  <2>1. Inv'
    BY <1>0, <1>9, ParserRests DEF Types, vars, parser
  <2> QED
    BY <1>9, <2>1 DEF vars, Types, LoopTypes, InputTypes, OutputTypes, JobTypes, input, output, script, Index, Texts
<1> QED
  BY <1>1, <1>2, <1>3, <1>4, <1>5, <1>6, <1>7, <1>8, <1>9 DEF Next, LoopStep

LEMMA TypesAlways == Spec => []Types
<1> QED
  BY TypesInit, TypesNext, PTL DEF Spec
----
(* What a line leaves, and the buffers of its commands. *)

\* The loop's steps, sorted by what becomes of the line's commands.
Forgets == \/ EndOfInput \/ Exit
           \/ ChangeDir \/ Tell \/ NoDragon \/ Wait
Forks   == \/ Execute \/ Fork \/ ForkFails \/ AllForked
           \/ \E j \in Jobs : Child(j)

LEMMA StepsSorted ==
  [Next]_vars => TakeLine \/ Rejected \/ Forgets \/ Forks \/ ParseStep \/ UNCHANGED vars
BY DEF Next, LoopStep, Forgets, Forks

LEMMA ForgetsCommands ==
  ASSUME Types, Forgets
  PROVE  /\ commands' = <<>> /\ UNCHANGED <<reading, rc, job>>
         /\ \/ /\ EndOfInput \/ Exit
               /\ pc' = "ended" /\ heap' = IF single THEN heap - 1 ELSE heap - Len(commands)
               /\ pc \in {"prompt", "exit"} \/ (pc = "parse" /\ at = "parsed" /\ rc = OK)
               /\ UNCHANGED <<refused, last_return_code, outcome>>
            \/ /\ ~(EndOfInput \/ Exit)
               /\ pc' = "prompt" /\ heap' = IF single THEN heap ELSE heap - Len(commands)
               /\ pc = "wait" \/ (pc = "parse" /\ at = "parsed" /\ rc = OK)
               /\ UNCHANGED refused
<1>1. CASE EndOfInput \/ Exit
  BY <1>1 DEF EndOfInput, Exit, Leave, IsBuiltIn, input
<1>2. CASE Wait
  BY <1>2 DEF Wait, Prompt, Free, reading, EndOfInput, Exit
<1>3. CASE ChangeDir
  BY <1>3 DEF ChangeDir, Prompt, Free, reading, EndOfInput, Exit, Leave, IsBuiltIn
<1>4. CASE Tell \/ NoDragon
  BY <1>4 DEF Tell, NoDragon, Prompt, Free, reading, EndOfInput, Exit, Leave, IsBuiltIn
<1> QED
  BY <1>1, <1>2, <1>3, <1>4 DEF Forgets

LEMMA ForksCommands ==
  ASSUME Types, JobsInv, Forks
  PROVE  /\ UNCHANGED <<parser, refused, current, last_return_code>> /\ pc' \in {"fork", "wait"}
         /\ pc \in {"fork", "wait"} \/ (Execute /\ pc = "parse" /\ at = "parsed" /\ rc = OK)
<1>1. CASE Execute \/ Fork \/ ForkFails \/ AllForked
  BY <1>1 DEF Execute, Fork, ForkFails, AllForked, input
<1>2. CASE \E j \in Jobs : Child(j)
  <2>1. PICK j \in Jobs : Child(j)
    BY <1>2
  <2>2. job[j] = "forked" /\ UNCHANGED <<parser, refused, current, last_return_code, pc>>
    BY <2>1 DEF Child, Runs, CannotRun
  <2>3. pc \in {"fork", "wait"}
    BY <2>2 DEF JobsInv
  <2> QED
    BY <2>2, <2>3
<1> QED
  BY <1>1, <1>2 DEF Forks

LEMMA ParsedNext == Types /\ JobsInv /\ ParsedInv /\ [Next]_vars => ParsedInv'
<1> SUFFICES ASSUME Types, JobsInv, ParsedInv, [Next]_vars PROVE ParsedInv'
  OBVIOUS
<1>0. part' = part /\ single \in BOOLEAN
  BY SessionKept DEF Types, Inv, ParserTypes
<1>1. CASE TakeLine
  <2>1. \/ pc' = "exit" /\ UNCHANGED parser
        \/ pc' = "parse" /\ at' = "line" /\ commands' = <<>> /\ single' = single
    BY <1>1 DEF TakeLine, Take, Parse
  <2>2. pc = "prompt"
    BY <1>1 DEF TakeLine
  <2> QED
    BY <1>0, <2>1, <2>2 DEF ParsedInv, parser, reading, Copying
<1>2. CASE Rejected
  BY <1>0, <1>2 DEF Rejected, Prompt, ParsedInv, reading
<1>3. CASE Forgets
  BY <1>0, <1>3, ForgetsCommands DEF ParsedInv, reading
<1>4. CASE Forks
  BY <1>0, <1>4, ForksCommands DEF ParsedInv, parser, reading
<1>5. CASE ParseStep
  <2>1. ParserStep /\ pc = "parse" /\ pc' = pc
    BY <1>5 DEF ParseStep
  <2>2. single' = single /\ at # "parsed" /\ (at' = "parsed" => (rc' = OK <=> commands' # <<>>))
    BY <2>1, ParserEffect DEF Types
  <2>3. single => at' # "list" /\ (at' \in Copying => commands' = <<>>) /\ (at' = "parsed" /\ rc' = OK => Len(commands') = 1)
    BY <2>1, ParserEffect DEF Types, ParsedInv
  <2> QED
    BY <1>0, <2>1, <2>2, <2>3 DEF ParsedInv
<1>6. CASE UNCHANGED vars
  BY <1>0, <1>6 DEF vars, parser, reading, ParsedInv
<1> QED
  BY <1>1, <1>2, <1>3, <1>4, <1>5, <1>6, StepsSorted

LEMMA MeansNext == Types /\ JobsInv /\ MeansInv /\ [Next]_vars => MeansInv'
<1> SUFFICES ASSUME Types, JobsInv, MeansInv, [Next]_vars PROVE MeansInv'
  OBVIOUS
<1>1. CASE TakeLine
  <2>1. pc' # "parse" \/ at' = "line"
    BY <1>1 DEF TakeLine, Take, Parse
  <2> QED
    BY <2>1 DEF MeansInv, MeaningInv, Answers, Copying
<1>2. CASE Rejected \/ Forgets
  <2>1. pc' # "parse"
    BY <1>2, ForgetsCommands DEF Rejected, Prompt
  <2> QED
    BY <2>1 DEF MeansInv
<1>3. CASE Forks
  <2>1. pc' # "parse"
    BY <1>3, ForksCommands
  <2> QED
    BY <2>1 DEF MeansInv
<1>4. CASE ParseStep
  <2>1. Inv /\ MeaningInv /\ ParserStep
    BY <1>4 DEF ParseStep, Types, MeansInv
  <2>2. MeaningInv'
    BY <2>1, MeaningNext
  <2> QED
    BY <2>2 DEF MeansInv
<1>5. CASE UNCHANGED vars
  <2>1. UNCHANGED pc /\ UNCHANGED parser
    BY <1>5 DEF vars
  <2>2. MeaningInv => MeaningInv'
    BY <2>1, MeaningNext DEF Types
  <2> QED
    BY <2>1, <2>2 DEF MeansInv
<1> QED
  BY <1>1, <1>2, <1>3, <1>4, <1>5, StepsSorted

LEMMA HeapNext == Types /\ JobsInv /\ ParsedInv /\ HeapInv /\ [Next]_vars => HeapInv'
<1> SUFFICES ASSUME Types, JobsInv, ParsedInv, HeapInv, [Next]_vars PROVE HeapInv'
  OBVIOUS
<1>0. /\ single \in BOOLEAN /\ Len(commands) \in Nat /\ heap \in Int /\ refused \in Nat /\ Len(<<>>) = 0
  BY DEF Types, Inv, ParserTypes, LoopTypes, InputTypes
<1>1. CASE TakeLine
  <2>1. \/ pc' = "exit" /\ UNCHANGED parser
        \/ pc' = "parse" /\ at' = "line" /\ commands' = <<>> /\ UNCHANGED <<single, heap>>
    BY <1>1 DEF TakeLine, Take, Parse
  <2>2. pc = "prompt" /\ commands = <<>> /\ refused' = refused
    BY <1>1 DEF TakeLine, ParsedInv
  <2>3. InHand = 0 /\ InHand' = 0
    BY <2>1, <2>2 DEF InHand, Hand, Copying
  <2> QED
    BY <1>0, <2>1, <2>2, <2>3 DEF HeapInv, parser, reading
<1>2. CASE Rejected
  <2>1. /\ pc = "parse" /\ at = "parsed" /\ rc # OK /\ pc' = "prompt" /\ UNCHANGED <<single, commands, heap>>
        /\ refused' = IF rc = ERR_CMD_OR_ARGS_TOO_BIG THEN refused + 1 ELSE refused
    BY <1>2 DEF Rejected, Prompt, reading
  <2>2. InHand = (IF rc = ERR_CMD_OR_ARGS_TOO_BIG THEN 1 ELSE 0) /\ InHand' = 0
    BY <2>1 DEF InHand, Hand, Copying
  <2> QED
    BY <1>0, <2>1, <2>2 DEF HeapInv
<1>3. CASE Forgets
  <2>1. InHand = 0 /\ InHand' = 0 /\ pc # "ended"
    BY <1>3, ForgetsCommands DEF InHand, Hand, Copying, OK, ERR_CMD_OR_ARGS_TOO_BIG
  <2>2. commands' = <<>> /\ UNCHANGED <<single, refused>> /\ Len(commands') = 0
    BY <1>0, <1>3, ForgetsCommands DEF reading
  <2> QED
    BY <1>0, <1>3, <2>1, <2>2, ForgetsCommands DEF HeapInv
<1>4. CASE Forks
  <2>1. InHand = 0 /\ InHand' = 0 /\ pc # "ended" /\ pc' # "ended"
    BY <1>4, ForksCommands DEF InHand, Hand, Copying, OK, ERR_CMD_OR_ARGS_TOO_BIG
  <2>2. UNCHANGED <<single, refused, commands, heap>>
    BY <1>4, ForksCommands DEF parser, reading
  <2> QED
    BY <2>1, <2>2 DEF HeapInv
<1>5. CASE ParseStep
  <2>1. ParserStep /\ pc = "parse" /\ pc' = pc /\ refused' = refused
    BY <1>5 DEF ParseStep, input
  <2>2. InHand = Hand(at, rc) /\ InHand' = Hand(at', rc') /\ InHand \in Int /\ InHand' \in Int
    BY <2>1 DEF InHand, Hand
  <2>3. Len(commands') \in Nat /\ heap' \in Int
    BY <2>1, TypesNext DEF Types, Inv, ParserTypes
  <2>4. /\ single' = single
        /\ ~single => heap' - Len(commands') - InHand' = heap - Len(commands) - InHand
    BY <2>1, <2>2, ParserEffect DEF Types
  <2>5. single => heap' = heap
    BY <2>1, ParserEffect DEF Types, ParsedInv
  <2> QED
    BY <1>0, <2>1, <2>2, <2>3, <2>4, <2>5 DEF HeapInv
<1>6. CASE UNCHANGED vars
  BY <1>6 DEF vars, parser, reading, input, HeapInv, InHand
<1> QED
  BY <1>1, <1>2, <1>3, <1>4, <1>5, <1>6, StepsSorted
----
(* Jobs and statuses. *)

LEMMA JobFacts ==
  ASSUME Types, JobsInv
  PROVE  /\ Jobs = 1..Len(job) /\ Len(job) \in Nat /\ Len(commands) \in Nat
         /\ \A j \in Jobs : job[j] \in {"none", "forked", "ended"}
         /\ pc \in {"fork", "wait"} => Jobs = 1..Len(commands) /\ LastJob \in Jobs /\ Len(commands) >= 1
<1>1. job \in Seq({"none", "forked", "ended"}) /\ commands \in Seq(Seq(Seq(Chars)))
  BY DEF Types, LoopTypes, JobTypes, Inv, ParserTypes
<1>2. Len(commands) \in Nat /\ (commands # <<>> => Len(commands) >= 1)
  BY <1>1
<1> QED
  BY <1>1, <1>2 DEF JobsInv, Jobs, LastJob

LEMMA JobsNext == Types /\ ParsedInv /\ JobsInv /\ [Next]_vars => JobsInv'
<1> SUFFICES ASSUME Types, ParsedInv, JobsInv, [Next]_vars PROVE JobsInv'
  OBVIOUS
<1>0. part' = part
  BY SessionKept
<1>1. ASSUME UNCHANGED job, pc' \notin {"fork", "wait"}, \A j \in Jobs : job[j] # "forked" PROVE JobsInv'
  BY <1>1 DEF JobsInv, Jobs, Forked
<1>2. CASE TakeLine \/ Rejected \/ ParseStep
  <2>1. UNCHANGED job /\ pc' \notin {"fork", "wait"} /\ pc \notin {"fork", "wait"}
    BY <1>2 DEF TakeLine, Take, Rejected, Prompt, ParseStep
  <2> QED
    BY <1>1, <2>1 DEF JobsInv
<1>3. CASE Forgets
  <2>1. UNCHANGED job /\ pc' \notin {"fork", "wait"}
    BY <1>3, ForgetsCommands
  <2>2. CASE Wait
    BY <1>1, <2>1, <2>2 DEF Wait
  <2>3. CASE ~Wait
    <3>1. pc \notin {"fork", "wait"}
      BY <1>3, <2>3 DEF Forgets, EndOfInput, Exit, ChangeDir, Tell, NoDragon
    <3> QED
      BY <1>1, <2>1, <3>1 DEF JobsInv
  <2> QED
    BY <2>2, <2>3
<1>4. CASE Execute
  <2>1. /\ pc' = "fork" /\ commands' = commands /\ job' = [j \in 1..Len(commands) |-> "none"]
        /\ pc = "parse" /\ at = "parsed" /\ rc = OK
    BY <1>4 DEF Execute, parser
  <2>2. commands # <<>> /\ (part = "P2" => Len(commands) = 1) /\ Len(commands) \in Nat
    BY <2>1, JobFacts DEF ParsedInv
  <2>3. Len(job') = Len(commands) /\ Jobs' = 1..Len(commands) /\ Forked' = {}
    BY <2>1, <2>2 DEF Jobs, Forked
  <2> QED
    BY <1>0, <2>1, <2>2, <2>3 DEF JobsInv
<1>5. CASE Fork
  <2>1. PICK j \in Jobs \ Forked : 1..(j - 1) \subseteq Forked /\ job' = [job EXCEPT ![j] = "forked"]
    BY <1>5 DEF Fork
  <2>2. /\ Jobs' = Jobs /\ Len(job') = Len(job) /\ j \in Nat
        /\ job'[j] = "forked" /\ \A i \in Jobs \ {j} : job'[i] = job[i]
    <3>1. j \in Jobs /\ j \in Nat /\ job' = [job EXCEPT ![j] = "forked"]
      BY <2>1, JobFacts
    <3> QED
      BY <3>1, JobChanged
  <2>3. Forked' = Forked \cup {j}
    BY <2>1, <2>2 DEF Forked
  <2>4. \A i \in Forked' : 1..i \subseteq Forked'
    BY <2>1, <2>2, <2>3 DEF JobsInv
  <2>5. pc' = "fork" /\ pc = "fork" /\ commands' = commands
    BY <1>5 DEF Fork, parser
  <2> QED
    BY <1>0, <2>2, <2>4, <2>5 DEF JobsInv
<1>6. CASE ForkFails \/ AllForked
  <2>1. pc' = "wait" /\ pc = "fork" /\ UNCHANGED <<job, commands>>
    BY <1>6 DEF ForkFails, AllForked, parser
  <2> QED
    BY <1>0, <2>1 DEF JobsInv, Jobs, Forked
<1>7. ASSUME NEW j \in Jobs, Child(j) PROVE JobsInv'
  <2>1. job[j] = "forked" /\ job' = [job EXCEPT ![j] = "ended"] /\ UNCHANGED <<pc, commands>>
    BY <1>7 DEF Child, Runs, CannotRun, parser
  <2>2. /\ Jobs' = Jobs /\ Len(job') = Len(job)
        /\ job'[j] = "ended" /\ \A i \in Jobs \ {j} : job'[i] = job[i]
    BY <2>1, JobChanged
  <2>3. Forked' = Forked /\ pc \in {"fork", "wait"}
    BY <2>1, <2>2 DEF Forked, JobsInv
  <2> QED
    BY <1>0, <2>1, <2>2, <2>3 DEF JobsInv
<1>8. CASE UNCHANGED vars
  BY <1>0, <1>8 DEF vars, parser, JobsInv, Jobs, Forked
<1> QED
  BY <1>2, <1>3, <1>4, <1>5, <1>6, <1>7, <1>8, StepsSorted DEF Forks

\* exec_cmd's result is told from its child's status.
LEMMA ResultIs ==
  ASSUME Types, JobsInv, StatusInv, Wait
  PROVE  /\ Result = ERR_EXEC_CMD => job[LastJob] = "none" \/ (LastJob = 1 /\ outcome = Killed)
         /\ Len(commands) = 1 => Result = IF outcome = Killed THEN ERR_EXEC_CMD ELSE outcome
<1>0. pc = "wait" /\ (\A j \in Jobs : job[j] # "forked") /\ LastJob = Len(commands)
  BY DEF Wait, LastJob
<1>1. Jobs = 1..Len(commands) /\ LastJob \in Jobs /\ Len(commands) \in Nat
  BY <1>0, JobFacts
<1>2. CASE Forked # Jobs
  <2>1. LastJob \notin Forked
    BY <1>0, <1>1, <1>2 DEF JobsInv, Forked
  <2>2. job[LastJob] = "none"
    BY <1>1, <2>1 DEF Forked
  <2>3. Len(commands) = 1 => outcome = ERR_EXEC_CMD
    BY <1>0, <2>2 DEF StatusInv
  <2> QED
    BY <1>2, <2>2, <2>3 DEF Result, ERR_EXEC_CMD, Killed
<1>3. CASE Forked = Jobs
  <2>1. Len(commands) = 1 => job[1] = "ended"
    BY <1>0, <1>1, <1>3, JobFacts DEF Forked
  <2>2. Len(commands) = 1 => outcome # ERR_EXEC_CMD
    BY <1>0, <2>1 DEF StatusInv
  <2> QED
    <3>1. OK # ERR_EXEC_CMD
      BY DEF OK, ERR_EXEC_CMD
    <3>2. CASE Len(commands) = 1
      <4>1. Result = IF outcome = Killed THEN ERR_EXEC_CMD ELSE outcome
        BY <1>3, <3>2 DEF Result
      <4> QED
        BY <1>0, <2>2, <3>2, <4>1
    <3>3. CASE Len(commands) > 1 /\ Len(commands) # 1
      <4>1. Result = OK
        BY <1>3, <3>3 DEF Result
      <4> QED
        BY <3>1, <3>3, <4>1
    <3>4. Len(commands) = 1 \/ (Len(commands) > 1 /\ Len(commands) # 1)
      BY <1>0, <1>1
    <3> QED
      BY <3>2, <3>3, <3>4
<1> QED
  BY <1>2, <1>3

LEMMA StatusNext == Types /\ ParsedInv /\ JobsInv /\ StatusInv /\ [Next]_vars => StatusInv'
<1> SUFFICES ASSUME Types, ParsedInv, JobsInv, StatusInv, [Next]_vars PROVE StatusInv'
  OBVIOUS
<1>0. part' = part
  BY SessionKept
<1>1. CASE TakeLine \/ Rejected \/ ParseStep \/ EndOfInput \/ Exit
  <2>1. /\ UNCHANGED <<outcome, last_return_code>> /\ pc' \notin {"fork", "wait"}
        /\ pc \notin {"fork", "wait", "ended"}
    BY <1>1 DEF TakeLine, Take, Rejected, Prompt, ParseStep, EndOfInput, Exit, Leave
  <2> QED
    BY <1>0, <2>1 DEF StatusInv
<1>2. CASE ChangeDir
  <2>1. pc' = "prompt" /\ pc = "parse"
    BY <1>2 DEF ChangeDir, Prompt
  <2>2. part = "P2" => outcome' = last_return_code' /\ outcome' \in {0, 1}
    BY <1>2 DEF ChangeDir
  <2> QED
    BY <1>0, <2>1, <2>2 DEF StatusInv, Killed
<1>3. CASE Tell \/ NoDragon
  <2>1. pc' = "prompt" /\ pc = "parse" /\ UNCHANGED <<outcome, last_return_code>>
    BY <1>3 DEF Tell, NoDragon, Prompt
  <2> QED
    BY <1>0, <2>1 DEF StatusInv
<1>4. CASE Wait
  <2>1. pc' = "prompt" /\ pc = "wait" /\ outcome' = outcome /\ (part = "P2" => last_return_code' = Result)
    BY <1>4 DEF Wait, Prompt
  <2>2. part = "P2" => Len(commands) = 1
    BY <2>1 DEF JobsInv
  <2> QED
    BY <1>0, <1>4, <2>1, <2>2, ResultIs DEF StatusInv
<1>5. CASE Execute
  <2>1. pc' = "fork" /\ commands' = commands /\ job' = [j \in 1..Len(commands) |-> "none"]
    BY <1>5 DEF Execute, parser
  <2> QED
    BY <2>1 DEF StatusInv
<1>6. CASE Fork
  <2>1. PICK j \in Jobs \ Forked : job' = [job EXCEPT ![j] = "forked"]
    BY <1>6 DEF Fork
  <2>2. pc' = "fork" /\ pc = "fork" /\ UNCHANGED <<commands, outcome>>
    BY <1>6 DEF Fork, parser
  <2>3. Len(commands) = 1 => j = 1
    BY <2>1, <2>2, JobFacts
  <2> QED
    BY <2>1, <2>2, <2>3, JobChanged DEF StatusInv
<1>7. CASE ForkFails \/ AllForked
  <2>1. /\ pc = "fork" /\ pc' = "wait" /\ UNCHANGED <<job, commands>>
        /\ \/ outcome' = ERR_EXEC_CMD /\ Forked # Jobs
           \/ outcome' = outcome /\ Forked = Jobs
    BY <1>7 DEF ForkFails, AllForked, parser
  <2>2. Len(commands) = 1 => (Forked # Jobs <=> job[1] = "none")
    BY <2>1, JobFacts DEF Forked
  <2> QED
    BY <2>1, <2>2 DEF StatusInv
<1>8. ASSUME NEW j \in Jobs, Child(j) PROVE StatusInv'
  <2>1. job[j] = "forked" /\ job' = [job EXCEPT ![j] = "ended"] /\ UNCHANGED <<pc, commands>>
    BY <1>8 DEF Child, Runs, CannotRun, parser
  <2>2. pc \in {"fork", "wait"} /\ job'[j] = "ended"
    BY <2>1, JobChanged DEF JobsInv
  <2>3. Len(commands) = 1 => j = 1 /\ outcome' # ERR_EXEC_CMD
    <3>1. Codes \subseteq 0..255
      BY LocalShellAssumption
    <3>2. Len(commands) = 1 => j = 1 /\ outcome' \in Codes \cup {Killed, EXIT_FAILURE}
      BY <1>8, <2>2, JobFacts DEF Child, Runs, CannotRun, LastJob
    <3> QED
      BY <3>1, <3>2 DEF Killed, EXIT_FAILURE, ERR_EXEC_CMD
  <2> QED
    BY <2>1, <2>2, <2>3 DEF StatusInv
<1>9. CASE UNCHANGED vars
  BY <1>0, <1>9 DEF vars, parser, StatusInv
<1> QED
  BY <1>1, <1>2, <1>3, <1>4, <1>5, <1>6, <1>7, <1>8, <1>9, StepsSorted DEF Forgets, Forks
----
(* Where the lines of the input are. *)

LEMMA FailedKept == ASSUME [Next]_vars, failed PROVE failed'
  BY DEF Next, LoopStep, ParseStep, Child, TakeLine, EndOfInput, Exit, Leave, Rejected, ChangeDir, Tell,
         NoDragon, Prompt, Execute, Fork, ForkFails, AllForked, Wait, Runs, CannotRun, vars, input

LEMMA SeeksKept == ASSUME [Next]_vars, NothingSeeks' PROVE NothingSeeks
  BY FailedKept, SessionKept DEF NothingSeeks

LEMMA InputFacts ==
  ASSUME Types
  PROVE  /\ Len(script) \in Nat /\ Index = 1..Len(script) /\ offset \in 0..Len(script)
         /\ ahead \in Seq(Index) /\ Len(ahead) \in Nat /\ DOMAIN ahead = 1..Len(ahead)
         /\ current \in 0..Len(script) /\ times \in [Index -> 0..2]
<1>1. Len(script) \in Nat /\ Index = 1..Len(script)
  BY SessionTypes DEF Types, LoopTypes
<1>2. current \in Index \cup {0} /\ offset \in 0..Len(script) /\ ahead \in Seq(Index) /\ times \in [Index -> 0..2]
  BY DEF Types, LoopTypes, InputTypes
<1> QED
  BY <1>1, <1>2

\* The line that is taken is the next one, and those behind it are read ahead.
LEMMA NextLine ==
  ASSUME Types, LinesInv, NothingSeeks, TakeLine
  PROVE  \E base \in Nat :
           /\ current <= base /\ current' = base + 1 /\ base + 1 \in Index
           /\ times' = [times EXCEPT ![base + 1] = IF @ = 2 THEN 2 ELSE @ + 1]
           /\ \A k \in DOMAIN ahead' : ahead'[k] = current' + k
           /\ current' + Len(ahead') <= offset' /\ offset' \in Nat
           /\ \A i \in Index : (i <= offset' /\ i \notin Ahead') <=> (i <= offset /\ i \notin Ahead) \/ i = base + 1
           /\ ~(base + 1 <= offset /\ base + 1 \notin Ahead)
<1>0. /\ Len(script) \in Nat /\ Index = 1..Len(script) /\ offset \in 0..Len(script)
      /\ ahead \in Seq(Index) /\ Len(ahead) \in Nat /\ DOMAIN ahead = 1..Len(ahead)
      /\ current \in 0..Len(script)
  BY InputFacts
<1>1. PICK n \in Nat, lines \in Seq(Index) :
         /\ lines # <<>> /\ Take(lines) /\ offset' = offset + n /\ offset' <= Len(script)
         /\ IF ahead # <<>> THEN n = 0 /\ lines = ahead
            ELSE n > 0 /\ lines = [i \in 1..n |-> offset + i]
  BY LineTaken
<1> DEFINE base == IF ahead # <<>> THEN current ELSE offset
<1>2. base \in Nat /\ current <= base
  BY <1>0 DEF LinesInv
<1>3. /\ Len(lines) \in Nat /\ Len(lines) >= 1 /\ \A k \in 1..Len(lines) : lines[k] = base + k
      /\ base + Len(lines) <= offset'
      /\ IF ahead # <<>> THEN Len(lines) = Len(ahead) /\ offset' = offset
         ELSE offset' = offset + Len(lines) /\ Len(ahead) = 0
  <2>1. CASE ahead # <<>>
    <3>1. n = 0 /\ lines = ahead /\ base = current /\ offset \in Nat /\ current \in Nat
      BY <1>0, <1>1, <2>1
    <3>2. Len(ahead) >= 1
      BY <1>0, <2>1, EmptySeq
    <3>3. (\A k \in 1..Len(ahead) : ahead[k] = current + k) /\ current + Len(ahead) <= offset
      BY <1>0 DEF LinesInv
    <3>4. offset' = offset
      BY <1>1, <3>1
    <3> QED
      BY <1>0, <2>1, <3>1, <3>2, <3>3, <3>4
  <2>2. CASE ahead = <<>>
    BY <1>0, <1>1, <2>2
  <2> QED
    BY <2>1, <2>2
<1>4. /\ Head(lines) = lines[1] /\ Head(lines) \in Index /\ Tail(lines) \in Seq(Index)
      /\ Len(Tail(lines)) = Len(lines) - 1
      /\ \A k \in 1..(Len(lines) - 1) : Tail(lines)[k] = lines[k + 1]
  BY <1>1, HeadTailProperties
<1>5. /\ ahead' = Tail(lines) /\ current' = Head(lines)
      /\ times' = [times EXCEPT ![Head(lines)] = IF @ = 2 THEN 2 ELSE @ + 1]
  BY <1>1 DEF Take, Unread
<1> HIDE DEF base
<1>6. current' = base + 1 /\ base + 1 \in Index
  BY <1>2, <1>3, <1>4, <1>5
<1>7. Len(ahead') = Len(lines) - 1 /\ DOMAIN ahead' = 1..(Len(lines) - 1)
  BY <1>4, <1>5
<1>8. \A k \in DOMAIN ahead' : ahead'[k] = current' + k
  BY <1>2, <1>3, <1>4, <1>5, <1>6, <1>7
<1>9. Ahead = (current + 1)..(current + Len(ahead)) /\ Ahead' = (base + 2)..(base + Len(lines))
  <2>1. Ahead' = (current' + 1)..(current' + Len(ahead'))
    BY DEF Ahead
  <2>2. current' + 1 = base + 2 /\ current' + Len(ahead') = base + Len(lines)
    BY <1>2, <1>3, <1>6, <1>7
  <2> QED
    BY <2>1, <2>2 DEF Ahead
<1>10. /\ \A i \in Index : (i <= offset' /\ i \notin Ahead') <=> (i <= offset /\ i \notin Ahead) \/ i = base + 1
       /\ ~(base + 1 <= offset /\ base + 1 \notin Ahead)
  <2>1. CASE ahead # <<>>
    <3>1. base = current /\ Len(lines) = Len(ahead) /\ offset' = offset /\ current + Len(ahead) <= offset
      BY <1>3, <2>1 DEF base, LinesInv
    <3> QED
      BY <1>0, <1>3, <1>9, <3>1
  <2>2. CASE ahead = <<>>
    <3>1. base = offset /\ offset' = offset + Len(lines) /\ Len(ahead) = 0 /\ current <= offset
      BY <1>2, <1>3, <2>2 DEF base
    <3> QED
      BY <1>0, <1>3, <1>9, <3>1
  <2> QED
    BY <2>1, <2>2
<1>11. current' + Len(ahead') <= offset' /\ offset' \in Nat
  <2>1. offset' \in Nat
    BY <1>0, <1>1
  <2>2. base + Len(lines) <= offset' /\ Len(lines) \in Nat
    BY <1>3
  <2> QED
    BY <1>2, <1>6, <1>7, <2>1, <2>2
<1> QED
  BY <1>2, <1>4, <1>5, <1>6, <1>8, <1>10, <1>11

LEMMA LinesInit == Init => LinesInv
<1> SUFFICES ASSUME Init PROVE LinesInv
  OBVIOUS
<1>1. Index = 1..Len(script) /\ Len(script) \in Nat
  BY SessionTypes DEF Init
<1>2. ahead = <<>> /\ offset = 0 /\ current = 0 /\ eaten = {} /\ times = [i \in Index |-> 0]
  BY DEF Init
<1>3. \A i \in Index : times[i] + Ate(i) = 0 /\ ~(i <= offset)
  BY <1>1, <1>2 DEF Ate
<1> QED
  BY <1>2, <1>3 DEF LinesInv

LEMMA LinesNext == Types /\ JobsInv /\ LinesInv /\ [Next]_vars => LinesInv'
<1> SUFFICES ASSUME Types, JobsInv, LinesInv, [Next]_vars, NothingSeeks' PROVE LinesInv'
  BY DEF LinesInv
<1>0. /\ NothingSeeks /\ Index' = Index
      /\ Len(script) \in Nat /\ Index = 1..Len(script) /\ offset \in 0..Len(script)
      /\ Len(ahead) \in Nat /\ current \in 0..Len(script) /\ times \in [Index -> 0..2]
  BY SeeksKept, SessionKept, InputFacts
<1>1. CASE UNCHANGED <<ahead, current, offset, times, eaten>>
  BY <1>0, <1>1 DEF LinesInv, Ahead, Ate
<1>2. CASE TakeLine
  <2>1. PICK base \in Nat :
           /\ current <= base /\ current' = base + 1 /\ base + 1 \in Index
           /\ times' = [times EXCEPT ![base + 1] = IF @ = 2 THEN 2 ELSE @ + 1]
           /\ \A k \in DOMAIN ahead' : ahead'[k] = current' + k
           /\ current' + Len(ahead') <= offset' /\ offset' \in Nat
           /\ \A i \in Index : (i <= offset' /\ i \notin Ahead') <=> (i <= offset /\ i \notin Ahead) \/ i = base + 1
           /\ ~(base + 1 <= offset /\ base + 1 \notin Ahead)
    BY <1>0, <1>2, NextLine
  <2>2. eaten' = eaten
    BY <1>2 DEF TakeLine
  <2>3. ASSUME NEW i \in Index
        PROVE  times'[i] + Ate(i)' = IF i <= offset' /\ i \notin Ahead' THEN 1 ELSE 0
    <3>1. times[i] + Ate(i) = IF i <= offset /\ i \notin Ahead THEN 1 ELSE 0
      BY <1>0 DEF LinesInv
    <3>2. Ate(i)' = Ate(i) /\ Ate(i) \in {0, 1} /\ times[i] \in 0..2
      BY <1>0, <2>2 DEF Ate
    <3>3. CASE i = base + 1
      <4>1. times[i] = 0 /\ Ate(i) = 0
        BY <2>1, <3>1, <3>2, <3>3
      <4>2. times'[i] = 1
        BY <1>0, <2>1, <3>3, <4>1
      <4> QED
        BY <2>1, <3>2, <3>3, <4>1, <4>2
    <3>4. CASE i # base + 1
      <4>1. times'[i] = times[i]
        BY <1>0, <2>1, <3>4
      <4> QED
        BY <2>1, <3>1, <3>2, <3>4, <4>1
    <3> QED
      BY <3>3, <3>4
  <2> QED
    BY <1>0, <2>1, <2>3 DEF LinesInv
<1>3. ASSUME NEW j \in Jobs, Runs(j) PROVE LinesInv'
  <2>1. PICK n \in 0..(Len(script) - offset) :
           offset' = offset + n /\ eaten' = eaten \cup (offset + 1)..(offset + n)
    BY <1>0, <1>3 DEF Runs
  <2>2. UNCHANGED <<ahead, current, times>>
    BY <1>3 DEF Runs
  <2>3. current + Len(ahead) <= offset /\ Ahead' = Ahead /\ \A i \in Ahead : i <= offset
    BY <1>0, <2>2 DEF LinesInv, Ahead
  <2>4. ASSUME NEW i \in Index
        PROVE  times'[i] + Ate(i)' = IF i <= offset' /\ i \notin Ahead' THEN 1 ELSE 0
    <3>1. times[i] + Ate(i) = IF i <= offset /\ i \notin Ahead THEN 1 ELSE 0
      BY <1>0 DEF LinesInv
    <3>2. Ate(i) \in {0, 1} /\ times[i] \in 0..2 /\ i \in Nat
      BY <1>0 DEF Ate
    <3>3. CASE i \in (offset + 1)..(offset + n)
      <4>1. times[i] = 0 /\ Ate(i)' = 1
        BY <1>0, <2>1, <3>1, <3>2, <3>3 DEF Ate
      <4> QED
        BY <1>0, <2>1, <2>2, <2>3, <3>3, <4>1
    <3>4. CASE i \notin (offset + 1)..(offset + n)
      <4>1. Ate(i)' = Ate(i)
        BY <2>1, <3>4 DEF Ate
      <4> QED
        BY <1>0, <2>1, <2>2, <2>3, <3>1, <3>2, <3>4, <4>1
    <3> QED
      BY <3>3, <3>4
  <2> QED
    BY <1>0, <2>1, <2>2, <2>3, <2>4 DEF LinesInv
<1>4. ASSUME NEW j \in Jobs, CannotRun(j) PROVE LinesInv'
  <2>1. session.stdin # "file"
    BY <1>4, SessionKept DEF CannotRun, NothingSeeks
  <2> QED
    BY <1>1, <1>4, <2>1 DEF CannotRun
<1>5. CASE Rejected \/ Forgets \/ ParseStep \/ UNCHANGED vars
  BY <1>1, <1>5 DEF Rejected, Forgets, EndOfInput, Exit, Leave, ChangeDir, Tell, NoDragon, Wait, Prompt,
                    ParseStep, vars, input
<1>6. CASE Execute \/ Fork \/ ForkFails \/ AllForked
  BY <1>1, <1>6 DEF Execute, Fork, ForkFails, AllForked, input
<1> QED
  BY <1>2, <1>3, <1>4, <1>5, <1>6, StepsSorted DEF Forks, Child
----
(* The texts, shown or held. *)

\* A text is said of the line in hand after those of the lines before.
LEMMA TextAdded ==
  ASSUME NEW s \in Seq(Nat), NEW h \in Seq(Nat), NEW c \in Nat, Within(s, c - 1), Within(h, c - 1)
  PROVE  /\ Within(s, c) /\ Within(h, c) /\ Within(Append(s, c), c) /\ Within(Append(h, c), c)
         /\ Rising(s) => Rising(Append(s, c))
         /\ Apart(s, h) => Apart(Append(s, c), h) /\ Apart(s, Append(h, c))
<1>1. ASSUME NEW t \in Seq(Nat), Within(t, c - 1)
      PROVE  /\ Len(t) \in Nat /\ DOMAIN t = 1..Len(t) /\ DOMAIN Append(t, c) = 1..(Len(t) + 1)
             /\ Append(t, c)[Len(t) + 1] = c /\ \A k \in 1..Len(t) : Append(t, c)[k] = t[k]
             /\ \A k \in 1..Len(t) : t[k] \in Nat /\ t[k] < c
  BY <1>1 DEF Within
<1>2. Within(s, c) /\ Within(h, c) /\ Within(Append(s, c), c) /\ Within(Append(h, c), c)
  BY <1>1 DEF Within
<1>3. Rising(s) => Rising(Append(s, c))
  BY <1>1 DEF Rising
<1>4. ASSUME NEW t \in Seq(Nat), Within(t, c - 1), IsInjective(t) PROVE IsInjective(Append(t, c))
  BY <1>1, <1>4 DEF IsInjective
<1>5. ASSUME Apart(s, h) PROVE Apart(Append(s, c), h) /\ Apart(s, Append(h, c))
  <2>1. /\ IsInjective(s) /\ IsInjective(h) /\ IsInjective(Append(s, c)) /\ IsInjective(Append(h, c))
        /\ \A k \in DOMAIN s : \A l \in DOMAIN h : s[k] # h[l]
    BY <1>4, <1>5 DEF Apart
  <2>2. ASSUME NEW t \in Seq(Nat), Within(t, c - 1), NEW k \in DOMAIN Append(t, c)
        PROVE  (k \in DOMAIN t /\ Append(t, c)[k] = t[k]) \/ Append(t, c)[k] = c
    BY <1>1, <2>2
  <2>3. ASSUME NEW t \in Seq(Nat), Within(t, c - 1), NEW k \in DOMAIN t PROVE t[k] # c
    <3>1. t[k] \in Nat /\ t[k] < c
      BY <1>1, <2>3
    <3> QED
      BY <3>1
  <2>4. \A k \in DOMAIN Append(s, c) : \A l \in DOMAIN h : Append(s, c)[k] # h[l]
    <3> SUFFICES ASSUME NEW k \in DOMAIN Append(s, c), NEW l \in DOMAIN h PROVE Append(s, c)[k] # h[l]
      OBVIOUS
    <3> QED
      BY <2>1, <2>2, <2>3
  <2>5. \A k \in DOMAIN s : \A l \in DOMAIN Append(h, c) : s[k] # Append(h, c)[l]
    <3> SUFFICES ASSUME NEW k \in DOMAIN s, NEW l \in DOMAIN Append(h, c) PROVE s[k] # Append(h, c)[l]
      OBVIOUS
    <3> QED
      BY <2>1, <2>2, <2>3
  <2> QED
    BY <2>1, <2>4, <2>5 DEF Apart
<1> QED
  BY <1>2, <1>3, <1>5

\* What is held is written behind what was.
LEMMA TextsJoined ==
  ASSUME NEW s \in Seq(Nat), NEW h \in Seq(Nat), NEW m \in Int, Within(s, m), Within(h, m)
  PROVE  /\ s \o h \in Seq(Nat) /\ Within(s \o h, m) /\ Within(<<>>, m)
         /\ h = <<>> => s \o h = s
         /\ Apart(s, h) => IsInjective(s \o h) /\ Apart(s \o h, <<>>)
<1>1. /\ s \o h \in Seq(Nat) /\ DOMAIN (s \o h) = 1..(Len(s) + Len(h)) /\ Len(s) \in Nat /\ Len(h) \in Nat
      /\ DOMAIN s = 1..Len(s) /\ DOMAIN h = 1..Len(h)
      /\ \A k \in 1..(Len(s) + Len(h)) : (s \o h)[k] = IF k <= Len(s) THEN s[k] ELSE h[k - Len(s)]
  BY ConcatProperties
<1>2. Within(s \o h, m) /\ Within(<<>>, m)
  BY <1>1 DEF Within
<1>3. h = <<>> => s \o h = s
  BY ConcatEmptySeq
<1>4. ASSUME Apart(s, h) PROVE IsInjective(s \o h)
  <2>1. ASSUME NEW k \in 1..(Len(s) + Len(h)), NEW l \in 1..(Len(s) + Len(h)), (s \o h)[k] = (s \o h)[l]
        PROVE  k = l
    <3>1. CASE k <= Len(s) /\ l <= Len(s)
      BY <1>1, <1>4, <2>1, <3>1 DEF Apart, IsInjective
    <3>2. CASE k > Len(s) /\ l > Len(s)
      <4>1. k - Len(s) \in DOMAIN h /\ l - Len(s) \in DOMAIN h /\ h[k - Len(s)] = h[l - Len(s)]
        BY <1>1, <2>1, <3>2
      <4>2. k - Len(s) = l - Len(s)
        BY <1>4, <4>1 DEF Apart, IsInjective
      <4> QED
        BY <1>1, <4>2
    <3>3. CASE k <= Len(s) /\ l > Len(s)
      <4>1. l - Len(s) \in DOMAIN h /\ k \in DOMAIN s /\ s[k] = h[l - Len(s)]
        BY <1>1, <2>1, <3>3
      <4> QED
        BY <1>4, <4>1 DEF Apart
    <3>4. CASE k > Len(s) /\ l <= Len(s)
      <4>1. k - Len(s) \in DOMAIN h /\ l \in DOMAIN s /\ s[l] = h[k - Len(s)]
        BY <1>1, <2>1, <3>4
      <4> QED
        BY <1>4, <4>1 DEF Apart
    <3> QED
      BY <1>1, <3>1, <3>2, <3>3, <3>4
  <2> QED
    BY <1>1, <2>1 DEF IsInjective
<1>5. DOMAIN <<>> = {} /\ IsInjective(<<>>)
  BY DEF IsInjective
<1> QED
  BY <1>1, <1>2, <1>3, <1>4, <1>5 DEF Apart

LEMMA TextFacts ==
  ASSUME Types
  PROVE  /\ current \in Nat /\ Texts \subseteq Nat /\ UpTo \in Int
         /\ shown \in Seq(Nat) /\ held \in Seq(Nat) /\ shown \in Seq(Texts) /\ held \in Seq(Texts)
<1>1. current \in Nat /\ Texts \subseteq Nat
  BY InputFacts DEF Texts
<1>2. shown \in Seq(Texts) /\ held \in Seq(Texts)
  BY DEF Types, LoopTypes, OutputTypes
<1>3. ASSUME NEW t \in Seq(Texts) PROVE t \in Seq(Nat)
  <2>1. Len(t) \in Nat /\ t \in [1..Len(t) -> Texts]
    OBVIOUS
  <2>2. t \in [1..Len(t) -> Nat]
    BY <1>1, <2>1
  <2> QED
    BY <2>1, <2>2, SeqDef
<1>4. UpTo \in Int
  BY <1>1 DEF UpTo
<1> QED
  BY <1>1, <1>2, <1>3, <1>4

LEMMA UpToNext == ASSUME Types, [Next]_vars PROVE UpTo' \in Int
<1>1. current' \in Index \cup {0}
  BY TypesNext, SessionKept DEF Types, LoopTypes, InputTypes
<1>2. current' \in Nat
  BY <1>1, InputFacts
<1> QED
  BY <1>2 DEF UpTo

\* A step that writes nothing.
LEMMA TextsKept ==
  ASSUME Types, [Next]_vars, TextsInv, UNCHANGED output,
         NothingSeeks' => UpTo <= UpTo', Interactive /\ pc = "prompt" => pc' = "prompt"
  PROVE  TextsInv'
<1>1. UNCHANGED <<session, Interactive>> /\ (NothingSeeks' => NothingSeeks)
  BY SessionKept, SeeksKept
<1>2. UNCHANGED <<shown, held>> /\ UpTo \in Int /\ UpTo' \in Int /\ shown \in Seq(Nat) /\ held \in Seq(Nat)
  BY TextFacts, UpToNext DEF output
<1>3. NothingSeeks' => (Within(shown, UpTo) /\ Within(held, UpTo) => Within(shown, UpTo') /\ Within(held, UpTo'))
  BY <1>2 DEF Within
<1>4. failed => failed'
  BY FailedKept
<1> QED
  BY <1>1, <1>2, <1>3, <1>4 DEF TextsInv

\* A step that says something of the line in hand, of which nothing was said.
LEMMA TextsSaid ==
  ASSUME Types, [Next]_vars, TextsInv, pc # "prompt", UpTo = current - 1, UpTo' = current,
         \/ shown' = Append(shown, current) /\ UNCHANGED held
         \/ /\ held' = Append(held, current) /\ UNCHANGED shown
            /\ session.stdout # "tty" /\ pc' = "prompt"
  PROVE  TextsInv'
<1>1. UNCHANGED <<session, Interactive>> /\ (NothingSeeks' => NothingSeeks)
  BY SessionKept, SeeksKept
<1>2. current \in Nat /\ shown \in Seq(Nat) /\ held \in Seq(Nat)
  BY TextFacts
<1>3. failed => failed'
  BY FailedKept
<1>4. Within(shown, UpTo) /\ Within(held, UpTo) =>
        /\ Within(shown', UpTo') /\ Within(held', UpTo') /\ (Apart(shown, held) => Apart(shown', held'))
        /\ (session.stdout = "tty" => (Rising(shown) => Rising(shown')))
  BY <1>2, TextAdded
<1> QED
  BY <1>1, <1>3, <1>4 DEF TextsInv

\* A step that writes what is held.
LEMMA TextsFlushed ==
  ASSUME Types, [Next]_vars, TextsInv, shown' = shown \o held, held' = <<>>, NothingSeeks' => UpTo <= UpTo'
  PROVE  TextsInv'
<1>1. UNCHANGED <<session, Interactive>> /\ (NothingSeeks' => NothingSeeks)
  BY SessionKept, SeeksKept
<1>2. UpTo \in Int /\ UpTo' \in Int /\ shown \in Seq(Nat) /\ held \in Seq(Nat)
  BY TextFacts, UpToNext
<1>3. failed => failed'
  BY FailedKept
<1>4. NothingSeeks' => (Within(shown, UpTo) /\ Within(held, UpTo) => Within(shown, UpTo') /\ Within(held, UpTo'))
  BY <1>2 DEF Within
<1>5. Within(shown, UpTo') /\ Within(held, UpTo') =>
        /\ Within(shown', UpTo') /\ Within(held', UpTo')
        /\ (Apart(shown, held) => Apart(shown', held')) /\ (held = <<>> => shown' = shown)
  BY <1>2, TextsJoined
<1> QED
  BY <1>1, <1>3, <1>4, <1>5 DEF TextsInv

LEMMA UpToKept ==
  ASSUME Types, UNCHANGED current, Said => Said' PROVE UpTo <= UpTo'
BY TextFacts DEF UpTo

LEMMA TextsInit == Init => TextsInv
<1> SUFFICES ASSUME Init PROVE TextsInv
  OBVIOUS
<1>1. current = 0 /\ UpTo = 0 /\ shown = <<>> /\ pc = "prompt"
  BY DEF Init, UpTo, Said
<1>2. held = <<>> \/ (held = <<0>> /\ session.stdout # "tty")
  BY DEF Init
<1>3. Within(shown, 0) /\ Within(held, 0) /\ Rising(shown) /\ Apart(shown, held)
  <2>1. DOMAIN shown = {} /\ (DOMAIN held = {} \/ (DOMAIN held = {1} /\ held[1] = 0))
    BY <1>1, <1>2
  <2> QED
    BY <2>1 DEF Within, Rising, Apart, IsInjective
<1> QED
  BY <1>1, <1>2, <1>3 DEF TextsInv

\* The next line: its prompt writes what is held, where the loop is interactive.
LEMMA TextsTake == ASSUME Types, LinesInv, TextsInv, TakeLine PROVE TextsInv'
<1>0. [Next]_vars
  BY DEF Next, LoopStep
<1>1. NothingSeeks' => UpTo <= UpTo'
  <2> SUFFICES ASSUME NothingSeeks' PROVE UpTo <= UpTo'
    OBVIOUS
  <2>1. PICK base \in Nat : current <= base /\ current' = base + 1
    BY <1>0, SeeksKept, NextLine
  <2>2. UpTo = current
    BY DEF TakeLine, UpTo, Said
  <2>3. UpTo' >= current' - 1
    BY <2>1 DEF UpTo
  <2> QED
    BY <2>1, <2>2, <2>3, UpToNext, <1>0, TextFacts
<1>2. CASE Interactive
  BY <1>0, <1>1, <1>2, TextsFlushed DEF TakeLine, Flush
<1>3. CASE ~Interactive
  BY <1>0, <1>1, <1>3, TextsKept DEF TakeLine, Flush
<1> QED
  BY <1>2, <1>3

\* The next prompt, something having been said of the line or not.
LEMMA TextsPrompt ==
  ASSUME Types, [Next]_vars, TextsInv, NEW text \in BOOLEAN, Prompt(text),
         pc # "prompt", text => ~Said
  PROVE  TextsInv'
<1>1. pc' = "prompt" /\ current' = current /\ UpTo' = current'
  BY DEF Prompt, UpTo, Said
<1>2. CASE text
  <2>1. UpTo = current - 1
    BY <1>2 DEF UpTo
  <2>2. Say(current)
    BY <1>2 DEF Prompt
  <2> QED
    BY <1>1, <2>1, <2>2, TextsSaid DEF Say
<1>3. CASE ~text
  <2>1. UpTo <= UpTo'
    BY <1>1, UpToKept DEF Said
  <2> QED
    BY <1>1, <1>3, <2>1, TextsKept DEF Prompt
<1> QED
  BY <1>2, <1>3

\* The shell ends and writes its output.
LEMMA TextsLeave ==
  ASSUME Types, [Next]_vars, TextsInv, NEW texts \in {<<>>, <<current>>}, Leave(texts),
         texts = <<>> \/ UpTo = current - 1, pc # "ended"
  PROVE  TextsInv'
<1>1. pc' = "ended" /\ current' = current /\ UpTo' = current /\ shown' = (shown \o held) \o texts /\ held' = <<>>
  BY DEF Leave, UpTo, Said
<1>2. current \in Nat /\ shown \in Seq(Nat) /\ held \in Seq(Nat) /\ UpTo \in Int
  BY TextFacts
<1>3. shown \o held \in Seq(Nat)
  BY <1>2, ConcatProperties
<1>4. CASE texts = <<>>
  <2>1. shown' = shown \o held
    BY <1>1, <1>3, <1>4, ConcatEmptySeq
  <2>2. UpTo <= UpTo'
    BY <1>1, <1>2 DEF UpTo
  <2> QED
    BY <1>1, <2>1, <2>2, TextsFlushed
<1>5. CASE texts = <<current>> /\ UpTo = current - 1
  <2>1. shown' = Append(shown \o held, current)
    BY <1>1, <1>2, <1>3, <1>5, AppendIsConcat
  <2>2. UNCHANGED <<session, Interactive>> /\ (NothingSeeks' => NothingSeeks) /\ (failed => failed')
    BY SessionKept, SeeksKept, FailedKept
  <2>3. Within(shown, UpTo) /\ Within(held, UpTo) =>
          /\ Within(shown \o held, UpTo) /\ Within(<<>>, UpTo)
          /\ Apart(shown, held) => Apart(shown \o held, <<>>)
          /\ held = <<>> => shown \o held = shown
    BY <1>2, TextsJoined
  <2>4. Within(shown \o held, UpTo) /\ Within(<<>>, UpTo) =>
          /\ Within(shown', UpTo') /\ Within(held', UpTo')
          /\ Rising(shown \o held) => Rising(shown')
          /\ Apart(shown \o held, <<>>) => Apart(shown', held')
    <3>1. <<>> \in Seq(Nat)
      OBVIOUS
    <3> QED
      BY <1>1, <1>2, <1>3, <1>5, <2>1, <3>1, TextAdded
  <2> QED
    BY <1>1, <2>2, <2>3, <2>4 DEF TextsInv
<1> QED
  BY <1>4, <1>5

\* A child that cannot execute its command writes what the shell held.
LEMMA TextsRepeated ==
  ASSUME Types, JobsInv, TextsInv, NEW j \in Jobs, CannotRun(j), UpTo <= UpTo' PROVE TextsInv'
<1>0. [Next]_vars
  BY DEF Next, Child
<1>1. UNCHANGED <<session, Interactive>> /\ (NothingSeeks' => NothingSeeks)
  BY <1>0, SessionKept, SeeksKept
<1>2. UpTo \in Int /\ UpTo' \in Int /\ shown \in Seq(Nat) /\ held \in Seq(Nat)
  BY <1>0, TextFacts, UpToNext
<1>3. failed' /\ pc # "prompt" /\ UNCHANGED <<pc, held>> /\ shown' \in {shown, shown \o held}
  BY DEF CannotRun, JobsInv
<1>4. Within(shown, UpTo) /\ Within(held, UpTo) =>
        Within(shown \o held, UpTo) /\ (held = <<>> => shown \o held = shown)
  BY <1>2, TextsJoined
<1>5. shown \o held \in Seq(Nat)
  BY <1>2, ConcatProperties
<1>6. ASSUME NEW t \in Seq(Nat), Within(t, UpTo) PROVE Within(t, UpTo')
  BY <1>2, <1>6 DEF Within
<1>7. Within(shown, UpTo) /\ Within(held, UpTo) => Within(shown', UpTo') /\ Within(held', UpTo')
  BY <1>2, <1>3, <1>4, <1>5, <1>6
<1>8. held = <<>> => shown' = shown
  BY <1>3, <1>2, ConcatEmptySeq
<1> QED
  BY <1>1, <1>3, <1>7, <1>8 DEF TextsInv

\* The steps of a pipeline: what was said of the line stays said.
LEMMA SaidKept ==
  ASSUME Types, JobsInv, Forks PROVE Said => Said'
<1> SUFFICES ASSUME Said PROVE Said'
  OBVIOUS
<1>1. CASE Execute
  BY <1>1 DEF Execute, Said
<1>2. ASSUME ~Execute
      PROVE  /\ pc \in {"fork", "wait"} /\ pc' \in {"fork", "wait"} /\ LastJob' = LastJob
             /\ job[LastJob] = "ended" /\ (LastJob = 1 => outcome # Killed)
             /\ LastJob \in Jobs /\ Jobs = 1..LastJob
  <2>1. pc \in {"fork", "wait"} /\ pc' \in {"fork", "wait"} /\ commands' = commands
    BY <1>2, ForksCommands DEF parser
  <2> QED
    BY <2>1, JobFacts DEF Said, LastJob
<1>3. CASE Fork
  <2>1. PICK j \in Jobs \ Forked : job' = [job EXCEPT ![j] = "forked"]
    BY <1>3 DEF Fork
  <2>2. outcome' = outcome /\ pc = "fork" /\ ~Execute
    BY <1>3 DEF Fork, Execute
  <2>3. LastJob # j
    BY <1>2, <2>1, <2>2 DEF Forked
  <2>4. job'[LastJob] = job[LastJob]
    BY <1>2, <2>1, <2>2, <2>3, JobChanged
  <2> QED
    BY <1>2, <2>2, <2>4 DEF Said
<1>4. CASE ForkFails \/ AllForked
  <2>1. job' = job /\ outcome' \in {outcome, ERR_EXEC_CMD} /\ pc = "fork" /\ ~Execute
    BY <1>4 DEF ForkFails, AllForked, Execute
  <2> QED
    BY <1>2, <2>1 DEF Said, ERR_EXEC_CMD, Killed
<1>5. ASSUME NEW j \in Jobs, Child(j) PROVE Said'
  <2>1. job[j] = "forked" /\ job' = [job EXCEPT ![j] = "ended"]
    BY <1>5 DEF Child, Runs, CannotRun
  <2>2. ~Execute
    BY <2>1 DEF JobsInv, Execute
  <2>3. j # LastJob /\ LastJob # 1
    BY <1>2, <2>1, <2>2
  <2>4. job'[LastJob] = job[LastJob]
    BY <1>2, <2>1, <2>2, <2>3, JobChanged
  <2> QED
    BY <1>2, <2>2, <2>3, <2>4 DEF Said
<1> QED
  BY <1>1, <1>3, <1>4, <1>5 DEF Forks

LEMMA TextsNext == Types /\ JobsInv /\ StatusInv /\ LinesInv /\ TextsInv /\ [Next]_vars => TextsInv'
<1> SUFFICES ASSUME Types, JobsInv, StatusInv, LinesInv, TextsInv, [Next]_vars PROVE TextsInv'
  OBVIOUS
<1>1. CASE TakeLine
  BY <1>1, TextsTake
<1>2. CASE EndOfInput \/ Exit
  <2>1. PICK texts \in {<<>>, <<current>>} :
          Leave(texts) /\ (texts = <<>> \/ pc \in {"exit", "parse"}) /\ pc # "ended"
    BY <1>2 DEF EndOfInput, Exit
  <2>2. texts = <<>> \/ UpTo = current - 1
    BY <2>1 DEF UpTo, Said
  <2> QED
    BY <2>1, <2>2, TextsLeave
<1>3. CASE Rejected \/ ChangeDir \/ Tell \/ NoDragon
  <2>1. PICK text \in BOOLEAN : Prompt(text)
    <3>1. CASE Rejected
      <4> DEFINE told == rc \in {WARN_NO_CMDS, ERR_TOO_MANY_COMMANDS}
      <4>1. told \in BOOLEAN /\ Prompt(told)
        BY <3>1 DEF Rejected
      <4> HIDE DEF told
      <4> QED
        BY <4>1
    <3>2. CASE ChangeDir \/ Tell \/ NoDragon
      <4>1. Prompt(TRUE) \/ Prompt(FALSE)
        BY <3>2 DEF ChangeDir, Tell, NoDragon
      <4> QED
        BY <4>1
    <3> QED
      BY <1>3, <3>1, <3>2
  <2>2. pc = "parse" /\ ~Said
    BY <1>3 DEF Rejected, ChangeDir, Tell, NoDragon, Said
  <2> QED
    BY <2>1, <2>2, TextsPrompt
<1>4. CASE Wait
  <2>1. Prompt(Result = ERR_EXEC_CMD) /\ pc = "wait"
    BY <1>4 DEF Wait
  <2>2. Result = ERR_EXEC_CMD => ~Said
    BY <1>4, <2>1, ResultIs DEF Said
  <2> QED
    BY <2>1, <2>2, TextsPrompt
<1>5. CASE Execute \/ Fork \/ ForkFails \/ AllForked
  <2>1. UNCHANGED <<current, output>> /\ pc # "prompt"
    BY <1>5 DEF Execute, Fork, ForkFails, AllForked
  <2>2. UpTo <= UpTo'
    BY <1>5, <2>1, SaidKept, UpToKept DEF Forks
  <2> QED
    BY <2>1, <2>2, TextsKept
<1>6. ASSUME NEW j \in Jobs, Child(j) PROVE TextsInv'
  <2>1. UNCHANGED <<current, pc, commands>> /\ job[j] = "forked" /\ job' = [job EXCEPT ![j] = "ended"]
    BY <1>6 DEF Child, Runs, CannotRun, parser
  <2>2. pc \in {"fork", "wait"} /\ LastJob' = LastJob
    BY <2>1 DEF JobsInv, LastJob
  <2>3. UpTo <= UpTo'
    BY <1>6, <2>1, SaidKept, UpToKept DEF Forks
  <2>4. CASE CannotRun(j)
    BY <2>3, <2>4, TextsRepeated
  <2>5. CASE Runs(j) /\ UNCHANGED shown
    BY <2>2, <2>3, <2>5, TextsKept DEF Runs, output
  <2>6. CASE Runs(j) /\ ~UNCHANGED shown
    <3>1. j = LastJob /\ shown' = Append(shown, current) /\ UNCHANGED held /\ (LastJob = 1 => outcome' # Killed)
      BY <2>6 DEF Runs
    <3>2. job'[j] = "ended"
      BY <2>1, JobChanged
    <3>3. ~Said /\ Said'
      BY <2>1, <2>2, <3>1, <3>2 DEF Said
    <3>4. UpTo = current - 1 /\ UpTo' = current
      BY <2>1, <3>3 DEF UpTo
    <3> QED
      BY <2>2, <3>1, <3>4, TextsSaid
  <2> QED
    BY <1>6, <2>4, <2>5, <2>6 DEF Child
<1>7. CASE ParseStep
  <2>1. UNCHANGED <<current, output, pc>> /\ pc = "parse"
    BY <1>7 DEF ParseStep
  <2>2. UpTo <= UpTo'
    BY <2>1, UpToKept DEF Said
  <2> QED
    BY <2>1, <2>2, TextsKept
<1>8. CASE UNCHANGED vars
  <2>1. UNCHANGED <<current, output, pc, job, outcome, commands>>
    BY <1>8 DEF vars, parser
  <2>2. UpTo <= UpTo'
    BY <2>1, UpToKept DEF Said, LastJob
  <2> QED
    BY <2>1, <2>2, TextsKept
<1> QED
  BY <1>1, <1>2, <1>3, <1>4, <1>5, <1>6, <1>7, <1>8 DEF Next, LoopStep
----
(* The theorems. *)

LoopInv == Types /\ ParsedInv /\ MeansInv /\ HeapInv /\ JobsInv /\ StatusInv /\ LinesInv /\ TextsInv

LEMMA LoopInit == Init => LoopInv
<1> SUFFICES ASSUME Init PROVE LoopInv
  OBVIOUS
<1>1. /\ pc = "prompt" /\ at = "parsed" /\ commands = <<>> /\ single = (part = "P2") /\ heap = Owned
      /\ refused = 0 /\ job = <<>> /\ outcome = 0 /\ last_return_code = 0
  BY DEF Init
<1>2. ParsedInv /\ MeansInv
  BY <1>1 DEF ParsedInv, MeansInv, Copying
<1>3. HeapInv
  BY <1>1 DEF HeapInv, Owned, InHand
<1>4. JobsInv
  BY <1>1 DEF JobsInv, Jobs, Forked
<1>5. StatusInv
  BY <1>1 DEF StatusInv, Killed
<1> QED
  BY <1>2, <1>3, <1>4, <1>5, TypesInit, LinesInit, TextsInit DEF LoopInv

LEMMA LoopAlways == Spec => []LoopInv
<1>1. LoopInv /\ [Next]_vars => LoopInv'
  BY TypesNext, ParsedNext, MeansNext, HeapNext, JobsNext, StatusNext, LinesNext, TextsNext DEF LoopInv
<1> QED
  BY LoopInit, <1>1, PTL DEF Spec

\* Parser and loop keep their types: the loop never has more children than
\* job's array holds, CMD_MAX (5-ShellP3/dshlib.c:403-493).
THEOREM ShellTypes == Spec => []TypeOK
<1>1. LoopInv => TypeOK
  BY DEF LoopInv, Types, Inv, TypeOK
<1> QED
  BY LoopAlways, <1>1, PTL

\* The parser keeps within the buffers of a command, and the list within its
\* array, for whatever lines the loop takes one after the other, the lists of
\* the earlier ones freed (5-ShellP3/dshlib.c:75-289, 367-401).
THEOREM ShellFits == Spec => [](FitsBuffer /\ FitsArrays)
<1>1. LoopInv => FitsBuffer /\ FitsArrays
  BY DEF LoopInv, Types, Inv
<1> QED
  BY LoopAlways, <1>1, PTL

\* What the parser returns to the loop, for each line that is taken, is what that
\* line means: its pipes, then the quotes and blanks of each part, and the first
\* part that is refused (dshlib.c:132-289); only memory may run out.
THEOREM ShellMeaning == Spec => []ParseIsMeaning
<1>1. LoopInv => ParseIsMeaning
  BY DEF LoopInv, MeansInv, MeaningInv, Answers, Returned, ParseIsMeaning
<1> QED
  BY LoopAlways, <1>1, PTL

\* However many lines were run and however they failed, at the prompt nothing is
\* allocated but P2's one buffer, and P2 ends with none, as long as no line of a
\* list was refused for its arguments (dshlib.c:60-131; 4-ShellP2/dshlib.c:296-372).
THEOREM ShellHeap == Spec => []HeapIsFreed
<1>1. ASSUME LoopInv PROVE HeapIsFreed
  <2>1. heap \in Int /\ refused \in Nat /\ single \in BOOLEAN
    BY <1>1 DEF LoopInv, Types, Inv, ParserTypes, LoopTypes, InputTypes
  <2>2. pc = "prompt" => Len(commands) = 0 /\ InHand = 0
    BY <1>1 DEF LoopInv, ParsedInv, InHand
  <2> QED
    BY <1>1, <2>1, <2>2 DEF LoopInv, HeapInv, HeapIsFreed, Owned
<1> QED
  BY LoopAlways, <1>1, PTL

\* At P2's prompt rc is the status of the last command that ran or failed to, or
\* of the last cd (4-ShellP2/dshlib.c:326-361).
THEOREM ShellReturnCode == Spec => []RcIsLatest
<1>1. LoopInv => RcIsLatest
  BY DEF LoopInv, StatusInv, RcIsLatest
<1> QED
  BY LoopAlways, <1>1, PTL

\* Between the shell's read-ahead and its children, each line of the input is
\* taken or eaten once, unless a child seeks back (fgets, execvp and exit in
\* dshlib.c).
THEOREM ShellLines == Spec => []EachLineOnce
<1>1. ASSUME LoopInv, NothingSeeks, NEW i \in Index
      PROVE  /\ times[i] + (IF i \in eaten THEN 1 ELSE 0) <= 1
             /\ ahead = <<>> /\ offset = Len(script) => times[i] = 1 \/ i \in eaten
  <2>1. /\ times[i] + Ate(i) = IF i <= offset /\ i \notin Ahead THEN 1 ELSE 0
        /\ times[i] \in 0..2 /\ current \in Int /\ Index = 1..Len(script) /\ Len(script) \in Nat
    BY <1>1, InputFacts DEF LoopInv, LinesInv
  <2>2. ahead = <<>> => Ahead = {}
    BY <2>1 DEF Ahead
  <2>3. Ate(i) = IF i \in eaten THEN 1 ELSE 0
    BY DEF Ate
  <2> QED
    BY <2>1, <2>2, <2>3
<1>2. LoopInv => EachLineOnce
  BY <1>1 DEF EachLineOnce
<1> QED
  BY LoopAlways, <1>2, PTL

\* Texts reach a terminal in the order of the lines, each once; elsewhere one is
\* written twice only after a child failed to execute its command, and never by
\* a loop that prompts a terminal (5-ShellP3/dshlib.c:380, 738-741).
THEOREM ShellOutput == Spec => []OutputFaithful
<1>1. ASSUME LoopInv, NothingSeeks
      PROVE  /\ session.stdout = "tty" => \A m, n \in DOMAIN (shown \o held) :
                                            m < n => (shown \o held)[m] < (shown \o held)[n]
             /\ ~IsInjective(shown \o held) => failed /\ ~Interactive
  <2>1. UpTo \in Int /\ shown \in Seq(Nat) /\ held \in Seq(Nat)
    BY <1>1, TextFacts DEF LoopInv
  <2>2. Within(shown, UpTo) /\ Within(held, UpTo)
    BY <1>1 DEF LoopInv, TextsInv
  <2>3. (held = <<>> => shown \o held = shown) /\ (Apart(shown, held) => IsInjective(shown \o held))
    BY <2>1, <2>2, TextsJoined
  <2>4. session.stdout = "tty" => held = <<>> /\ Rising(shown)
    BY <1>1 DEF LoopInv, TextsInv
  <2>5. ~failed \/ Interactive => Apart(shown, held)
    BY <1>1 DEF LoopInv, TextsInv
  <2> QED
    BY <2>3, <2>4, <2>5 DEF Rising
<1>2. LoopInv => OutputFaithful
  BY <1>1 DEF OutputFaithful
<1> QED
  BY LoopAlways, <1>2, PTL
====
