---- MODULE PipelineProofs ----
(***************************************************************************)
(* Proofs about Pipeline, for every number of commands, capacity, data and *)
(* set of failing calls.  Inv ties the shell's position to the state of    *)
(* its children: who was forked, who was waited for, how they ended, and   *)
(* which pipes are still open.  FlowInv follows the streams: what each     *)
(* command got, what it made of it and where that is.                      *)
(***************************************************************************)
EXTENDS Pipeline, SequenceTheorems, WellFoundedInduction, TLAPS

\* Who exists while the shell is where it is.
ChildrenInv ==
    /\ pc = "pipe" => \A c \in Commands : child[c] = "none"
    /\ pc = "fork" => \A c \in Commands : child[c] = "none" <=> c >= next
    /\ pc = "wait" =>
         /\ next <= forked + 1
         /\ \A c \in Commands : (child[c] = "none" <=> c > forked)
                                /\ (c < next => child[c] = "reaped")
    /\ pc = "returned" /\ (local \/ next > N \/ ~Fails("fork")) =>
         \A c \in Commands : child[c] \in {"none", "reaped"}

\* What is decided while the shell is where it is.
ResultInv ==
    /\ pc \in {"pipe", "fork"} => result = NoResult
    /\ pc = "wait" => \/ result = NoResult /\ forked = N
                      \/ result = ERR_EXEC_CMD /\ local
    /\ pc \in {"pipe", "fork"} => forked = N
    /\ \A c \in Commands : child[c] \in {"zombie", "reaped"} => code[c] # NoCode
    /\ pc = "wait" => ends = {}
    /\ pc = "returned" /\ (local \/ next > N) => ends = {}

\* The first command never reads.
FirstInv ==
    /\ kind[1] \in {"source", "silent", "broken"}
    /\ child[1] \in {"none", "setup"} => kind[1] # "broken"
    /\ child[1] = "running" => eof[1]

Inv == TypeOK /\ FirstInv /\ ChildrenInv /\ ResultInv

----
\* Which function runs, and so its error codes, never changes.
LEMMA WhichKept ==
  [Next]_vars => UNCHANGED which /\ UNCHANGED Error /\ UNCHANGED ExecCode
<1>1. [Next]_vars => UNCHANGED which
  BY DEF Next, ShellStep, MakePipe, MakePipeFails, PipesMade, Fork, ForkFails, CloseEnds, Wait,
     AllWaited, CommandStep, Setup, SetupFails, Read, Write, Exit, shell, vars
<1> QED
  BY <1>1 DEF which, Error, ExecCode

(* Types, one lemma per part; only the exit code needs the invariant. *)

LEMMA ShellTypesNext == Inv /\ [Next]_vars => ShellTypes'
<1> SUFFICES ASSUME Inv, [Next]_vars PROVE ShellTypes'
  OBVIOUS
<1>0. N \in Nat \ {0}
  BY PipelineAssumption
<1> USE <1>0 DEF Error, Inv, TypeOK, ShellTypes, Commands, Pipes, which
<1>1. CASE MakePipe
  BY <1>1 DEF MakePipe
<1>2. CASE MakePipeFails
  BY <1>2 DEF MakePipeFails, Return
<1>3. CASE PipesMade
  BY <1>3 DEF PipesMade
<1>4. CASE Fork
  BY <1>4 DEF Fork
<1>5. CASE ForkFails
  BY <1>5 DEF ForkFails, Return
<1>6. CASE CloseEnds
  BY <1>6 DEF CloseEnds
<1>7. CASE Wait
  BY <1>7 DEF Wait
<1>8. CASE AllWaited
  <2>1. ASSUME ~local, result = NoResult
        PROVE  ExitCode \in Codes \cup {EXIT_SC, Error}
    <3>1. N \in Commands /\ child[N] = "reaped"
      BY <1>8, <2>1 DEF AllWaited, ChildrenInv, ResultInv, NoResult, Error, ERR_RDSH_CMD_EXEC
    <3>2. code[N] \in Codes \cup {EXIT_SC, Killed}
      BY <2>1, <3>1 DEF CommandTypes, ResultInv, ExecCode
    <3> QED
      BY <2>1, <3>2 DEF ExitCode, Error
  <2>2. result' \in Codes \cup {OK, EXIT_SC, ERR_EXEC_CMD, ERR_RDSH_CMD_EXEC, NoResult}
    BY <1>8, <2>1 DEF AllWaited, Return
  <2> QED
    BY <1>8, <2>2 DEF AllWaited, Return
<1>9. CASE \E c \in Commands : CommandStep(c)
  BY <1>9 DEF CommandStep, Setup, SetupFails, Read, Write, Exit, shell, which
<1>10. CASE UNCHANGED vars
  BY <1>10 DEF vars, shell, which
<1> QED
  BY <1>1, <1>2, <1>3, <1>4, <1>5, <1>6, <1>7, <1>8, <1>9, <1>10 DEF Next, ShellStep

\* What a command's own steps do to its state.
LEMMA EndsTypes ==
  ASSUME CommandTypes, NEW c \in Commands, NEW s \in Codes \cup {ExecCode, Killed}, Ends(c, s)
  PROVE  /\ child' \in [Commands -> {"none", "setup", "running", "zombie", "reaped"}]
         /\ reads' \in [Commands -> SUBSET Pipes] /\ writes' \in [Commands -> SUBSET Pipes]
         /\ code' \in [Commands -> Codes \cup {ExecCode, Killed, NoCode}]
  BY DEF CommandTypes, Ends

LEMMA CommandTypesNext == Inv /\ [Next]_vars => CommandTypes'
<1> SUFFICES ASSUME Inv, [Next]_vars PROVE CommandTypes'
  OBVIOUS
<1>0. UNCHANGED ExecCode
  BY WhichKept
<1> USE <1>0 DEF Inv, TypeOK
<1>1. CASE UNCHANGED command
  BY <1>1 DEF CommandTypes, command
<1>2. CASE Fork
  <2>1. next \in Commands /\ ends \in SUBSET Pipes
    BY <1>2, PipelineAssumption DEF Fork, ShellTypes, Commands
  <2> QED
    BY <1>2, <2>1 DEF Fork, CommandTypes
<1>3. CASE Wait
  BY <1>3 DEF Wait, CommandTypes
<1>4. ASSUME NEW c \in Commands, CommandStep(c) PROVE CommandTypes'
  <2>1. CASE Setup(c)
    BY <2>1 DEF Setup, CommandTypes
  <2>2. CASE SetupFails(c)
    BY <2>2 DEF SetupFails, CommandTypes
  <2>3. CASE Read(c)
    <3>1. eof' \in [Commands -> BOOLEAN]
      BY <2>3 DEF Read, CommandTypes
    <3> QED
      BY <2>3, <3>1 DEF Read, CommandTypes
  <2>4. CASE Write(c)
    BY <2>4, EndsTypes DEF Write, CommandTypes
  <2>5. CASE Exit(c)
    BY <2>5, EndsTypes DEF Exit, CommandTypes
  <2> QED
    BY <1>4, <2>1, <2>2, <2>3, <2>4, <2>5 DEF CommandStep
<1> QED
  BY <1>1, <1>2, <1>3, <1>4 DEF Next, ShellStep, MakePipe, MakePipeFails, PipesMade, ForkFails,
     CloseEnds, AllWaited, vars

LEMMA DataTypesNext == Inv /\ [Next]_vars => DataTypes'
<1> SUFFICES ASSUME Inv, [Next]_vars PROVE DataTypes'
  OBVIOUS
<1> USE DEF Inv, TypeOK, DataTypes
<1>1. CASE UNCHANGED <<todo, pipe, shown>>
  BY <1>1
<1>2. ASSUME NEW c \in Commands, CommandStep(c) PROVE DataTypes'
  <2>1. CASE Setup(c)
    BY <2>1, PipelineAssumption DEF Setup
  <2>2. CASE SetupFails(c) \/ Exit(c)
    BY <2>2, PipelineAssumption DEF SetupFails, Exit, ShellTypes
  <2>3. CASE Read(c)
    <3>1. CASE pipe' = pipe /\ todo' = todo
      BY <2>3, <3>1 DEF Read
    <3>2. CASE /\ pipe[c - 1] # <<>>
               /\ todo' = [todo EXCEPT ![c] = <<Head(pipe[c - 1])>>]
               /\ pipe' = [pipe EXCEPT ![c - 1] = Tail(@)]
      <4>1. CASE c - 1 \in Pipes
        <5>1. pipe[c - 1] \in Seq(Units) /\ pipe[c - 1] # <<>>
          BY <3>2, <4>1
        <5>2. Head(pipe[c - 1]) \in Units /\ Tail(pipe[c - 1]) \in Seq(Units)
          BY <5>1
        <5>3. <<Head(pipe[c - 1])>> \in Seq(Units)
          BY <5>2
        <5> QED
          BY <2>3, <3>2, <5>2, <5>3 DEF Read
      <4>2. CASE c - 1 \notin Pipes
        <5>1. c = 1
          BY <4>2, PipelineAssumption DEF Commands, Pipes
        <5> QED
          BY <2>3, <5>1 DEF Read, FirstInv
      <4> QED
        BY <4>1, <4>2
    <3> QED
      BY <2>3, <3>1, <3>2 DEF Read
  <2>4. CASE Write(c)
    <3>1. todo[c] \in Seq(Units) /\ todo[c] # <<>>
      BY <2>4 DEF Write
    <3>2. Head(todo[c]) \in Units /\ Tail(todo[c]) \in Seq(Units)
      BY <3>1
    <3>3. todo' \in [Commands -> Seq(Units)]
      BY <2>4, <3>2 DEF Write
    <3>4. pipe' \in [Pipes -> Seq(Units)]
      <4>1. CASE c \in Pipes
        <5>1. Append(pipe[c], Head(todo[c])) \in Seq(Units)
          BY <3>2, <4>1
        <5> QED
          BY <2>4, <5>1 DEF Write
      <4>2. CASE c \notin Pipes
        BY <2>4, <4>2 DEF Write
      <4> QED
        BY <4>1, <4>2
    <3>5. shown' \in Seq(Units)
      <4>1. Append(shown, Head(todo[c])) \in Seq(Units)
        BY <3>2
      <4> QED
        BY <2>4, <4>1 DEF Write
    <3> QED
      BY <3>3, <3>4, <3>5
  <2> QED
    BY <1>2, <2>1, <2>2, <2>3, <2>4 DEF CommandStep
<1> QED
  BY <1>1, <1>2 DEF Next, ShellStep, MakePipe, MakePipeFails, PipesMade, Fork, ForkFails,
     CloseEnds, Wait, AllWaited, vars, command

LEMMA TypeNext == Inv /\ [Next]_vars => TypeOK'
  BY ShellTypesNext, CommandTypesNext, DataTypesNext DEF TypeOK

LEMMA FirstNext == Inv /\ [Next]_vars => FirstInv'
<1> SUFFICES ASSUME Inv, [Next]_vars PROVE FirstInv'
  OBVIOUS
<1>0. 1 \in Commands
  BY PipelineAssumption DEF Commands
<1> USE <1>0 DEF Inv, TypeOK, CommandTypes, FirstInv
<1>1. CASE UNCHANGED command
  BY <1>1 DEF command
<1>2. CASE Fork
  BY <1>2, PipelineAssumption DEF Fork, ShellTypes, ChildrenInv, Commands
<1>3. CASE Wait
  BY <1>3 DEF Wait
<1>4. ASSUME NEW c \in Commands, CommandStep(c) PROVE FirstInv'
  <2>1. CASE Setup(c)
    BY <2>1 DEF Setup
  <2>2. CASE SetupFails(c)
    BY <2>2 DEF SetupFails
  <2>3. CASE Read(c)
    BY <2>3 DEF Read
  <2>4. CASE Write(c)
    BY <2>4 DEF Write, Ends
  <2>5. CASE Exit(c)
    BY <2>5 DEF Exit, Ends
  <2> QED
    BY <1>4, <2>1, <2>2, <2>3, <2>4, <2>5 DEF CommandStep
<1> QED
  BY <1>1, <1>2, <1>3, <1>4 DEF Next, ShellStep, MakePipe, MakePipeFails, PipesMade, ForkFails,
     CloseEnds, AllWaited, vars

----
(* The shell's position and its children. *)

\* No step of a command makes a child come or go, nor waits for one.
LEMMA ChildKept ==
  ASSUME CommandTypes, NEW c \in Commands, CommandStep(c), NEW d \in Commands
  PROVE  /\ child[d] = "none" <=> child'[d] = "none"
         /\ child[d] = "reaped" <=> child'[d] = "reaped"
  BY DEF CommandTypes, CommandStep, Setup, SetupFails, Ends, Read, Write, Exit

LEMMA ChildrenNext == Inv /\ [Next]_vars => ChildrenInv'
<1> SUFFICES ASSUME Inv, [Next]_vars PROVE ChildrenInv'
  OBVIOUS
<1> USE PipelineAssumption DEF Inv, TypeOK, ShellTypes, CommandTypes, ChildrenInv, Commands, which
<1>1. CASE MakePipe
  BY <1>1 DEF MakePipe, command
<1>2. CASE MakePipeFails
  BY <1>2 DEF MakePipeFails, Return, command
<1>3. CASE PipesMade
  BY <1>3 DEF PipesMade, command
<1>4. CASE Fork
  BY <1>4 DEF Fork
<1>5. CASE ForkFails
  BY <1>5 DEF ForkFails, Return, command
<1>6. CASE CloseEnds
  BY <1>6 DEF CloseEnds, command, ResultInv
<1>7. CASE Wait
  BY <1>7 DEF Wait
<1>8. CASE AllWaited
  BY <1>8 DEF AllWaited, Return, command
<1>9. ASSUME NEW c \in Commands, CommandStep(c) PROVE ChildrenInv'
  <2>1. UNCHANGED shell
    BY <1>9 DEF CommandStep, Setup, SetupFails, Read, Write, Exit
  <2>2. \A d \in Commands : /\ child[d] = "none" <=> child'[d] = "none"
                            /\ child[d] = "reaped" <=> child'[d] = "reaped"
    BY <1>9, ChildKept
  <2> QED
    BY <2>1, <2>2 DEF shell, which
<1>10. CASE UNCHANGED vars
  BY <1>10 DEF vars, shell, which, command
<1> QED
  BY <1>1, <1>2, <1>3, <1>4, <1>5, <1>6, <1>7, <1>8, <1>9, <1>10 DEF Next, ShellStep

\* A command's exit code is recorded when it ends and not touched again.
LEMMA CodeKept ==
  ASSUME CommandTypes, NEW c \in Commands, CommandStep(c), NEW d \in Commands,
         child[d] \in {"zombie", "reaped"} => code[d] # NoCode,
         child'[d] \in {"zombie", "reaped"}
  PROVE  code'[d] # NoCode
<1>1. CASE \E s \in Codes \cup {ExecCode, Killed} : Ends(c, s)
  BY <1>1, PipelineAssumption
  DEF CommandTypes, Ends, NoCode, Killed, ExecCode, EXIT_FAILURE, EXIT_SC
<1>2. CASE Setup(c) \/ SetupFails(c) \/ UNCHANGED <<child, code>>
  BY <1>2 DEF CommandTypes, Setup, SetupFails
<1> QED
  BY <1>1, <1>2 DEF CommandStep, Read, Write, Exit

LEMMA ResultNext == Inv /\ [Next]_vars => ResultInv'
<1> SUFFICES ASSUME Inv, [Next]_vars PROVE ResultInv'
  OBVIOUS
<1> USE PipelineAssumption DEF Error, Inv, TypeOK, ShellTypes, CommandTypes, ResultInv, Commands, which
<1>1. CASE MakePipe
  BY <1>1 DEF MakePipe, command
<1>2. CASE MakePipeFails
  BY <1>2 DEF MakePipeFails, Return, command
<1>3. CASE PipesMade
  BY <1>3 DEF PipesMade, command
<1>4. CASE Fork
  BY <1>4 DEF Fork
<1>5. CASE ForkFails
  BY <1>5 DEF ForkFails, Return, command
<1>6. CASE CloseEnds
  BY <1>6 DEF CloseEnds, command
<1>7. CASE Wait
  BY <1>7 DEF Wait
<1>8. CASE AllWaited
  BY <1>8 DEF AllWaited, Return, command
<1>9. ASSUME NEW c \in Commands, CommandStep(c) PROVE ResultInv'
  <2>1. UNCHANGED shell
    BY <1>9 DEF CommandStep, Setup, SetupFails, Read, Write, Exit
  <2>2. \A d \in Commands : child'[d] \in {"zombie", "reaped"} => code'[d] # NoCode
    BY <1>9, CodeKept
  <2> QED
    BY <2>1, <2>2 DEF shell, which
<1>10. CASE UNCHANGED vars
  BY <1>10 DEF vars, shell, which, command
<1> QED
  BY <1>1, <1>2, <1>3, <1>4, <1>5, <1>6, <1>7, <1>8, <1>9, <1>10 DEF Next, ShellStep

----
LEMMA InvInit == Init => Inv
<1> SUFFICES ASSUME Init PROVE Inv
  OBVIOUS
<1> USE PipelineAssumption DEF Init
<1>1. ShellTypes
  BY DEF ShellTypes
<1>2. CommandTypes
  BY DEF CommandTypes
<1>3. DataTypes
  BY DEF DataTypes
<1>4. FirstInv
  BY DEF FirstInv, Commands
<1>5. ChildrenInv /\ ResultInv
  BY DEF ChildrenInv, ResultInv
<1> QED
  BY <1>1, <1>2, <1>3, <1>4, <1>5 DEF Inv, TypeOK

LEMMA InvCorrect == Spec => []Inv
<1>1. Inv /\ [Next]_vars => Inv'
  BY TypeNext, FirstNext, ChildrenNext, ResultNext DEF Inv
<1> QED
  BY <1>1, InvInit, PTL DEF Spec

\* The shell, its children, the pipes and the exit codes keep their types.
THEOREM TypeCorrect == Spec => []TypeOK
<1>1. Inv => TypeOK
  BY DEF Inv
<1> QED
  BY <1>1, InvCorrect, PTL

\* A pipeline leaves neither a child nor a pipe end behind, unless the remote
\* shell gives up in its middle.
THEOREM NothingLeftCorrect == Spec => []NothingLeft
<1>1. Inv => NothingLeft
  BY PipelineAssumption
  DEF Inv, TypeOK, ShellTypes, ChildrenInv, ResultInv, NothingLeft, Abandoned, AllWaitedFor
<1> QED
  BY <1>1, InvCorrect, PTL

\* A pipeline leaves no child behind at all where fork does not fail, or with
\* execute_pipeline alone.
THEOREM WaitedCorrect ==
  ASSUME FALSE \notin Locals \/ ~Fails("fork") PROVE Spec => []AllWaitedFor
<1>1. Inv => AllWaitedFor
  BY PipelineAssumption DEF Inv, TypeOK, ShellTypes, ChildrenInv, AllWaitedFor
<1> QED
  BY <1>1, InvCorrect, PTL

\* The remote shell's exit code of a pipeline is its last command's, EXIT_SC of
\* one of the commands it has waited for, or an error.
THEOREM ResultCorrect == Spec => []ResultIsLast
<1>1. Init => ResultIsLast
  BY DEF Init, ResultIsLast
<1>2. Inv /\ ResultIsLast /\ [Next]_vars => ResultIsLast'
  <2> SUFFICES ASSUME Inv, ResultIsLast, [Next]_vars, ~local PROVE ResultIsLast'
    BY WhichKept DEF ResultIsLast, which
  <2>00. UNCHANGED which /\ UNCHANGED Error
    BY WhichKept
  <2> USE <2>00 DEF Inv, TypeOK, CommandTypes, which
  <2>0. N \in Commands
    BY PipelineAssumption DEF Commands
  <2>1. CASE AllWaited
    <3>1. result = NoResult /\ forked = N /\ result' = ExitCode
      BY <2>1 DEF AllWaited, Return, ResultInv, NoResult
    <3>2. \A c \in Commands : child'[c] = "reaped"
      BY <2>1, <3>1, PipelineAssumption DEF AllWaited, ChildrenInv, Commands, command
    <3>3. code' = code
      BY <2>1 DEF AllWaited, command
    <3> QED
      BY <2>0, <3>1, <3>2, <3>3 DEF ResultIsLast, ExitCode, Error, EXIT_SC, ERR_RDSH_CMD_EXEC
  <2>2. CASE MakePipeFails \/ ForkFails
    BY <2>2 DEF MakePipeFails, ForkFails, Return, ResultIsLast, Error, EXIT_SC, ERR_RDSH_CMD_EXEC
  <2>3. CASE MakePipe \/ PipesMade \/ Fork \/ CloseEnds \/ Wait
    BY <2>3 DEF MakePipe, PipesMade, Fork, CloseEnds, Wait, ResultIsLast
  <2>4. ASSUME NEW c \in Commands, CommandStep(c) PROVE ResultIsLast'
    <3>1. UNCHANGED shell
      BY <2>4 DEF CommandStep, Setup, SetupFails, Read, Write, Exit
    <3>2. \A d \in Commands : child[d] = "reaped" => child'[d] = "reaped" /\ code'[d] = code[d]
      BY <2>4 DEF CommandStep, Setup, SetupFails, Ends, Read, Write, Exit
    <3> QED
      BY <2>0, <3>1, <3>2 DEF shell, which, ResultIsLast
  <2>5. CASE UNCHANGED vars
    BY <2>5 DEF vars, shell, which, command, ResultIsLast
  <2> QED
    BY <2>1, <2>2, <2>3, <2>4, <2>5 DEF Next, ShellStep
<1> QED
  BY <1>1, <1>2, InvCorrect, PTL DEF Spec

----
(* What flows through the pipes. *)

Began(c) == child[c] \in {"running", "zombie", "reaped"}
Ended(c) == child[c] \in {"zombie", "reaped"}
Takes(c) == kind[c] \in {"copy", "head"}

\* Which ends are open where; the children come in order; one that is killed has
\* lost its reader, and one that is not has written all it had.
OpenInv ==
    /\ pc = "pipe" => ends = 1..(next - 1)
    /\ pc = "fork" => ends = Pipes
    /\ \A c \in Commands :
         /\ child[c] = "setup" => reads[c] = Pipes /\ writes[c] = Pipes
         /\ child[c] = "running" => reads[c] = {c - 1} \cap Pipes /\ writes[c] = {c} \cap Pipes
OrderInv == \A c \in Commands : child[c] # "none" => \A d \in 1..c : child[d] # "none"
KilledInv == \A c \in Commands :
    /\ code[c] = Killed => /\ c < N /\ child[c + 1] \in {"none", "zombie", "reaped"}
                           /\ pc \notin {"pipe", "fork"}
    /\ Ended(c) /\ code[c] # Killed => todo[c] = <<>> /\ eof[c]
ReturnedInv == pc = "returned" /\ result # Error => \A c \in Commands : child[c] = "reaped"

\* got[c] is all that command c has had to write: what it has written went on to
\* the next one or is in the pipe, or was shown, and the rest is what it is about
\* to write.  A reader has got what it has read.
Taken(c, got)  == IF Takes(c) THEN got[c] ELSE <<>>
Flows(c, got)  == got[c] = IF c = N THEN shown \o todo[c] ELSE (Taken(c + 1, got) \o pipe[c]) \o todo[c]
AtEnd(c)       == Ended(c - 1) /\ code[c - 1] # Killed /\ pipe[c - 1] = <<>>
Makes(c, got) ==
    /\ ~Began(c) => got[c] = <<>> /\ kind[c] # "broken"
    /\ Began(c) =>
         /\ ~Takes(c) => eof[c]
         /\ kind[c] = "source" => got[c] = Data
         /\ kind[c] = "silent" => got[c] = <<>>
         /\ kind[c] = "broken" => got[c] = held
         /\ kind[c] = "head" => /\ Len(got[c]) <= 1 /\ (~eof[c] => got[c] = <<>>)
                                /\ eof[c] /\ got[c] = <<>> => AtEnd(c)
         /\ kind[c] = "copy" => (eof[c] => AtEnd(c))
StreamInv == \E got \in [Commands -> Seq(Units)] : \A c \in Commands : Flows(c, got) /\ Makes(c, got)

\* A command's step leaves the shell and the other commands as they are.
LEMMA OthersKept ==
  ASSUME TypeOK, NEW c \in Commands, CommandStep(c)
  PROVE  /\ UNCHANGED <<shell, which, pc, next, forked, result, ends, Error>>
         /\ \A d \in Commands \ {c} :
              /\ child'[d] = child[d] /\ reads'[d] = reads[d] /\ writes'[d] = writes[d] /\ kind'[d] = kind[d]
              /\ todo'[d] = todo[d] /\ eof'[d] = eof[d] /\ code'[d] = code[d]
<1>1. UNCHANGED shell
  BY DEF CommandStep, Setup, SetupFails, Read, Write, Exit
<1>2. UNCHANGED <<which, pc, next, forked, result, ends, Error>>
  BY <1>1 DEF shell, which, Error
<1>3. ASSUME NEW d \in Commands \ {c}
      PROVE  /\ child'[d] = child[d] /\ reads'[d] = reads[d] /\ writes'[d] = writes[d] /\ kind'[d] = kind[d]
             /\ todo'[d] = todo[d] /\ eof'[d] = eof[d] /\ code'[d] = code[d]
  BY DEF TypeOK, CommandTypes, DataTypes, CommandStep, Setup, SetupFails, Read, Write, Exit, Ends
<1> QED
  BY <1>1, <1>2, <1>3

\* The shell's step leaves what the commands do as it is.
LEMMA ShellKeeps ==
  ASSUME TypeOK, ChildrenInv, ShellStep \/ UNCHANGED vars
  PROVE  /\ UNCHANGED <<which, kind, todo, eof, code, pipe, shown>>
         /\ \A c \in Commands : (Began(c)' <=> Began(c)) /\ (Ended(c)' <=> Ended(c))
<1>1. UNCHANGED <<which, kind, todo, eof, code, pipe, shown>>
  BY DEF ShellStep, MakePipe, MakePipeFails, PipesMade, Fork, ForkFails, CloseEnds, Wait, AllWaited, vars, shell, command
<1>2. CASE UNCHANGED child
  BY <1>1, <1>2 DEF Began, Ended
<1>3. CASE Fork
  <2>1. next \in Commands /\ child[next] = "none" /\ child' = [child EXCEPT ![next] = "setup"]
    BY <1>3 DEF Fork, ChildrenInv, TypeOK, ShellTypes, Commands
  <2> QED
    BY <1>1, <2>1 DEF Began, Ended, TypeOK, CommandTypes
<1>4. CASE Wait
  BY <1>1, <1>4 DEF Wait, Began, Ended, TypeOK, CommandTypes
<1> QED
  BY <1>1, <1>2, <1>3, <1>4 DEF ShellStep, MakePipe, MakePipeFails, PipesMade, ForkFails, CloseEnds, AllWaited, vars, command

LEMMA OpenNext == Inv /\ OpenInv /\ [Next]_vars => OpenInv'
<1> SUFFICES ASSUME Inv, OpenInv, [Next]_vars PROVE OpenInv'
  OBVIOUS
<1>0. N \in Nat \ {0} /\ next \in 1..(N + 1) /\ TypeOK /\ ChildrenInv
  BY PipelineAssumption DEF Inv, TypeOK, ShellTypes
<1>1. CASE MakePipe \/ PipesMade \/ MakePipeFails \/ ForkFails \/ CloseEnds \/ AllWaited
  <2>1. UNCHANGED <<child, reads, writes>>
    BY <1>1 DEF MakePipe, PipesMade, MakePipeFails, ForkFails, CloseEnds, AllWaited, command
  <2>2. CASE MakePipe \/ PipesMade
    <3>1. ends = 1..(next - 1) /\ pc = "pipe"
      BY <2>2 DEF OpenInv, MakePipe, PipesMade
    <3>2. CASE MakePipe
      <4>1. pc' = "pipe" /\ next' = next + 1 /\ ends' = ends \cup {next}
        BY <3>1, <3>2 DEF MakePipe
      <4> QED
        BY <1>0, <2>1, <3>1, <4>1 DEF OpenInv
    <3>3. CASE PipesMade
      BY <2>1, <3>1, <3>3 DEF OpenInv, PipesMade, Pipes
    <3> QED
      BY <2>2, <3>2, <3>3
  <2>3. CASE MakePipeFails \/ ForkFails \/ CloseEnds \/ AllWaited
    <3>1. pc' \in {"wait", "returned"}
      BY <2>3 DEF MakePipeFails, ForkFails, CloseEnds, AllWaited, Return
    <3> QED
      BY <2>1, <3>1 DEF OpenInv
  <2> QED
    BY <1>1, <2>2, <2>3
<1>2. CASE Fork
  <2>1. /\ next \in Commands /\ pc = "fork" /\ pc' = pc /\ ends' = ends /\ child' = [child EXCEPT ![next] = "setup"]
        /\ reads' = [reads EXCEPT ![next] = ends] /\ writes' = [writes EXCEPT ![next] = ends]
    BY <1>0, <1>2 DEF Fork, Commands
  <2> QED
    BY <1>0, <2>1 DEF OpenInv, TypeOK, CommandTypes
<1>3. CASE Wait
  BY <1>0, <1>3 DEF OpenInv, Wait, TypeOK, CommandTypes
<1>4. ASSUME NEW c \in Commands, CommandStep(c) PROVE OpenInv'
  <2>1. \/ child[c] = "setup" /\ child'[c] = "running" /\ reads'[c] = {c - 1} \cap Pipes /\ writes'[c] = {c} \cap Pipes
        \/ child[c] = "running" /\ child'[c] = "running" /\ reads'[c] = reads[c] /\ writes'[c] = writes[c]
        \/ child'[c] = "zombie"
    <3>1. CASE Setup(c) \/ SetupFails(c)
      BY <1>0, <3>1 DEF Setup, SetupFails, TypeOK, CommandTypes
    <3>2. CASE Read(c)
      BY <3>2 DEF Read
    <3>3. CASE Write(c)
      BY <1>0, <3>3 DEF Write, Ends, TypeOK, CommandTypes
    <3>4. CASE Exit(c)
      BY <1>0, <3>4 DEF Exit, Ends, TypeOK, CommandTypes
    <3> QED
      BY <1>4, <3>1, <3>2, <3>3, <3>4 DEF CommandStep
  <2> QED
    BY <1>0, <1>4, <2>1, OthersKept DEF OpenInv
<1>5. CASE UNCHANGED vars
  BY <1>5 DEF vars, shell, command, OpenInv
<1> QED
  BY <1>1, <1>2, <1>3, <1>4, <1>5 DEF Next, ShellStep

LEMMA OrderNext == Inv /\ OrderInv /\ [Next]_vars => OrderInv'
<1> SUFFICES ASSUME Inv, OrderInv, [Next]_vars PROVE OrderInv'
  OBVIOUS
<1>0. N \in Nat \ {0} /\ next \in 1..(N + 1) /\ TypeOK /\ ChildrenInv /\ Commands = 1..N
  BY PipelineAssumption DEF Inv, TypeOK, ShellTypes, Commands
<1>1. CASE Fork
  <2>1. next \in Commands /\ child' = [child EXCEPT ![next] = "setup"] /\ \A c \in Commands : child[c] = "none" <=> c >= next
    BY <1>0, <1>1 DEF Fork, ChildrenInv
  <2> QED
    BY <1>0, <2>1 DEF OrderInv, TypeOK, CommandTypes
<1>2. CASE UNCHANGED child
  BY <1>2 DEF OrderInv
<1>3. CASE Wait
  BY <1>0, <1>3 DEF Wait, OrderInv, TypeOK, CommandTypes
<1>4. ASSUME NEW c \in Commands, CommandStep(c) PROVE OrderInv'
  <2>1. \A d \in Commands : child[d] = "none" <=> child'[d] = "none"
    BY <1>0, <1>4, ChildKept DEF TypeOK
  <2> QED
    BY <1>0, <2>1 DEF OrderInv
<1> QED
  BY <1>1, <1>2, <1>3, <1>4 DEF Next, ShellStep, MakePipe, PipesMade, MakePipeFails, ForkFails, CloseEnds, AllWaited, vars, command

LEMMA KilledNext == Inv /\ OpenInv /\ KilledInv /\ [Next]_vars => KilledInv'
<1> SUFFICES ASSUME Inv, OpenInv, KilledInv, [Next]_vars PROVE KilledInv'
  OBVIOUS
<1>0. N \in Nat \ {0} /\ TypeOK /\ ChildrenInv /\ Commands = 1..N /\ Pipes = 1..(N - 1)
  BY PipelineAssumption DEF Inv, Commands, Pipes
<1>1. CASE ShellStep \/ UNCHANGED vars
  <2>1. UNCHANGED <<todo, eof, code>> /\ \A c \in Commands : Ended(c)' <=> Ended(c)
    BY <1>0, <1>1, ShellKeeps
  <2>2. pc \notin {"pipe", "fork"} =>
          pc' \notin {"pipe", "fork"} /\ \A c \in Commands : child[c] = "none" => child'[c] = "none"
    BY <1>0, <1>1 DEF ShellStep, MakePipe, PipesMade, MakePipeFails, Fork, ForkFails, CloseEnds, Wait, AllWaited,
                      Return, TypeOK, CommandTypes, vars, shell, command
  <2>3. ASSUME NEW c \in Commands, code'[c] = Killed
        PROVE  c < N /\ child'[c + 1] \in {"none", "zombie", "reaped"} /\ pc' \notin {"pipe", "fork"}
    <3>1. /\ c < N /\ c + 1 \in Commands /\ pc \notin {"pipe", "fork"}
          /\ child[c + 1] = "none" \/ Ended(c + 1)
      BY <1>0, <2>1, <2>3 DEF KilledInv, Ended
    <3> QED
      BY <2>1, <2>2, <3>1 DEF Ended
  <2> QED
    BY <2>1, <2>3 DEF KilledInv
<1>2. ASSUME NEW c \in Commands, CommandStep(c) PROVE KilledInv'
  <2>0. /\ pc' = pc
        /\ \A d \in Commands \ {c} : child'[d] = child[d] /\ todo'[d] = todo[d] /\ eof'[d] = eof[d] /\ code'[d] = code[d]
    BY <1>0, <1>2, OthersKept
  <2>1. \/ child'[c] = "running" /\ code'[c] = code[c] /\ child[c] \in {"setup", "running"}
        \/ child'[c] = "zombie" /\ child[c] = "running" /\ code'[c] # Killed /\ todo'[c] = <<>> /\ eof'[c]
        \/ /\ child'[c] = "zombie" /\ child[c] = "running" /\ code'[c] = Killed
           /\ c < N /\ Readers(c) = {} /\ c \notin ends
    <3>1. CASE Setup(c) \/ SetupFails(c) \/ Read(c)
      BY <1>0, <3>1 DEF Setup, SetupFails, Read, TypeOK, CommandTypes
    <3>2. CASE Write(c)
      BY <1>0, <3>2 DEF Write, Ends, TypeOK, CommandTypes
    <3>3. CASE Exit(c)
      BY <1>0, <3>3, PipelineAssumption DEF Exit, Ends, TypeOK, CommandTypes, Killed, ExecCode, EXIT_FAILURE, EXIT_SC
    <3> QED
      BY <1>2, <3>1, <3>2, <3>3 DEF CommandStep
  <2>2. code'[c] = Killed /\ child'[c] = "zombie" /\ child[c] = "running" /\ c < N /\ Readers(c) = {} /\ c \notin ends =>
          child[c + 1] \in {"none", "zombie", "reaped"} /\ pc \notin {"pipe", "fork"}
    <3> SUFFICES ASSUME child[c] = "running", c < N, Readers(c) = {}, c \notin ends
                 PROVE  child[c + 1] \in {"none", "zombie", "reaped"} /\ pc \notin {"pipe", "fork"}
      OBVIOUS
    <3>1. c \in Pipes /\ c + 1 \in Commands /\ c \notin reads[c + 1]
      BY <1>0 DEF Readers
    <3>2. child[c + 1] \notin {"setup", "running"}
      BY <1>0, <3>1 DEF OpenInv
    <3>3. pc # "fork" /\ pc # "pipe"
      BY <1>0, <3>1 DEF OpenInv, ChildrenInv
    <3> QED
      BY <1>0, <3>1, <3>2, <3>3 DEF TypeOK, CommandTypes
  <2>3. ASSUME NEW d \in Commands, code'[d] = Killed
        PROVE  d < N /\ child'[d + 1] \in {"none", "zombie", "reaped"} /\ pc' \notin {"pipe", "fork"}
    <3>1. d < N /\ child[d + 1] \in {"none", "zombie", "reaped"} /\ pc \notin {"pipe", "fork"}
      <4>1. CASE d # c \/ code[d] = Killed
        BY <2>0, <2>3, <4>1 DEF KilledInv
      <4>2. CASE d = c /\ code[d] # Killed
        BY <2>1, <2>2, <2>3, <4>2
      <4> QED
        BY <4>1, <4>2
    <3>2. d + 1 \in Commands /\ d + 1 # c
      BY <1>0, <2>1, <3>1
    <3> QED
      BY <2>0, <3>1, <3>2
  <2>4. ASSUME NEW d \in Commands, Ended(d)', code'[d] # Killed PROVE todo'[d] = <<>> /\ eof'[d]
    BY <2>0, <2>1, <2>4 DEF KilledInv, Ended
  <2> QED
    BY <2>3, <2>4 DEF KilledInv
<1> QED
  BY <1>1, <1>2 DEF Next

LEMMA ReturnedNext == Inv /\ ReturnedInv /\ [Next]_vars => ReturnedInv'
<1> SUFFICES ASSUME Inv, ReturnedInv, [Next]_vars PROVE ReturnedInv'
  OBVIOUS
<1>0. TypeOK /\ Error' = Error
  BY WhichKept DEF Inv
<1>1. CASE AllWaited
  <2>1. (result = NoResult /\ forked = N) \/ (result = ERR_EXEC_CMD /\ local)
    BY <1>1 DEF AllWaited, Inv, ResultInv
  <2>2. result = ERR_EXEC_CMD /\ local => result' = Error
    BY <1>1 DEF AllWaited, Return, Error, NoResult, ERR_EXEC_CMD
  <2>3. forked = N => \A c \in Commands : child'[c] = "reaped"
    BY <1>1, PipelineAssumption DEF AllWaited, command, Inv, ChildrenInv, Commands
  <2> QED
    BY <1>0, <2>1, <2>2, <2>3 DEF ReturnedInv
<1>2. CASE MakePipeFails \/ ForkFails
  BY <1>0, <1>2 DEF MakePipeFails, ForkFails, Return, ReturnedInv
<1>3. CASE MakePipe \/ PipesMade \/ Fork \/ CloseEnds \/ Wait
  BY <1>3 DEF MakePipe, PipesMade, Fork, CloseEnds, Wait, ReturnedInv
<1>4. ASSUME NEW c \in Commands, CommandStep(c) PROVE ReturnedInv'
  <2>1. \A d \in Commands : child[d] = "reaped" <=> child'[d] = "reaped"
    BY <1>0, <1>4, ChildKept DEF TypeOK
  <2> QED
    BY <1>0, <1>4, <2>1, OthersKept DEF ReturnedInv
<1>5. CASE UNCHANGED vars
  BY <1>0, <1>5 DEF vars, shell, command, ReturnedInv
<1> QED
  BY <1>1, <1>2, <1>3, <1>4, <1>5 DEF Next, ShellStep

----
(* Sequences. *)

\* A unit that moves from one sequence to the end of the one before it.
LEMMA Moved ==
  ASSUME NEW U, NEW s \in Seq(U), NEW t \in Seq(U), t # <<>>
  PROVE  /\ Append(s, Head(t)) \o Tail(t) = s \o t
         /\ Append(s, Head(t)) \in Seq(U) /\ Tail(t) \in Seq(U) /\ Head(t) \in U
<1>1. Head(t) \in U /\ Tail(t) \in Seq(U) /\ t = <<Head(t)>> \o Tail(t)
  BY HeadTailProperties
<1>2. Append(s, Head(t)) = s \o <<Head(t)>> /\ <<Head(t)>> \in Seq(U)
  BY <1>1, AppendIsConcat
<1>3. (s \o <<Head(t)>>) \o Tail(t) = s \o (<<Head(t)>> \o Tail(t))
  BY <1>1, <1>2, ConcatAssociative
<1> QED
  BY <1>1, <1>2, <1>3

LEMMA AppendJoined ==
  ASSUME NEW U, NEW s \in Seq(U), NEW t \in Seq(U), NEW u \in U
  PROVE  s \o Append(t, u) = Append(s \o t, u)
<1>1. <<u>> \in Seq(U) /\ Append(t, u) = t \o <<u>> /\ s \o t \in Seq(U)
  BY AppendIsConcat, ConcatProperties
<1>2. Append(s \o t, u) = (s \o t) \o <<u>>
  BY <1>1, AppendIsConcat
<1> QED
  BY <1>1, <1>2, ConcatAssociative

LEMMA JoinedAssociative == \A r, s, t \in Seq(Units) : (r \o s) \o t = r \o (s \o t)
BY ConcatAssociative

LEMMA PrefixJoined ==
  ASSUME NEW U, NEW s \in Seq(U), NEW t \in Seq(U) PROVE IsPrefix(s, s \o t)
<1>1. /\ s \o t \in Seq(U) /\ Len(s \o t) = Len(s) + Len(t) /\ Len(s) \in Nat /\ Len(t) \in Nat
      /\ \A i \in 1..(Len(s) + Len(t)) : (s \o t)[i] = IF i <= Len(s) THEN s[i] ELSE t[i - Len(s)]
  BY ConcatProperties
<1>2. SubSeq(s, 1, Len(s)) = SubSeq(s \o t, 1, Len(s))
  BY <1>1
<1> QED
  BY <1>1, <1>2 DEF IsPrefix

LEMMA PrefixTransitive ==
  ASSUME NEW U, NEW r \in Seq(U), NEW s \in Seq(U), NEW t \in Seq(U), IsPrefix(r, s), IsPrefix(s, t)
  PROVE  IsPrefix(r, t)
<1>1. \A p, q \in Seq(U) : IsPrefix(p, q) => Len(p) <= Len(q) /\ \A i \in 1..Len(p) : p[i] = q[i]
  <2> SUFFICES ASSUME NEW p \in Seq(U), NEW q \in Seq(U), IsPrefix(p, q), NEW i \in 1..Len(p) PROVE p[i] = q[i]
    BY DEF IsPrefix
  <2>1. Len(p) <= Len(q) /\ SubSeq(p, 1, Len(p)) = SubSeq(q, 1, Len(p)) /\ Len(p) \in Nat /\ Len(q) \in Nat
    BY DEF IsPrefix
  <2>2. SubSeq(p, 1, Len(p))[i] = p[i] /\ SubSeq(q, 1, Len(p))[i] = q[i]
    BY <2>1
  <2> QED
    BY <2>1, <2>2
<1>2. Len(r) <= Len(t) /\ Len(r) \in Nat /\ Len(s) \in Nat /\ Len(t) \in Nat /\ \A i \in 1..Len(r) : r[i] = t[i]
  BY <1>1
<1>3. SubSeq(r, 1, Len(r)) = SubSeq(t, 1, Len(r))
  BY <1>2
<1> QED
  BY <1>2, <1>3 DEF IsPrefix

\* What begins a sequence and is not empty begins with its first.
LEMMA PrefixHead ==
  ASSUME NEW U, NEW s \in Seq(U), NEW t \in Seq(U), IsPrefix(s, t), Len(s) <= 1
  PROVE  s = <<>> \/ (t # <<>> /\ s = <<Head(t)>>)
<1> SUFFICES ASSUME s # <<>> PROVE t # <<>> /\ s = <<Head(t)>>
  OBVIOUS
<1>0. Len(s) = 1
  <2>1. Len(s) \in Nat \ {0} /\ Len(s) <= 1
    BY EmptySeq, Zenon
  <2>2. \A n \in Nat \ {0} : n <= 1 => n = 1
    OBVIOUS
  <2> QED
    BY <2>1, <2>2, Zenon
<1>1. Len(t) >= 1 /\ Len(t) \in Nat /\ SubSeq(s, 1, 1) = SubSeq(t, 1, 1)
  BY <1>0 DEF IsPrefix
<1>2. SubSeq(s, 1, 1)[1] = s[1] /\ SubSeq(t, 1, 1)[1] = t[1]
  BY <1>0, <1>1
<1>3. s = <<s[1]>> /\ t # <<>> /\ Head(t) = t[1]
  BY <1>0, <1>1
<1> QED
  BY <1>1, <1>2, <1>3

LEMMA PrefixEmpty ==
  ASSUME NEW U, NEW t \in Seq(U) PROVE IsPrefix(<<>>, t) /\ IsPrefix(t, t)
<1>1. <<>> \in Seq(U) /\ <<>> \o t = t /\ t \o <<>> = t
  BY ConcatEmptySeq
<1> QED
  BY <1>1, PrefixJoined
----
(* The streams. *)

LEMMA Facts ==
  ASSUME Inv
  PROVE  /\ TypeOK /\ N \in Nat \ {0} /\ Commands = 1..N /\ Pipes = 1..(N - 1) /\ N \in Commands
         /\ Data \in Seq(Units) /\ held \in Seq(Units) /\ shown \in Seq(Units)
         /\ \A c \in Commands : /\ todo[c] \in Seq(Units) /\ kind[c] \in Kinds \cup {"broken"}
                                /\ Takes(c) => c - 1 \in Commands /\ c - 1 \in Pipes
         /\ \A j \in Pipes : pipe[j] \in Seq(Units)
<1>1. /\ TypeOK /\ N \in Nat \ {0} /\ Commands = 1..N /\ Pipes = 1..(N - 1)
      /\ Data \in Seq(Units) /\ held \in Seq(Units) /\ shown \in Seq(Units)
  BY PipelineAssumption DEF Inv, TypeOK, ShellTypes, DataTypes, Commands, Pipes
<1>2. /\ \A c \in Commands : todo[c] \in Seq(Units) /\ kind[c] \in Kinds \cup {"broken"}
      /\ \A j \in Pipes : pipe[j] \in Seq(Units)
  BY <1>1 DEF TypeOK, CommandTypes, DataTypes
<1>3. ~Takes(1)
  BY DEF Inv, FirstInv, Takes
<1> QED
  BY <1>1, <1>2, <1>3

\* What a command gets and where it goes, when neither changes.
LEMMA FlowKept ==
  ASSUME NEW c \in Commands, NEW got, NEW gat, Flows(c, got), gat[c] = got[c], todo'[c] = todo[c],
         c = N => shown' = shown,
         c # N => Taken(c + 1, gat)' = Taken(c + 1, got) /\ pipe'[c] = pipe[c]
  PROVE  Flows(c, gat)'
BY DEF Flows

LEMMA MakesKept ==
  ASSUME NEW c \in Commands, NEW got, NEW gat, Makes(c, got), gat[c] = got[c],
         kind'[c] = kind[c], eof'[c] = eof[c], held' = held, Began(c)' <=> Began(c),
         Takes(c) /\ AtEnd(c) => AtEnd(c)'
  PROVE  Makes(c, gat)'
BY DEF Makes, Takes

LEMMA TakenKept ==
  ASSUME NEW c, NEW got, NEW gat, gat[c] = got[c], kind'[c] = kind[c]
  PROVE  Taken(c, gat)' = Taken(c, got)
BY DEF Taken, Takes

LEMMA StreamShell ==
  ASSUME Inv, StreamInv, ShellStep \/ UNCHANGED vars PROVE StreamInv'
<1>1. PICK got \in [Commands -> Seq(Units)] : \A c \in Commands : Flows(c, got) /\ Makes(c, got)
  BY DEF StreamInv
<1>2. /\ UNCHANGED <<which, kind, todo, eof, code, pipe, shown>>
      /\ \A c \in Commands : (Began(c)' <=> Began(c)) /\ (Ended(c)' <=> Ended(c))
  BY ShellKeeps DEF Inv
<1>3. ASSUME NEW c \in Commands PROVE Flows(c, got)' /\ Makes(c, got)'
  <2>1. Flows(c, got)'
    BY <1>1, <1>2, TakenKept, FlowKept
  <2>2. Takes(c) /\ AtEnd(c) => AtEnd(c)'
    BY <1>2, Facts DEF AtEnd
  <2> QED
    BY <1>1, <1>2, <2>1, <2>2, MakesKept DEF which
<1> QED
  BY <1>1, <1>3 DEF StreamInv

\* A command's step that does not touch the pipes: it begins or ends.
LEMMA StreamBegins ==
  ASSUME Inv, StreamInv, NEW c \in Commands, Setup(c) \/ SetupFails(c) PROVE StreamInv'
<1>0. CommandStep(c)
  BY DEF CommandStep
<1>1. PICK got \in [Commands -> Seq(Units)] : \A d \in Commands : Flows(d, got) /\ Makes(d, got)
  BY DEF StreamInv
<1>2. /\ UNCHANGED <<which, held, pipe, shown>> /\ child[c] = "setup" /\ child'[c] = "running" /\ code'[c] = code[c]
      /\ kind'[c] \in {kind[c], "broken"}
      /\ todo'[c] = IF kind'[c] = "source" THEN Data ELSE IF kind'[c] = "broken" THEN held ELSE <<>>
      /\ eof'[c] = (kind'[c] \in {"source", "silent", "broken"})
  <2>1. ~Began(c)
    BY DEF Setup, SetupFails, Began
  <2>2. kind[c] # "broken"
    BY <1>1, <2>1 DEF Makes
  <2>3. CASE Setup(c)
    BY <2>2, <2>3 DEF Setup, shell, which, Inv, TypeOK, CommandTypes, DataTypes
  <2>4. CASE SetupFails(c)
    BY <2>4 DEF SetupFails, shell, which, Inv, TypeOK, CommandTypes, DataTypes
  <2> QED
    BY <2>3, <2>4
<1>3. \A d \in Commands \ {c} : /\ child'[d] = child[d] /\ kind'[d] = kind[d]
                                /\ todo'[d] = todo[d] /\ eof'[d] = eof[d] /\ code'[d] = code[d]
  BY <1>0, OthersKept, Facts
<1>4. got[c] = <<>> /\ ~Began(c) /\ Began(c)' /\ ~Ended(c) /\ ~Ended(c)' /\ kind[c] # "broken"
  BY <1>1, <1>2 DEF Began, Ended, Makes
<1>5. PICK gat \in [Commands -> Seq(Units)] : gat[c] = todo'[c] /\ \A d \in Commands \ {c} : gat[d] = got[d]
  <2>1. [got EXCEPT ![c] = todo'[c]] \in [Commands -> Seq(Units)]
    BY <1>1, <1>2, Facts
  <2> QED
    BY <1>1, <2>1
<1>6. Flows(c, gat)'
  <2>1. CASE c = N
    <3>1. shown \o todo[c] = <<>> /\ shown \in Seq(Units) /\ todo[c] \in Seq(Units)
      BY <1>1, <1>4, <2>1, Facts DEF Flows
    <3>2. shown = <<>>
      BY <3>1, ConcatEqualIffEmpty
    <3>3. todo'[c] \in Seq(Units) /\ <<>> \o todo'[c] = todo'[c]
      BY <1>2, Facts, ConcatEmptySeq
    <3> QED
      BY <1>2, <1>5, <2>1, <3>2, <3>3 DEF Flows
  <2>2. CASE c # N
    <3>1. c + 1 \in Commands \ {c} /\ c \in Pipes
      BY <2>2, Facts
    <3>2. Taken(c + 1, got) \in Seq(Units)
      BY <1>1, <3>1 DEF Taken
    <3>3. Taken(c + 1, got) \o pipe[c] \in Seq(Units)
      BY <3>1, <3>2, Facts, ConcatProperties
    <3>4. Taken(c + 1, got) \o pipe[c] = <<>>
      <4>1. (Taken(c + 1, got) \o pipe[c]) \o todo[c] = <<>> /\ todo[c] \in Seq(Units)
        BY <1>1, <1>4, <2>2, Facts DEF Flows
      <4> QED
        BY <3>3, <4>1, ConcatEqualIffEmpty
    <3>5. Taken(c + 1, gat)' = Taken(c + 1, got)
      BY <1>3, <1>5, <3>1, TakenKept
    <3>6. todo'[c] \in Seq(Units) /\ <<>> \o todo'[c] = todo'[c]
      BY <1>2, Facts, ConcatEmptySeq
    <3> QED
      BY <1>2, <1>5, <2>2, <3>4, <3>5, <3>6 DEF Flows
  <2> QED
    BY <2>1, <2>2
<1>7. Taken(c, gat)' = <<>> /\ Taken(c, got) = <<>>
  BY <1>2, <1>4, <1>5 DEF Taken, Takes
<1>8. ASSUME NEW d \in Commands \ {c} PROVE Flows(d, gat)'
  <2>1. d # N => d + 1 \in Commands
    BY Facts
  <2>2. d # N => Taken(d + 1, gat)' = Taken(d + 1, got)
    BY <1>3, <1>5, <1>7, <2>1, TakenKept
  <2> QED
    BY <1>1, <1>2, <1>3, <1>5, <2>2, FlowKept
<1>9. Makes(c, gat)'
  <2>1. kind'[c] \in {"source", "silent", "broken", "copy", "head"}
    BY <1>2, Facts DEF Kinds
  <2>2. CASE kind'[c] \in {"source", "silent", "broken"}
    BY <1>2, <1>4, <1>5, <2>2 DEF Makes, Takes
  <2>3. CASE kind'[c] \in {"copy", "head"}
    <3>0. kind'[c] \notin {"source", "silent", "broken"} /\ kind'[c] # "source" /\ kind'[c] # "broken"
      BY <2>3
    <3>1. ~eof'[c] /\ gat[c] = <<>> /\ Len(gat[c]) <= 1
      <4>1. ~eof'[c]
        BY <1>2, <3>0, Zenon
      <4>2. gat[c] = <<>>
        BY <1>2, <1>5, <3>0, Zenon
      <4> QED
        BY <4>1, <4>2
    <3>2. Takes(c)' /\ kind'[c] \notin {"source", "silent", "broken"}
      BY <2>3 DEF Takes
    <3> QED
      BY <1>4, <3>1, <3>2 DEF Makes
  <2> QED
    BY <2>1, <2>2, <2>3
<1>10. ASSUME NEW d \in Commands \ {c} PROVE Makes(d, gat)'
  <2>1. Takes(d) /\ AtEnd(d) => AtEnd(d)'
    BY <1>2, <1>3, <1>4, Facts DEF AtEnd, Ended
  <2> QED
    BY <1>1, <1>2, <1>3, <1>5, <2>1, MakesKept DEF Began
<1> QED
  BY <1>5, <1>6, <1>8, <1>9, <1>10 DEF StreamInv

\* What another command has made, when its input has not lost its end.
LEMMA MakesOthers ==
  ASSUME Inv, NEW c \in Commands, CommandStep(c), child[c] = "running", NEW d \in Commands \ {c},
         NEW got, NEW gat, Makes(d, got), gat[d] = got[d], d - 1 \in Pipes /\ d - 1 # c => pipe'[d - 1] = pipe[d - 1]
  PROVE  Makes(d, gat)'
<1>1. /\ UNCHANGED which /\ child'[d] = child[d] /\ kind'[d] = kind[d] /\ eof'[d] = eof[d]
      /\ \A e \in Commands \ {c} : child'[e] = child[e] /\ code'[e] = code[e]
  BY OthersKept, Facts
<1>2. ASSUME Takes(d), AtEnd(d) PROVE AtEnd(d)'
  <2>1. d - 1 \in Commands /\ d - 1 \in Pipes
    BY <1>2, Facts
  <2>2. d - 1 # c
    BY <1>2 DEF AtEnd, Ended
  <2> QED
    BY <1>1, <1>2, <2>1, <2>2 DEF AtEnd, Ended
<1> QED
  BY <1>1, <1>2, MakesKept DEF which, Began

\* A reader finds the end only after the command before it, which has written
\* all it had.
LEMMA EndFound ==
  ASSUME Inv, OpenInv, OrderInv, KilledInv, NEW c \in Commands, child[c] = "running", Takes(c),
         pipe[c - 1] = <<>>, Writers(c - 1) = {}
  PROVE  AtEnd(c)
<1>0. c \in 1..N /\ N \in Nat /\ c - 1 \in Commands /\ c - 1 \in Pipes /\ c - 1 \in 1..N
  BY Facts
<1>1. c - 1 \in 1..c /\ c - 1 < N /\ (c - 1) + 1 = c
  BY <1>0
<1>2. child[c - 1] # "none"
  BY <1>0, <1>1 DEF OrderInv
<1>3. child[c - 1] \notin {"setup", "running"}
  BY <1>0, <1>1 DEF OpenInv, Writers
<1>4. code[c - 1] # Killed
  BY <1>0, <1>1 DEF KilledInv
<1>5. child[c - 1] \in {"none", "setup", "running", "zombie", "reaped"}
  BY <1>0, Facts DEF TypeOK, CommandTypes
<1> QED
  BY <1>2, <1>3, <1>4, <1>5 DEF AtEnd, Ended

LEMMA StreamReads ==
  ASSUME Inv, OpenInv, OrderInv, KilledInv, StreamInv, NEW c \in Commands, Read(c) PROVE StreamInv'
<1>0. CommandStep(c) /\ child[c] = "running" /\ Began(c) /\ Began(c)' /\ child'[c] = "running"
  BY DEF CommandStep, Read, Began
<1>1. PICK got \in [Commands -> Seq(Units)] : \A d \in Commands : Flows(d, got) /\ Makes(d, got)
  BY DEF StreamInv
<1>2. /\ UNCHANGED <<which, held, shown>> /\ kind'[c] = kind[c] /\ ~eof[c] /\ todo[c] = <<>>
      /\ \A d \in Commands \ {c} : kind'[d] = kind[d] /\ todo'[d] = todo[d] /\ child'[d] = child[d] /\ code'[d] = code[d]
  BY <1>0, OthersKept, Facts DEF Read, which
<1>3. Takes(c) /\ kind[c] \in {"copy", "head"} /\ kind[c] \notin {"source", "silent", "broken"}
  BY <1>0, <1>1, <1>2 DEF Makes, Takes
<1>4. c - 1 \in Commands \ {c} /\ c - 1 \in Pipes /\ c - 1 # N /\ (c - 1) + 1 = c
  <2>1. c \in 1..N /\ N \in Nat /\ c - 1 \in Commands /\ c - 1 \in Pipes /\ c - 1 \in 1..(N - 1)
    BY <1>3, Facts
  <2> QED
    BY <2>1
<1>5. CASE /\ pipe[c - 1] # <<>>
           /\ todo' = [todo EXCEPT ![c] = <<Head(pipe[c - 1])>>]
           /\ pipe' = [pipe EXCEPT ![c - 1] = Tail(@)]
           /\ eof' = [eof EXCEPT ![c] = kind[c] = "head"]
  <2>1. /\ todo'[c] = <<Head(pipe[c - 1])>> /\ pipe'[c - 1] = Tail(pipe[c - 1])
        /\ \A j \in Pipes \ {c - 1} : pipe'[j] = pipe[j]
        /\ eof'[c] = (kind[c] = "head")
    BY <1>4, <1>5, Facts DEF TypeOK, CommandTypes, DataTypes
  <2>2. /\ got[c] \in Seq(Units) /\ pipe[c - 1] \in Seq(Units) /\ Head(pipe[c - 1]) \in Units
        /\ Append(got[c], Head(pipe[c - 1])) \in Seq(Units)
        /\ Append(got[c], Head(pipe[c - 1])) \o Tail(pipe[c - 1]) = got[c] \o pipe[c - 1]
    <3>1. got[c] \in Seq(Units) /\ pipe[c - 1] \in Seq(Units)
      BY <1>1, <1>4, Facts
    <3> QED
      BY <1>5, <3>1, Moved
  <2>3. PICK gat \in [Commands -> Seq(Units)] :
          gat[c] = Append(got[c], Head(pipe[c - 1])) /\ \A d \in Commands \ {c} : gat[d] = got[d]
    <3>1. [got EXCEPT ![c] = Append(got[c], Head(pipe[c - 1]))] \in [Commands -> Seq(Units)]
      BY <1>1, <2>2
    <3> QED
      BY <1>1, <3>1
  <2>4. gat[c] = got[c] \o todo'[c]
    BY <2>1, <2>2, <2>3, AppendIsConcat
  <2>5. Flows(c, gat)'
    <3>1. \A s \in Seq(Units) : s \o <<>> = s
      BY ConcatEmptySeq
    <3>2. CASE c = N
      <4>1. got[c] = shown
        BY <1>1, <1>2, <3>1, <3>2, Facts DEF Flows
      <4> QED
        BY <1>2, <2>4, <3>2, <4>1 DEF Flows
    <3>3. CASE c # N
      <4>1. c + 1 \in Commands \ {c} /\ c \in Pipes /\ c # c - 1
        BY <3>3, Facts
      <4>2. Taken(c + 1, got) \in Seq(Units)
        BY <1>1, <4>1 DEF Taken
      <4>3. Taken(c + 1, got) \o pipe[c] \in Seq(Units)
        BY <4>1, <4>2, Facts, ConcatProperties
      <4>4. got[c] = Taken(c + 1, got) \o pipe[c]
        BY <1>1, <1>2, <3>1, <3>3, <4>3 DEF Flows
      <4>5. Taken(c + 1, gat)' = Taken(c + 1, got)
        BY <1>2, <2>3, <4>1, TakenKept
      <4>6. pipe'[c] = pipe[c]
        BY <2>1, <4>1
      <4> QED
        BY <2>4, <3>3, <4>4, <4>5, <4>6 DEF Flows
    <3> QED
      BY <3>2, <3>3
  <2>6. Flows(c - 1, gat)'
    <3>1. Taken(c, got) = got[c] /\ Taken(c, gat)' = gat[c]
      BY <1>2, <1>3 DEF Taken, Takes
    <3>2. got[c - 1] = (got[c] \o pipe[c - 1]) \o todo[c - 1]
      BY <1>1, <1>4, <3>1 DEF Flows
    <3>3. gat[c - 1] = got[c - 1] /\ todo'[c - 1] = todo[c - 1]
      BY <1>2, <1>4, <2>3
    <3>4. gat[c - 1] = (gat[c] \o pipe'[c - 1]) \o todo'[c - 1]
      BY <2>1, <2>2, <2>3, <3>2, <3>3
    <3> QED
      BY <1>4, <3>1, <3>4 DEF Flows
  <2>7. ASSUME NEW d \in Commands \ {c, c - 1} PROVE Flows(d, gat)'
    <3>1. d # N => d + 1 \in Commands \ {c} /\ d \in Pipes \ {c - 1}
      <4>1. d \in 1..N /\ c \in 1..N /\ N \in Nat /\ Commands = 1..N /\ Pipes = 1..(N - 1) /\ d # c - 1
        BY Facts
      <4> QED
        BY <4>1
    <3>2. d # N => Taken(d + 1, gat)' = Taken(d + 1, got)
      BY <1>2, <2>3, <3>1, TakenKept
    <3> QED
      BY <1>1, <1>2, <2>1, <2>3, <3>1, <3>2, FlowKept
  <2>8. Makes(c, gat)'
    <3>1. Len(gat[c]) = Len(got[c]) + 1 /\ Len(got[c]) \in Nat
      BY <2>2, <2>3, AppendProperties, LenProperties
    <3>2. gat[c] # <<>>
      BY <3>1
    <3>3. CASE kind[c] = "head"
      <4>1. got[c] = <<>>
        BY <1>0, <1>1, <1>2, <3>3 DEF Makes
      <4>2. Len(gat[c]) <= 1
        BY <3>1, <4>1
      <4>3. eof'[c]
        BY <2>1, <3>3
      <4> QED
        BY <1>0, <1>2, <1>3, <3>2, <3>3, <4>2, <4>3 DEF Makes, Takes
    <3>4. CASE kind[c] = "copy"
      <4>1. ~eof'[c]
        BY <2>1, <3>4
      <4> QED
        BY <1>0, <1>2, <1>3, <3>4, <4>1 DEF Makes, Takes
    <3> QED
      BY <1>3, <3>3, <3>4
  <2>9. ASSUME NEW d \in Commands \ {c} PROVE Makes(d, gat)'
    <3>1. d - 1 \in Pipes => pipe'[d - 1] = pipe[d - 1]
      BY <1>4, <2>1, Facts
    <3> QED
      BY <1>0, <1>1, <2>3, <3>1, MakesOthers
  <2> QED
    BY <2>3, <2>5, <2>6, <2>7, <2>8, <2>9 DEF StreamInv
<1>6. CASE /\ pipe[c - 1] = <<>> /\ Writers(c - 1) = {} /\ c - 1 \notin ends
           /\ eof' = [eof EXCEPT ![c] = TRUE]
           /\ UNCHANGED <<todo, pipe>>
  <2>1. AtEnd(c) /\ AtEnd(c)'
    <3>1. AtEnd(c)
      BY <1>0, <1>3, <1>6, EndFound
    <3> QED
      BY <1>2, <1>4, <1>6, <3>1 DEF AtEnd, Ended
  <2>2. ASSUME NEW d \in Commands PROVE Flows(d, got)'
    <3>1. d # N => d + 1 \in Commands
      BY Facts
    <3>2. d # N => Taken(d + 1, got)' = Taken(d + 1, got)
      BY <1>2, <3>1, TakenKept
    <3> QED
      BY <1>1, <1>2, <1>6, <3>2, FlowKept
  <2>3. Makes(c, got)'
    <3>1. eof'[c] /\ (kind[c] = "head" => Len(got[c]) <= 1)
      BY <1>0, <1>1, <1>6, Facts DEF TypeOK, CommandTypes, Makes
    <3> QED
      BY <1>0, <1>2, <1>3, <2>1, <3>1 DEF Makes, Takes
  <2>4. ASSUME NEW d \in Commands \ {c} PROVE Makes(d, got)'
    BY <1>0, <1>1, <1>6, MakesOthers
  <2> QED
    BY <1>1, <2>2, <2>3, <2>4 DEF StreamInv
<1> QED
  BY <1>5, <1>6 DEF Read

\* A command writes a unit, is killed for want of a reader, or ends.
LEMMA StreamWrites ==
  ASSUME Inv, StreamInv, NEW c \in Commands, Write(c) \/ Exit(c) PROVE StreamInv'
<1>0. CommandStep(c) /\ child[c] = "running" /\ Began(c)
  BY DEF CommandStep, Write, Exit, Began
<1>1. PICK got \in [Commands -> Seq(Units)] : \A d \in Commands : Flows(d, got) /\ Makes(d, got)
  BY DEF StreamInv
<1>2. /\ UNCHANGED <<which, held>> /\ kind' = kind /\ eof' = eof /\ Began(c)'
      /\ \A d \in Commands \ {c} : todo'[d] = todo[d] /\ child'[d] = child[d] /\ code'[d] = code[d]
      /\ \A j \in Pipes \ {c} : pipe'[j] = pipe[j]
      /\ c # N => shown' = shown
  <2>1. child'[c] \in {"running", "zombie"} /\ kind' = kind /\ eof' = eof
    BY <1>0, Facts DEF Write, Exit, Ends, TypeOK, CommandTypes
  <2>2. (\A j \in Pipes \ {c} : pipe'[j] = pipe[j]) /\ (c # N => shown' = shown)
    BY Facts DEF Write, Exit, TypeOK, DataTypes
  <2> QED
    BY <1>0, <2>1, <2>2, OthersKept, Facts DEF which, Began
<1>3. ASSUME NEW d \in Commands PROVE Taken(d, got)' = Taken(d, got)
  BY <1>2, TakenKept
<1>4. Flows(c, got)'
  <2>0. \A s, t \in Seq(Units) : t # <<>> => Append(s, Head(t)) \o Tail(t) = s \o t
    BY Moved, Zenon
  <2>00. \A s, t \in Seq(Units), u \in Units : s \o Append(t, u) = Append(s \o t, u)
    BY AppendJoined
  <2>1. CASE UNCHANGED <<todo, pipe, shown>>
    <3>1. c # N => c + 1 \in Commands
      BY Facts
    <3> QED
      BY <1>1, <1>3, <2>1, <3>1, FlowKept
  <2>2. CASE todo[c] # <<>> /\ c = N /\ shown' = Append(shown, Head(todo[c])) /\ todo' = [todo EXCEPT ![c] = Tail(@)]
    <3>1. todo'[c] = Tail(todo[c]) /\ todo[c] \in Seq(Units) /\ shown \in Seq(Units)
      BY <2>2, Facts DEF TypeOK, DataTypes
    <3>2. Append(shown, Head(todo[c])) \o Tail(todo[c]) = shown \o todo[c]
      BY <2>0, <2>2, <3>1
    <3> QED
      BY <1>1, <2>2, <3>1, <3>2 DEF Flows
  <2>3. CASE /\ todo[c] # <<>> /\ c < N /\ pipe' = [pipe EXCEPT ![c] = Append(@, Head(todo[c]))]
             /\ todo' = [todo EXCEPT ![c] = Tail(@)]
    <3>1. c \in Pipes /\ c # N /\ c + 1 \in Commands
      BY <2>3, Facts
    <3>2. /\ todo'[c] = Tail(todo[c]) /\ pipe'[c] = Append(pipe[c], Head(todo[c]))
          /\ todo[c] \in Seq(Units) /\ pipe[c] \in Seq(Units) /\ Taken(c + 1, got) \in Seq(Units)
      BY <1>1, <2>3, <3>1, Facts DEF TypeOK, DataTypes, Taken
    <3>3. Head(todo[c]) \in Units /\ Taken(c + 1, got) \o pipe[c] \in Seq(Units)
      BY <2>3, <3>2, HeadTailProperties, ConcatProperties
    <3>4. Taken(c + 1, got) \o Append(pipe[c], Head(todo[c])) = Append(Taken(c + 1, got) \o pipe[c], Head(todo[c]))
      BY <2>00, <3>2, <3>3
    <3>5. Append(Taken(c + 1, got) \o pipe[c], Head(todo[c])) \o Tail(todo[c]) = (Taken(c + 1, got) \o pipe[c]) \o todo[c]
      BY <2>0, <2>3, <3>2, <3>3
    <3> QED
      BY <1>1, <1>3, <3>1, <3>2, <3>4, <3>5 DEF Flows
  <2> QED
    BY <2>1, <2>2, <2>3 DEF Write, Exit
<1>5. ASSUME NEW d \in Commands \ {c} PROVE Flows(d, got)'
  <2>1. d # N => d + 1 \in Commands /\ d \in Pipes \ {c}
    BY Facts
  <2> QED
    BY <1>1, <1>2, <1>3, <2>1, Facts, FlowKept
<1>6. Makes(c, got)'
  <2>1. ASSUME Takes(c), AtEnd(c) PROVE AtEnd(c)'
    <3>1. c - 1 \in Commands \ {c} /\ c - 1 \in Pipes \ {c}
      BY <2>1, Facts
    <3> QED
      BY <1>2, <2>1, <3>1 DEF AtEnd, Ended
  <2> QED
    BY <1>0, <1>1, <1>2, <2>1, MakesKept
<1>7. ASSUME NEW d \in Commands \ {c} PROVE Makes(d, got)'
  BY <1>0, <1>1, <1>2, MakesOthers
<1> QED
  BY <1>1, <1>4, <1>5, <1>6, <1>7 DEF StreamInv

FlowInv == OpenInv /\ OrderInv /\ KilledInv /\ ReturnedInv /\ StreamInv

LEMMA StreamNext == Inv /\ OpenInv /\ OrderInv /\ KilledInv /\ StreamInv /\ [Next]_vars => StreamInv'
BY StreamShell, StreamBegins, StreamReads, StreamWrites DEF Next, CommandStep

LEMMA FlowInit == Init => FlowInv
<1> SUFFICES ASSUME Init PROVE FlowInv
  OBVIOUS
<1>0. /\ N \in Nat \ {0} /\ pc = "pipe" /\ ends = {} /\ next = 1 /\ shown = <<>>
      /\ \A c \in Commands : /\ child[c] = "none" /\ code[c] = NoCode /\ todo[c] = <<>> /\ kind[c] \in Kinds
                             /\ c # N => c \in Pipes
      /\ \A j \in Pipes : pipe[j] = <<>>
  BY PipelineAssumption DEF Init, Commands, Pipes
<1>1. OpenInv /\ OrderInv /\ KilledInv /\ ReturnedInv
  BY <1>0 DEF OpenInv, OrderInv, KilledInv, ReturnedInv, Ended, NoCode, Killed
<1>2. StreamInv
  <2> DEFINE got == [c \in Commands |-> <<>>]
  <2>1. got \in [Commands -> Seq(Units)] /\ \A c \in Commands : got[c] = <<>>
    OBVIOUS
  <2> HIDE DEF got
  <2>2. <<>> \o <<>> = <<>>
    BY ConcatEmptySeq
  <2>3. ASSUME NEW c \in Commands PROVE Flows(c, got) /\ Makes(c, got)
    <3>1. c # N => c + 1 \in Commands
      BY <1>0 DEF Commands
    <3>2. Taken(c + 1, got) = <<>> \/ c = N
      BY <2>1, <3>1 DEF Taken
    <3>3. Flows(c, got)
      BY <1>0, <2>1, <2>2, <3>2 DEF Flows
    <3>4. Makes(c, got)
      BY <1>0, <2>1 DEF Makes, Began, Kinds
    <3> QED
      BY <3>3, <3>4
  <2> QED
    BY <2>1, <2>3 DEF StreamInv
<1> QED
  BY <1>1, <1>2 DEF FlowInv

LEMMA FlowCorrect == Spec => []FlowInv
<1>1. Inv /\ FlowInv /\ [Next]_vars => FlowInv'
  BY OpenNext, OrderNext, KilledNext, ReturnedNext, StreamNext DEF FlowInv
<1> QED
  BY <1>1, FlowInit, InvCorrect, PTL DEF Spec

----
(* What is promised. *)

\* Induction up to a number, for a set.
LEMMA UpTo ==
  ASSUME NEW n \in Nat, NEW S, 0 \in S, \A c \in 1..n : c - 1 \in S => c \in S
  PROVE  0..n \subseteq S
<1> DEFINE T == (0..n) \ S
           R == OpToRel(<, Nat)
<1>1. SUFFICES ASSUME T # {} PROVE FALSE
  OBVIOUS
<1>2. IsWellFoundedOn(R, Nat)
  BY NatLessThanWellFounded
<1>3. \A x \in Nat \ {0} : <<x - 1, x>> \in R
  BY DEF OpToRel
<1> HIDE DEF R
<1>4. PICK x \in T : \A y \in T : ~(<<y, x>> \in R)
  <2>1. T \subseteq Nat
    OBVIOUS
  <2> HIDE DEF T
  <2> QED
    BY <1>1, <1>2, <2>1, WFMin
<1>5. x - 1 \in 0..n /\ x \in 1..n /\ x \in Nat \ {0}
  BY <1>4
<1>6. x - 1 \in S
  BY <1>3, <1>4, <1>5
<1> QED
  BY <1>4, <1>5, <1>6

\* Promised is what its definition says of it.
Body(p, c) ==
    IF c = 0 THEN <<>>
    ELSE CASE kind[c] = "source" -> Data
           [] kind[c] = "silent" -> <<>>
           [] kind[c] = "broken" -> held
           [] kind[c] = "copy"   -> p[c - 1]
           [] kind[c] = "head"   -> IF p[c - 1] = <<>> THEN <<>> ELSE <<Head(p[c - 1])>>

LEMMA PromisedIs ==
  ASSUME TypeOK
  PROVE  \A c \in 0..N : Promised[c] = Body(Promised, c) /\ Promised[c] \in Seq(Units)
<1>0. N \in Nat \ {0} /\ Data \in Seq(Units) /\ held \in Seq(Units)
      /\ \A c \in 1..N : kind[c] \in Kinds \cup {"broken"}
  BY PipelineAssumption DEF TypeOK, ShellTypes, CommandTypes, Commands
<1>1. ASSUME NEW c \in 0..N, NEW p, c # 0 => p[c - 1] \in Seq(Units)
      PROVE  Body(p, c) \in Seq(Units)
  <2>1. CASE c = 0
    BY <2>1 DEF Body
  <2>2. CASE c # 0
    <3>1. p[c - 1] # <<>> => Head(p[c - 1]) \in Units
      BY <1>1, <2>2
    <3>2. kind[c] \in Kinds \cup {"broken"}
      BY <1>0, <2>2
    <3> QED
      BY <1>0, <1>1, <2>2, <3>1, <3>2 DEF Body, Kinds
  <2> QED
    BY <2>1, <2>2
<1> DEFINE Fits(p, n) == \A c \in 0..n : p[c] = Body(p, c) /\ p[c] \in Seq(Units)
           S == {n \in 0..N : \E p : p = [c \in 0..n |-> p[c]] /\ Fits(p, n)}
<1>2. 0 \in S
  <2> DEFINE p == [c \in 0..0 |-> <<>>]
  <2>1. p = [c \in 0..0 |-> p[c]] /\ Fits(p, 0)
    BY DEF Body
  <2> HIDE DEF p, Fits
  <2> QED
    BY <1>0, <2>1
<1>3. ASSUME NEW n \in 1..N, n - 1 \in S PROVE n \in S
  <2>1. PICK p : p = [c \in 0..(n - 1) |-> p[c]] /\ Fits(p, n - 1)
    BY <1>3
  <2> DEFINE q == [c \in 0..n |-> IF c < n THEN p[c] ELSE Body(p, n)]
  <2>0. n \in Nat /\ n - 1 \in 0..(n - 1) /\ n \in 0..N
    BY <1>0
  <2>2. p[n - 1] \in Seq(Units)
    BY <2>0, <2>1
  <2>3. Body(p, n) \in Seq(Units)
    BY <1>0, <1>1, <2>2
  <2>4. ASSUME NEW c \in 0..n PROVE Body(q, c) = Body(p, c) /\ q[c] = Body(p, c) /\ q[c] \in Seq(Units)
    <3>1. c # 0 => q[c - 1] = p[c - 1]
      BY <1>0
    <3>2. c < n => c \in 0..(n - 1) /\ q[c] = p[c]
      BY <2>0
    <3>3. ~(c < n) => c = n /\ q[c] = Body(p, n)
      BY <2>0
    <3> HIDE DEF q
    <3>4. Body(q, c) = Body(p, c)
      BY <3>1 DEF Body
    <3> QED
      BY <2>1, <2>3, <3>2, <3>3, <3>4
  <2>6. q = [c \in 0..n |-> q[c]]
    OBVIOUS
  <2> HIDE DEF q
  <2>7. Fits(q, n)
    BY <2>4
  <2> QED
    BY <2>0, <2>6, <2>7
<1>4. N \in S
  <2> HIDE DEF S
  <2>1. 0..N \subseteq S
    BY <1>0, <1>2, <1>3, UpTo
  <2> QED
    BY <1>0, <2>1
<1>5. PICK p : p = [c \in 0..N |-> p[c]] /\ Fits(p, N)
  BY <1>4
<1>6. p = [c \in 0..N |-> Body(p, c)]
  BY <1>5
<1>7. Promised = [c \in 0..N |-> Body(Promised, c)]
  BY <1>6 DEF Promised, Body
<1>8. \A c \in 0..N : Promised[c] = Body(Promised, c)
  BY <1>7
<1> DEFINE P == {c \in 0..N : Promised[c] \in Seq(Units)}
<1>9. \A c \in 0..N : (c # 0 => Promised[c - 1] \in Seq(Units)) => c \in P
  BY <1>1, <1>8
<1>10. 0 \in P /\ \A c \in 1..N : c - 1 \in P => c \in P
  BY <1>0, <1>9
<1>11. 0..N \subseteq P
  <2> HIDE DEF P
  <2> QED
    BY <1>0, <1>10, UpTo
<1> QED
  BY <1>8, <1>11

\* A reader has read a beginning of what the command before it has to write; all
\* of it, when it has found the end.
LEMMA ReadsBeginning ==
  ASSUME Inv, KilledInv, NEW got \in [Commands -> Seq(Units)], NEW c \in Commands, Takes(c), Flows(c - 1, got)
  PROVE  /\ c - 1 \in Commands /\ IsPrefix(got[c], got[c - 1])
         /\ AtEnd(c) => got[c - 1] = got[c] /\ code[c - 1] # Killed
<1>1. c - 1 \in Commands /\ c - 1 \in Pipes /\ c - 1 # N /\ (c - 1) + 1 = c
  BY Facts
<1>2. got[c] \in Seq(Units) /\ pipe[c - 1] \in Seq(Units) /\ todo[c - 1] \in Seq(Units)
  BY <1>1, Facts
<1>3. got[c - 1] = (got[c] \o pipe[c - 1]) \o todo[c - 1]
  BY <1>1 DEF Flows, Taken
<1>4. got[c - 1] = got[c] \o (pipe[c - 1] \o todo[c - 1]) /\ pipe[c - 1] \o todo[c - 1] \in Seq(Units)
  <2>1. pipe[c - 1] \o todo[c - 1] \in Seq(Units)
    BY <1>2, ConcatProperties
  <2>2. (got[c] \o pipe[c - 1]) \o todo[c - 1] = got[c] \o (pipe[c - 1] \o todo[c - 1])
    <3>1. pipe \in [Pipes -> Seq(Units)] /\ todo \in [Commands -> Seq(Units)]
      BY Facts DEF TypeOK, DataTypes
    <3> QED
      BY <1>1, <1>2, <3>1, JoinedAssociative
  <2> QED
    BY <1>3, <2>1, <2>2
<1>5. IsPrefix(got[c], got[c] \o (pipe[c - 1] \o todo[c - 1]))
  BY <1>2, <1>4, PrefixJoined
<1>6. ASSUME AtEnd(c) PROVE got[c - 1] = got[c] /\ code[c - 1] # Killed
  <2>1. code[c - 1] # Killed /\ pipe[c - 1] = <<>> /\ todo[c - 1] = <<>>
    BY <1>1, <1>6 DEF AtEnd, KilledInv
  <2>2. \A s \in Seq(Units) : s \o <<>> = s
    BY ConcatEmptySeq
  <2> QED
    BY <1>2, <1>3, <2>1, <2>2
<1> QED
  BY <1>1, <1>4, <1>5, <1>6

\* What a command has had to write so far is a beginning of what is promised.
LEMMA MakesBeginning ==
  ASSUME Inv, KilledInv, NEW got \in [Commands -> Seq(Units)],
         \A d \in Commands : Flows(d, got) /\ Makes(d, got)
  PROVE  \A c \in Commands : /\ IsPrefix(got[c], Promised[c])
                             /\ kind[c] = "head" => got[c] \in {<<>>, Promised[c]}
<1> DEFINE Begins(c) == /\ IsPrefix(got[c], Promised[c])
                        /\ kind[c] = "head" => got[c] \in {<<>>, Promised[c]}
           S == {c \in 0..N : c # 0 => Begins(c)}
<1>0. /\ N \in Nat \ {0} /\ Commands = 1..N /\ Data \in Seq(Units) /\ held \in Seq(Units)
      /\ \A c \in 0..N : Promised[c] = Body(Promised, c) /\ Promised[c] \in Seq(Units)
      /\ \A c \in Commands : got[c] \in Seq(Units) /\ c # 0
  BY Facts, PromisedIs
<1>1. ASSUME NEW c \in Commands, c - 1 # 0 => Begins(c - 1) PROVE Begins(c)
  <2>0. c \in 0..N /\ Promised[c] \in Seq(Units) /\ got[c] \in Seq(Units) /\ Promised[c] = Body(Promised, c) /\ c # 0
    BY <1>0
  <2>1. CASE got[c] = <<>>
    BY <2>0, <2>1, PrefixEmpty
  <2>2. CASE kind[c] \in {"source", "silent", "broken"} /\ got[c] # <<>>
    <3>1. got[c] = Promised[c]
      BY <2>0, <2>2 DEF Makes, Body
    <3> QED
      BY <2>0, <3>1, PrefixEmpty
  <2>3. CASE Takes(c) /\ got[c] # <<>>
    <3>1. c - 1 \in Commands /\ IsPrefix(got[c], got[c - 1])
      BY <2>3, ReadsBeginning, Facts
    <3>2. c - 1 \in 0..N /\ c - 1 # 0
      BY <1>0, <3>1
    <3>3. IsPrefix(got[c], Promised[c - 1]) /\ Promised[c - 1] \in Seq(Units)
      BY <1>0, <1>1, <2>0, <3>1, <3>2, PrefixTransitive
    <3>4. CASE kind[c] = "copy"
      BY <2>0, <3>3, <3>4 DEF Body
    <3>5. CASE kind[c] = "head"
      <4>1. Len(got[c]) <= 1
        BY <2>3, <3>5 DEF Makes
      <4>2. Promised[c - 1] # <<>> /\ got[c] = <<Head(Promised[c - 1])>>
        BY <2>0, <2>3, <3>3, <4>1, PrefixHead
      <4>3. got[c] = Promised[c]
        BY <2>0, <3>5, <4>2 DEF Body
      <4> QED
        BY <2>0, <4>3, PrefixEmpty
    <3> QED
      BY <2>3, <3>4, <3>5 DEF Takes
  <2> QED
    BY <2>1, <2>2, <2>3, Facts DEF Takes, Kinds
<1> HIDE DEF Begins
<1>2. 0 \in S /\ \A c \in 1..N : c - 1 \in S => c \in S
  BY <1>0, <1>1
<1>3. 0..N \subseteq S
  <2> HIDE DEF S
  <2> QED
    BY <1>0, <1>2, UpTo
<1>4. \A c \in Commands : Begins(c)
  BY <1>0, <1>3
<1> QED
  BY <1>4 DEF Begins

\* When all have ended, it is all that is promised, but for those that were killed.
LEMMA MakesAll ==
  ASSUME Inv, KilledInv, NEW got \in [Commands -> Seq(Units)],
         \A d \in Commands : Flows(d, got) /\ Makes(d, got) /\ Ended(d)
  PROVE  \A c \in Commands : code[c] # Killed => got[c] = Promised[c]
<1> DEFINE All(c) == code[c] # Killed => got[c] = Promised[c]
           S == {c \in 0..N : c # 0 => All(c)}
<1>0. /\ N \in Nat \ {0} /\ Commands = 1..N
      /\ \A c \in 0..N : Promised[c] = Body(Promised, c)
      /\ \A c \in Commands : /\ Began(c) /\ (code[c] # Killed => eof[c])
                             /\ kind[c] = "head" => got[c] \in {<<>>, Promised[c]}
  BY Facts, PromisedIs, MakesBeginning DEF Began, Ended, KilledInv
<1>1. ASSUME NEW c \in Commands, c - 1 # 0 => All(c - 1), code[c] # Killed PROVE got[c] = Promised[c]
  <2>0. c \in 0..N /\ Promised[c] = Body(Promised, c) /\ c # 0 /\ Makes(c, got) /\ Began(c) /\ eof[c]
    BY <1>0, <1>1
  <2>1. CASE kind[c] \in {"source", "silent", "broken"}
    BY <2>0, <2>1 DEF Makes, Body
  <2>2. CASE kind[c] = "head" /\ got[c] # <<>>
    BY <1>0, <2>2
  <2>3. CASE kind[c] = "copy" \/ (kind[c] = "head" /\ got[c] = <<>>)
    <3>1. AtEnd(c) /\ Takes(c)
      BY <2>0, <2>3 DEF Makes, Takes
    <3>2. c - 1 \in Commands
      BY <3>1, Facts
    <3>3. c - 1 # 0 /\ got[c - 1] = got[c] /\ code[c - 1] # Killed
      BY <1>0, <3>1, <3>2, ReadsBeginning
    <3>4. got[c] = Promised[c - 1]
      BY <1>1, <3>3
    <3> QED
      BY <2>0, <2>3, <3>4 DEF Body
  <2> QED
    BY <2>1, <2>2, <2>3, Facts DEF Kinds
<1> HIDE DEF All
<1>2. 0 \in S /\ \A c \in 1..N : c - 1 \in S => c \in S
  BY <1>0, <1>1 DEF All
<1>3. 0..N \subseteq S
  <2> HIDE DEF S
  <2> QED
    BY <1>0, <1>2, UpTo
<1>4. \A c \in Commands : All(c)
  BY <1>0, <1>3
<1> QED
  BY <1>4 DEF All

\* A pipeline shows the composition of its commands: what is shown is always a
\* beginning of it, and all of it once the function has returned without an
\* error, for any number of commands, whatever they are, any capacity of the
\* pipes and any schedule (rsh_server.c:504-578).
THEOREM OutputCorrect == Spec => []OutputIsComposed
<1>1. ASSUME Inv, FlowInv PROVE OutputIsComposed
  <2>1. PICK got \in [Commands -> Seq(Units)] : \A c \in Commands : Flows(c, got) /\ Makes(c, got)
    BY <1>1 DEF FlowInv, StreamInv
  <2>2. KilledInv /\ ReturnedInv
    BY <1>1 DEF FlowInv
  <2>3. /\ N \in Commands /\ N \in 0..N /\ shown \in Seq(Units) /\ todo[N] \in Seq(Units)
        /\ got[N] = shown \o todo[N] /\ got[N] \in Seq(Units) /\ Promised[N] \in Seq(Units)
    <3>1. TypeOK /\ N \in Commands /\ N \in 0..N /\ shown \in Seq(Units) /\ todo[N] \in Seq(Units)
      BY <1>1, Facts
    <3>2. Promised[N] \in Seq(Units)
      BY <3>1, PromisedIs
    <3> QED
      BY <2>1, <3>1, <3>2 DEF Flows
  <2>4. IsPrefix(shown, Promised[N])
    <3>1. IsPrefix(shown, got[N])
      BY <2>3, PrefixJoined
    <3>2. IsPrefix(got[N], Promised[N])
      BY <1>1, <2>1, <2>2, <2>3, MakesBeginning
    <3> QED
      BY <2>3, <3>1, <3>2, PrefixTransitive
  <2>5. ASSUME pc = "returned", result # Error PROVE shown = Promised[N]
    <3>1. \A c \in Commands : Ended(c)
      BY <2>2, <2>5 DEF ReturnedInv, Ended
    <3>2. code[N] # Killed
      BY <2>2, <2>3 DEF KilledInv
    <3>3. got[N] = Promised[N]
      BY <1>1, <2>1, <2>2, <2>3, <3>1, <3>2, MakesAll
    <3>4. todo[N] = <<>>
      BY <2>2, <2>3, <3>1, <3>2 DEF KilledInv
    <3>5. shown \o <<>> = shown
      BY <2>3, ConcatEmptySeq
    <3> QED
      BY <2>3, <3>3, <3>4, <3>5
  <2> QED
    BY <2>4, <2>5 DEF OutputIsComposed
<1> QED
  BY <1>1, InvCorrect, FlowCorrect, PTL
====
