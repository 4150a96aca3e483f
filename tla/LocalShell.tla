---- MODULE LocalShell ----
(***************************************************************************)
(* The loop of each shell, exec_local_cmd_loop: "P1" (3-ShellP1) parses    *)
(* and prints, "P2" (4-ShellP2) runs one command, "P3" (5-ShellP3) and     *)
(* "P4" (6-RShell in local mode) run pipelines.  A session is a script of  *)
(* lines with what the shell's standard input and output are: what stdio   *)
(* has read ahead or not written yet is in the shell when it forks, and a  *)
(* child that cannot execute its command ends with exit, which writes the  *)
(* one again and, in a file, seeks back over the other.                    *)
(*                                                                         *)
(* Prompts are left out.  A line has one text at most, what its command or *)
(* the shell says of it, and is one unit long in its file: a session's     *)
(* lines are of one length.  What passes through pipes is in Pipeline.     *)
(***************************************************************************)
EXTENDS LineMeaning

CONSTANTS
    Sessions,     \* records: part, stdin, stdout, script
    MaxTexts,     \* bound of a run: no line is taken when that many are said
    Codes,        \* exit codes of commands
    EXIT_CMD, CD_CMD, RC_CMD, DRAGON_CMD,   \* words
    Missing,      \* words that name no program
    Reader        \* a program that reads its input

ASSUME LocalShellAssumption ==
    /\ \A s \in Sessions :
         /\ s.part \in {"P1", "P2", "P3", "P4"} /\ s.script \in Seq(Lines)
         /\ s.stdin \in {"tty", "pipe", "file"} /\ s.stdout \in {"tty", "pipe", "file"}
    /\ MaxTexts \in Nat /\ Codes \subseteq 0..255

VARIABLES
    session,      \* the one that runs
    pc,           \* the loop: "prompt", "parse", "fork", "wait", "ended"
    offset,       \* lines read from the standard input, by whomever
    ahead,        \* those the shell has read ahead
    current,      \* the line in hand
    times,        \* per line: how often the shell took it, up to twice
    eaten,        \* lines that commands have read
    failed,       \* history: has a child failed to execute its command?
    refused,      \* how often a line was refused for its arguments
    held,         \* texts in the shell's output buffer
    shown,        \* texts written
    job,          \* per command of the line: "none", "forked", "ended"
    outcome,      \* the status of the last command or cd
    last_return_code

input  == <<offset, ahead, eaten, failed, refused>>
output == <<held, shown>>
vars   == <<parser, session, pc, input, current, times, output, job, outcome, last_return_code>>

ERR_EXEC_CMD == -6
EXIT_FAILURE == 1
Killed       == -100          \* ~WIFEXITED

part      == session.part
script    == session.script
Index     == DOMAIN script
Texts     == Index \cup {0}          \* what is said of a line; 0, of none
Jobs      == DOMAIN job
LastJob   == Len(commands)
Pipelines == part \in {"P3", "P4"}
FirstWord == commands[1][1]

Owned == IF single THEN 1 ELSE 0     \* alloc_cmd_buff before P2's loop

Init ==
    /\ session \in Sessions /\ pc = "prompt"
    /\ offset = 0 /\ ahead = <<>> /\ eaten = {} /\ failed = FALSE /\ refused = 0 /\ current = 0
    /\ times = [i \in Index |-> 0]
    /\ held = IF part = "P4" /\ session.stdout # "tty" THEN <<0>> ELSE <<>>
    /\ shown = <<>> /\ job = <<>> /\ outcome = 0 /\ last_return_code = 0
    /\ single = (part = "P2") /\ heap = Owned
    /\ line = <<>> /\ at = "parsed" /\ commands = <<>> /\ rc = OK
    /\ cut = 1 /\ last = 0 /\ from = 1 /\ to = 0 /\ src = 1 /\ dst = 0
    /\ quote = DoubleQuote /\ argv = <<>>

\* printf: a terminal gets each line, a pipe or a file when the buffer is written.
Say(text) ==
    IF session.stdout = "tty" THEN shown' = Append(shown, text) /\ UNCHANGED held
                              ELSE held' = Append(held, text) /\ UNCHANGED shown

----
(* The loop. *)

\* fgets: from the buffer, or from what read returns: a line of a terminal, of
\* a pipe what has arrived, of a file all there is.
Arrived ==
    LET left == Len(script) - offset
    IN CASE session.stdin = "tty"  -> {1} \cap 1..left
         [] session.stdin = "pipe" -> 1..left
         [] session.stdin = "file" -> {left} \ {0}

UnreadLost(lines) == <<>>                        \* mutant: what was read ahead is lost

Unread(lines) == Tail(lines)

Take(lines) ==
    LET i == Head(lines) IN
    /\ ahead' = Unread(lines) /\ current' = i
    /\ times' = [times EXCEPT ![i] = IF @ = 2 THEN 2 ELSE @ + 1]
    /\ IF Pipelines /\ script[i] = EXIT_CMD
       THEN pc' = "exit" /\ UNCHANGED parser
       ELSE pc' = "parse" /\ Parse(script[i])

\* The loops that prompt a terminal only write what is held with the prompt.
Interactive == Pipelines /\ session.stdin = "tty"
Flush == IF Interactive THEN shown' = shown \o held /\ held' = <<>> ELSE UNCHANGED output

TakeLine ==
    /\ pc = "prompt" /\ Len(shown \o held) < MaxTexts
    /\ \/ ahead # <<>> /\ Take(ahead) /\ UNCHANGED offset
       \/ /\ ahead = <<>>
          /\ \E n \in Arrived : Take([i \in 1..n |-> offset + i]) /\ offset' = offset + n
    /\ Flush
    /\ UNCHANGED <<session, eaten, failed, refused, job, outcome, last_return_code>>

\* free_cmd_list; P2 has no list.
Free == commands' = <<>> /\ heap' = IF single THEN heap ELSE heap - Len(commands)

\* The end of main, or exit: the output is written, and P2 frees its buffer.
Leave(texts) ==
    /\ pc' = "ended"
    /\ shown' = shown \o held \o texts /\ held' = <<>>
    /\ commands' = <<>> /\ heap' = IF single THEN heap - 1 ELSE heap - Len(commands)
    /\ UNCHANGED <<reading, rc, session, input, current, times, job, outcome, last_return_code>>

EndOfInputMissed ==                              \* mutant: the last line again
    /\ pc = "prompt" /\ ahead = <<>> /\ offset = Len(script)
    /\ pc' = "parse" /\ Parse(line)
    /\ UNCHANGED <<session, input, current, times, output, job, outcome, last_return_code>>

EndOfInput == pc = "prompt" /\ ahead = <<>> /\ offset = Len(script) /\ Leave(<<>>)

IsBuiltIn(name) == at = "parsed" /\ rc = OK /\ FirstWord = name

Exit == \/ pc = "exit" /\ Leave(<<current>>)
        \/ pc = "parse" /\ IsBuiltIn(EXIT_CMD) /\ Leave(<<current>>)

\* The loop takes the next line, having said something of this one or nothing.
Prompt(text) ==
    /\ pc' = "prompt"
    /\ IF text THEN Say(current) ELSE UNCHANGED output
    /\ UNCHANGED <<reading, rc, session, offset, ahead, eaten, failed, current, times, job>>

RejectedKeepsRc ==                              \* mutant: rc is the return code
    /\ pc = "parse" /\ at = "parsed" /\ rc # OK
    /\ Prompt(rc \in {WARN_NO_CMDS, ERR_TOO_MANY_COMMANDS})
    /\ last_return_code' = rc
    /\ UNCHANGED <<commands, heap, outcome, refused>>

\* A line that is not a command: some errors are reported, others are not.
Rejected ==
    /\ pc = "parse" /\ at = "parsed" /\ rc # OK
    /\ Prompt(rc \in {WARN_NO_CMDS, ERR_TOO_MANY_COMMANDS})
    /\ refused' = IF rc = ERR_CMD_OR_ARGS_TOO_BIG THEN refused + 1 ELSE refused
    /\ UNCHANGED <<commands, heap, outcome, last_return_code>>

\* cd: only P2 keeps its result, and P1 does not have it.
ChangeDir ==
    /\ pc = "parse" /\ IsBuiltIn(CD_CMD) /\ part # "P1"
    /\ \E status \in IF Len(commands[1]) < 2 THEN {0} ELSE {0, 1} :
         IF part = "P2" THEN outcome' = status /\ last_return_code' = status
                        ELSE UNCHANGED <<outcome, last_return_code>>
    /\ Prompt(FALSE) /\ Free /\ UNCHANGED refused

\* rc in P2, the dragon where there is one; P1 prints any other line.
Tell ==
    /\ pc = "parse"
    /\ \/ IsBuiltIn(RC_CMD) /\ part = "P2"
       \/ IsBuiltIn(DRAGON_CMD) /\ part = "P3"
       \/ at = "parsed" /\ rc = OK /\ FirstWord # EXIT_CMD /\ part = "P1"
    /\ Prompt(TRUE) /\ Free
    /\ UNCHANGED <<refused, outcome, last_return_code>>

\* P4's dragon is a command that does nothing.
NoDragon ==
    /\ pc = "parse" /\ IsBuiltIn(DRAGON_CMD) /\ part = "P4"
    /\ Prompt(FALSE) /\ Free
    /\ UNCHANGED <<refused, outcome, last_return_code>>

\* What is left to execute; P4 has no use for rc and stop-server and runs them.
BuiltIns == CASE part = "P2" -> {EXIT_CMD, CD_CMD, RC_CMD}
              [] part = "P3" -> {EXIT_CMD, CD_CMD, DRAGON_CMD}
              [] part = "P4" -> {EXIT_CMD, CD_CMD, DRAGON_CMD}

Execute ==
    /\ pc = "parse" /\ part # "P1"
    /\ at = "parsed" /\ rc = OK /\ FirstWord \notin BuiltIns
    /\ pc' = "fork" /\ job' = [j \in 1..Len(commands) |-> "none"]
    /\ UNCHANGED <<parser, session, input, current, times, output, outcome, last_return_code>>

----
(* exec_cmd and execute_pipeline. *)

Forked == {j \in Jobs : job[j] # "none"}

Fork ==
    /\ pc = "fork"
    /\ \E j \in Jobs \ Forked :
         1..(j - 1) \subseteq Forked /\ job' = [job EXCEPT ![j] = "forked"]
    /\ UNCHANGED <<parser, session, pc, input, current, times, output, outcome, last_return_code>>

ForkFails ==
    /\ pc = "fork" /\ Forked # Jobs /\ "fork" \in Faults
    /\ pc' = "wait" /\ outcome' = ERR_EXEC_CMD
    /\ UNCHANGED <<parser, session, input, current, times, output, job, last_return_code>>

AllForked ==
    /\ pc = "fork" /\ Forked = Jobs
    /\ pc' = "wait"
    /\ UNCHANGED <<parser, session, input, current, times, output, job, outcome, last_return_code>>

\* waitpid for all of them, and the next line; a pipeline has no status.
Result == IF Forked # Jobs THEN ERR_EXEC_CMD
          ELSE IF Len(commands) > 1 THEN OK
          ELSE IF outcome = Killed THEN ERR_EXEC_CMD ELSE outcome

WaitTells ==                                    \* mutant: any status is an error
    /\ pc = "wait" /\ \A j \in Jobs : job[j] # "forked"
    /\ Prompt(Result # OK) /\ Free
    /\ last_return_code' = IF part = "P2" THEN Result ELSE last_return_code
    /\ UNCHANGED <<refused, outcome>>

Wait ==
    /\ pc = "wait" /\ \A j \in Jobs : job[j] # "forked"
    /\ Prompt(Result = ERR_EXEC_CMD) /\ Free
    /\ last_return_code' = IF part = "P2" THEN Result ELSE last_return_code
    /\ UNCHANGED <<refused, outcome>>

LoopStep ==
    \/ TakeLine \/ EndOfInput \/ Exit \/ Rejected \/ ChangeDir \/ Tell \/ NoDragon
    \/ Execute \/ Fork \/ ForkFails \/ AllForked \/ Wait

----
(* The children. *)

Program(j) == commands[j][1]

\* The first command has the shell's input, the last one its output.
Runs(j) ==
    /\ job[j] = "forked" /\ Program(j) \notin Missing
    /\ job' = [job EXCEPT ![j] = "ended"]
    /\ \E status \in Codes \cup {Killed} :
         /\ outcome' = IF LastJob = 1 THEN status ELSE outcome
         /\ shown' = IF j = LastJob /\ status # Killed THEN Append(shown, current) ELSE shown
    /\ \E n \in IF j = 1 /\ Program(j) = Reader THEN 0..(Len(script) - offset) ELSE {0} :
         /\ offset' = offset + n
         /\ eaten' = eaten \cup (offset + 1)..(offset + n)
    /\ UNCHANGED <<parser, session, pc, ahead, failed, refused, current, times, held, last_return_code>>

\* execvp fails; exit flushes the copy of stdout and, where it can, seeks back
\* over the copy of what stdin has read ahead.
CannotRun(j) ==
    /\ job[j] = "forked" /\ Program(j) \in Missing
    /\ job' = [job EXCEPT ![j] = "ended"] /\ failed' = TRUE
    /\ outcome' = IF LastJob = 1 THEN EXIT_FAILURE ELSE outcome
    /\ shown' = IF j = LastJob THEN shown \o held ELSE shown
    /\ offset' = IF j = 1 /\ session.stdin = "file" /\ Len(ahead) <= offset
                 THEN offset - Len(ahead) ELSE offset
    /\ UNCHANGED <<parser, session, pc, ahead, eaten, refused, current, times, held, last_return_code>>

Child(j) == Runs(j) \/ CannotRun(j)

ParseStep ==
    /\ pc = "parse" /\ ParserStep
    /\ UNCHANGED <<session, pc, input, current, times, output, job, outcome, last_return_code>>

Next == LoopStep \/ ParseStep \/ \E j \in Jobs : Child(j)

\* Whoever feeds the input goes on to its end; commands end.
Fairness ==
    /\ WF_vars(LoopStep) /\ WF_vars(ParseStep)
    /\ \A j \in 1..CMD_MAX : WF_vars(j \in Jobs /\ Child(j))

Spec == Init /\ [][Next]_vars /\ Fairness
----
(* Properties. *)

InputTypes ==
    /\ offset \in 0..Len(script) /\ ahead \in Seq(Index)
    /\ eaten \subseteq Index /\ failed \in BOOLEAN /\ refused \in Nat
    /\ current \in Index \cup {0} /\ times \in [Index -> 0..2]

OutputTypes == held \in Seq(Texts) /\ shown \in Seq(Texts)

JobTypes ==
    /\ job \in Seq({"none", "forked", "ended"}) /\ Len(job) <= CMD_MAX
    /\ outcome \in Codes \cup {0, EXIT_FAILURE, ERR_EXEC_CMD, Killed}
    /\ last_return_code \in Codes \cup {0, EXIT_FAILURE, ERR_EXEC_CMD}

LoopTypes ==
    /\ session \in Sessions
    /\ pc \in {"prompt", "parse", "exit", "fork", "wait", "ended"}
    /\ InputTypes /\ OutputTypes /\ JobTypes

\* Parser and loop keep their types; no list has more commands, and the loop no
\* more children, than their arrays hold.
TypeOK == ParserTypes /\ LoopTypes

\* The two passes over a line, pipes and then quotes, return what the line
\* means, whatever its blanks, quotes and pipes (dshlib.c:132-289), unless
\* memory runs out.
ParseIsMeaning ==
    pc = "parse" /\ at = "parsed" /\ rc # ERR_MEMORY =>
      [rc |-> rc, commands |-> commands] = Meaning(line, single)

\* However a line ends (parsed, run, refused for its pipes or an empty part, out of
\* memory, not forked), every buffer it took is free at the next prompt, and P2's
\* own at the end.  Sessions with a line refused for its arguments are excepted:
\* what those leave is NothingAllocatedAtPrompt's (dshlib.c:60-89, 231-289).
HeapIsFreed ==
    single \/ refused = 0 =>
      /\ pc = "prompt" => heap = Owned
      /\ pc = "ended" /\ single => heap = 0

\* "Free memory before next iteration" (3-ShellP1/dshlib.h:246): at a prompt there
\* is no buffer but P2's.  dshlib.c:280-283 violates it: build_cmd_list counts a
\* buffer only once build_cmd_buff accepted it, and free_cmd_list frees the counted.
NothingAllocatedAtPrompt == pc = "prompt" => heap = Owned

\* P2's rc is that of the last command or cd, whatever lines came since
\* (4-ShellP2/dshlib.c:326-361).
RcIsLatest ==
    pc = "prompt" /\ part = "P2" =>
      last_return_code = IF outcome = Killed THEN ERR_EXEC_CMD ELSE outcome

\* Nothing seeks back: not a file, or nothing has failed to execute.
NothingSeeks == session.stdin = "file" => ~failed

\* Between the shell's buffer and its children's reading, each line of the input
\* goes to one of them, once (dshlib.c fgets, execvp, exit).
EachLineOnce ==
    NothingSeeks =>
      /\ \A i \in Index : times[i] + (IF i \in eaten THEN 1 ELSE 0) <= 1
      /\ pc = "ended" /\ ahead = <<>> /\ offset = Len(script) =>
           \A i \in Index : times[i] = 1 \/ i \in eaten

\* On a terminal texts come in the order of the lines, and once; elsewhere one
\* comes twice only if a command could not be executed, and the loop does not
\* write its output with its prompt (5-ShellP3/dshlib.c:380, 738-741).
OutputFaithful ==
    LET texts == shown \o held IN
    NothingSeeks =>
      /\ session.stdout = "tty" => \A m, n \in DOMAIN texts : m < n => texts[m] < texts[n]
      /\ ~IsInjective(texts) => failed /\ ~Interactive

\* The shell gets to the end of its input, and ends, unless a child seeks back.
EndsUnlessSeeking == []NothingSeeks => <>(pc = "ended")
====
