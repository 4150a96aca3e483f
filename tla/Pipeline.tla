---- MODULE Pipeline ----
(***************************************************************************)
(* A pipeline of N commands as the shells run it: rsh_execute_pipeline of  *)
(* the remote shell (6-RShell/rsh_server.c:494-595) and execute_pipeline   *)
(* of the local one (5-ShellP3/dshlib.c:518-612, the same function again   *)
(* in 6-RShell/dshlib.c).  The shell makes the pipes, forks the commands,  *)
(* closes its ends and waits, while the commands already run: a pipe is at *)
(* its end for a reader only when nobody holds its writing end, the shell  *)
(* and children that have not closed theirs included.                      *)
(*                                                                         *)
(* A command is what it does to its input: "source" writes Data, "silent"  *)
(* nothing, neither reads; "copy" copies all, "head" the first unit.  The  *)
(* first command does not read: what it would read is the subject of       *)
(* RShell and LocalShell.  A command that cannot be executed is "broken":  *)
(* exit in the child writes the text the shell's stdio still held when it  *)
(* was forked, a copy of it, to where the command would have written.      *)
(* Messages on standard error are left out.                                *)
(***************************************************************************)
EXTENDS Integers, Sequences, SequencesExt

CONSTANTS
    N,        \* clist->num
    Locals,   \* with execute_pipeline, rsh_execute_pipeline, or both?
    Data,     \* what a source writes
    Helds,    \* what may be in the shell's stdio buffer: <<>> at a terminal
    Cap,      \* units a pipe holds
    Codes,    \* exit codes of the commands
    Faults    \* calls that may fail: a subset of {"pipe", "fork", "exec"}

Units == Range(Data) \cup UNION {Range(h) : h \in Helds}

ASSUME PipelineAssumption ==
    /\ N \in Nat \ {0} /\ Locals \subseteq BOOLEAN /\ (TRUE \in Locals => N > 1)
    /\ Data \in Seq(Units) /\ Helds \subseteq Seq(Units)
    /\ Cap \in Nat \ {0} /\ Codes \subseteq 0..255
    /\ Faults \subseteq {"pipe", "fork", "exec"}

VARIABLES
    local,    \* execute_pipeline rather than rsh_execute_pipeline?
    held,     \* what the shell's stdio buffer holds while it runs
    pc,       \* the shell: "pipe", "fork", "wait", "returned"
    next,     \* its loop variable i, from 1
    forked,   \* how many children it waits for
    result,   \* what the function returned
    ends,     \* the pipes of which the shell holds both ends
    child,    \* per command: "none", "setup", "running", "zombie", "reaped"
    reads,    \* per command: the pipes it can read from
    writes,   \* per command: the pipes it can write to
    kind,     \* per command: what it does
    todo,     \* per command: units it is about to write
    eof,      \* per command: has it read all it wants?
    code,     \* per command: how it ended
    pipe,     \* per pipe: the units in it
    shown     \* what the last command wrote to the socket or the terminal

which    == <<local, held>>
shell    == <<which, pc, next, forked, result, ends>>
command  == <<child, reads, writes, kind, todo, eof, code>>
vars     == <<shell, command, pipe, shown>>

Commands == 1..N
Pipes    == 1..(N - 1)       \* pipe j leads from command j to command j + 1
Kinds    == {"source", "silent", "copy", "head"}

OK                == 0
EXIT_FAILURE      == 1
EXIT_SC           == 100
ERR_EXEC_CMD      == -6
ERR_RDSH_CMD_EXEC == -53
Killed            == -1      \* ~WIFEXITED
NoCode            == -2
NoResult          == -100

Error    == IF local THEN ERR_EXEC_CMD ELSE ERR_RDSH_CMD_EXEC
ExecCode == IF local THEN EXIT_FAILURE ELSE EXIT_SC
Fails(call) == call \in Faults

Readers(j) == {c \in Commands : j \in reads[c]}
Writers(j) == {c \in Commands : j \in writes[c]}

Init ==
    /\ local \in Locals /\ held \in Helds
    /\ pc = "pipe" /\ next = 1 /\ forked = N /\ result = NoResult /\ ends = {}
    /\ child = [c \in Commands |-> "none"]
    /\ reads = [c \in Commands |-> {}] /\ writes = [c \in Commands |-> {}]
    /\ kind \in [Commands -> Kinds] /\ kind[1] \in {"source", "silent"}
    /\ todo = [c \in Commands |-> <<>>] /\ eof = [c \in Commands |-> FALSE]
    /\ code = [c \in Commands |-> NoCode]
    /\ pipe = [j \in Pipes |-> <<>>]
    /\ shown = <<>>

----
(* The shell. *)

Return(r) == pc' = "returned" /\ result' = r

MakePipeOneMore ==                              \* mutant: a pipe for every command
    /\ pc = "pipe" /\ next <= N
    /\ ends' = ends \cup {next} /\ next' = next + 1
    /\ UNCHANGED <<which, pc, forked, result, command, pipe, shown>>

MakePipe ==
    /\ pc = "pipe" /\ next <= N - 1
    /\ ends' = ends \cup {next} /\ next' = next + 1
    /\ UNCHANGED <<which, pc, forked, result, command, pipe, shown>>

\* Only execute_pipeline closes the pipes it made before the one that failed.
MakePipeFails ==
    /\ pc = "pipe" /\ next <= N - 1 /\ Fails("pipe")
    /\ Return(Error)
    /\ ends' = IF local THEN {} ELSE ends
    /\ UNCHANGED <<which, next, forked, command, pipe, shown>>

PipesMade ==
    /\ pc = "pipe" /\ next = N
    /\ pc' = "fork" /\ next' = 1
    /\ UNCHANGED <<which, forked, result, ends, command, pipe, shown>>

\* The child inherits the ends of all pipes.
Fork ==
    /\ pc = "fork" /\ next <= N
    /\ child' = [child EXCEPT ![next] = "setup"]
    /\ reads' = [reads EXCEPT ![next] = ends] /\ writes' = [writes EXCEPT ![next] = ends]
    /\ next' = next + 1
    /\ UNCHANGED <<which, pc, forked, result, ends, kind, todo, eof, code, pipe, shown>>

\* Both close the pipes; execute_pipeline then waits for the children it has.
ForkFails ==
    /\ pc = "fork" /\ next <= N /\ Fails("fork")
    /\ ends' = {}
    /\ IF local THEN pc' = "wait" /\ next' = 1 /\ forked' = next - 1 /\ result' = Error
                ELSE Return(Error) /\ UNCHANGED <<next, forked>>
    /\ UNCHANGED <<which, command, pipe, shown>>

CloseEndsKept ==                                \* mutant: the shell keeps its ends
    /\ pc = "fork" /\ next = N + 1
    /\ pc' = "wait" /\ next' = 1
    /\ UNCHANGED <<which, ends, forked, result, command, pipe, shown>>

CloseEnds ==
    /\ pc = "fork" /\ next = N + 1
    /\ ends' = {}
    /\ pc' = "wait" /\ next' = 1
    /\ UNCHANGED <<which, forked, result, command, pipe, shown>>

\* waitpid(pids[i]): in the order of the pipeline, whoever ends first.
WaitAny ==                                      \* mutant: one child is enough
    /\ pc = "wait" /\ next <= forked
    /\ \E c \in Commands : child[c] = "zombie" /\ child' = [child EXCEPT ![c] = "reaped"]
    /\ next' = forked + 1
    /\ UNCHANGED <<which, pc, forked, result, ends, reads, writes, kind, todo, eof, code, pipe, shown>>

Wait ==
    /\ pc = "wait" /\ next <= forked
    /\ child[next] = "zombie"
    /\ child' = [child EXCEPT ![next] = "reaped"]
    /\ next' = next + 1
    /\ UNCHANGED <<which, pc, forked, result, ends, reads, writes, kind, todo, eof, code, pipe, shown>>

\* The last command's exit code, unless it was killed or any ended with EXIT_SC.
ExitCodeFirst ==                                \* mutant: the first command's
    IF code[1] = Killed THEN ERR_RDSH_CMD_EXEC ELSE code[1]

ExitCode ==
    IF \E c \in Commands : code[c] = EXIT_SC THEN EXIT_SC
    ELSE IF code[N] = Killed THEN ERR_RDSH_CMD_EXEC ELSE code[N]

AllWaited ==
    /\ pc = "wait" /\ next = forked + 1
    /\ Return(IF result # NoResult THEN result ELSE IF local THEN OK ELSE ExitCode)
    /\ UNCHANGED <<which, next, forked, ends, command, pipe, shown>>

ShellStep ==
    \/ MakePipe \/ MakePipeFails \/ PipesMade \/ Fork \/ ForkFails
    \/ CloseEnds \/ Wait \/ AllWaited

----
(* The commands. *)

\* A process ends: its descriptors are closed, its status waits for waitpid.
Ends(c, status) ==
    /\ child' = [child EXCEPT ![c] = "zombie"]
    /\ code' = [code EXCEPT ![c] = status]
    /\ reads' = [reads EXCEPT ![c] = {}] /\ writes' = [writes EXCEPT ![c] = {}]

\* dup2, closing all pipe ends, and execvp.  A reader that closed some ends
\* but not all is one that has not closed any yet.
SetupKept(c) ==                                 \* mutant: only the dup2s
    /\ child[c] = "setup"
    /\ child' = [child EXCEPT ![c] = "running"]
    /\ todo' = [todo EXCEPT ![c] = IF kind[c] = "source" THEN Data ELSE <<>>]
    /\ eof' = [eof EXCEPT ![c] = kind[c] \in {"source", "silent"}]
    /\ UNCHANGED <<shell, reads, writes, kind, code, pipe, shown>>

Setup(c) ==
    /\ child[c] = "setup"
    /\ child' = [child EXCEPT ![c] = "running"]
    /\ reads' = [reads EXCEPT ![c] = {c - 1} \cap Pipes]
    /\ writes' = [writes EXCEPT ![c] = {c} \cap Pipes]
    /\ todo' = [todo EXCEPT ![c] = IF kind[c] = "source" THEN Data ELSE <<>>]
    /\ eof' = [eof EXCEPT ![c] = kind[c] \in {"source", "silent"}]
    /\ UNCHANGED <<shell, kind, code, pipe, shown>>

\* execvp fails, as for a command that does not exist; dup2 does not.  The perror
\* goes to standard error, which is left out, also where that is the socket: for
\* the last command of the remote function (rsh_server.c:544).
SetupFailsClean(c) ==                           \* mutant: _exit rather than exit
    /\ child[c] = "setup" /\ Fails("exec")
    /\ Ends(c, ExecCode)
    /\ UNCHANGED <<shell, kind, todo, eof, pipe, shown>>

SetupFails(c) ==
    /\ child[c] = "setup" /\ Fails("exec")
    /\ child' = [child EXCEPT ![c] = "running"]
    /\ reads' = [reads EXCEPT ![c] = {c - 1} \cap Pipes]
    /\ writes' = [writes EXCEPT ![c] = {c} \cap Pipes]
    /\ kind' = [kind EXCEPT ![c] = "broken"]
    /\ todo' = [todo EXCEPT ![c] = held]
    /\ eof' = [eof EXCEPT ![c] = TRUE]
    /\ UNCHANGED <<shell, code, pipe, shown>>

\* read: a unit, or the end when the pipe is empty and nobody can write to it.
Read(c) ==
    /\ child[c] = "running" /\ ~eof[c] /\ todo[c] = <<>>
    /\ LET j == c - 1 IN
       \/ /\ pipe[j] # <<>>
          /\ todo' = [todo EXCEPT ![c] = <<Head(pipe[j])>>]
          /\ pipe' = [pipe EXCEPT ![j] = Tail(@)]
          /\ eof' = [eof EXCEPT ![c] = kind[c] = "head"]
       \/ /\ pipe[j] = <<>> /\ Writers(j) = {} /\ j \notin ends
          /\ eof' = [eof EXCEPT ![c] = TRUE]
          /\ UNCHANGED <<todo, pipe>>
    /\ UNCHANGED <<shell, child, reads, writes, kind, code, shown>>

\* write to the next pipe: blocks when it is full, SIGPIPE when nobody can read.
Write(c) ==
    /\ child[c] = "running" /\ todo[c] # <<>>
    /\ \/ /\ c = N
          /\ shown' = Append(shown, Head(todo[c]))
          /\ todo' = [todo EXCEPT ![c] = Tail(@)]
          /\ UNCHANGED <<child, reads, writes, code, pipe>>
       \/ /\ c < N /\ (Readers(c) # {} \/ c \in ends) /\ Len(pipe[c]) < Cap
          /\ pipe' = [pipe EXCEPT ![c] = Append(@, Head(todo[c]))]
          /\ todo' = [todo EXCEPT ![c] = Tail(@)]
          /\ UNCHANGED <<child, reads, writes, code, shown>>
       \/ /\ c < N /\ Readers(c) = {} /\ c \notin ends
          /\ Ends(c, Killed)
          /\ UNCHANGED <<todo, pipe, shown>>
    /\ UNCHANGED <<shell, kind, eof>>

Exit(c) ==
    /\ child[c] = "running" /\ eof[c] /\ todo[c] = <<>>
    /\ \E status \in IF kind[c] = "broken" THEN {ExecCode} ELSE Codes : Ends(c, status)
    /\ UNCHANGED <<shell, kind, todo, eof, pipe, shown>>

CommandStep(c) == Setup(c) \/ SetupFails(c) \/ Read(c) \/ Write(c) \/ Exit(c)

Next == ShellStep \/ \E c \in Commands : CommandStep(c)

\* The kernel runs every process that can run; the commands above all end.
Fairness == WF_vars(ShellStep) /\ \A c \in Commands : WF_vars(CommandStep(c))

Spec == Init /\ [][Next]_vars /\ Fairness

----
(* Properties. *)

ShellTypes ==
    /\ local \in Locals /\ held \in Helds
    /\ pc \in {"pipe", "fork", "wait", "returned"}
    /\ next \in 1..(N + 1) /\ forked \in 0..N
    /\ result \in Codes \cup {OK, EXIT_SC, ERR_EXEC_CMD, ERR_RDSH_CMD_EXEC, NoResult}
    /\ ends \subseteq Pipes

CommandTypes ==
    /\ child \in [Commands -> {"none", "setup", "running", "zombie", "reaped"}]
    /\ reads \in [Commands -> SUBSET Pipes] /\ writes \in [Commands -> SUBSET Pipes]
    /\ kind \in [Commands -> Kinds \cup {"broken"}]
    /\ eof \in [Commands -> BOOLEAN]
    /\ code \in [Commands -> Codes \cup {ExecCode, Killed, NoCode}]

DataTypes ==
    /\ todo \in [Commands -> Seq(Units)]
    /\ pipe \in [Pipes -> Seq(Units)]
    /\ shown \in Seq(Units)

\* Every variable keeps its shape: the shell never touches a pipe or a child
\* that is not there (the arrays of rsh_server.c:495-497).
TypeOK == ShellTypes /\ CommandTypes /\ DataTypes

\* What command c makes of its input, or what is copied in place of it.
Promised[c \in 0..N] ==
    IF c = 0 THEN <<>>
    ELSE CASE kind[c] = "source" -> Data
           [] kind[c] = "silent" -> <<>>
           [] kind[c] = "broken" -> held
           [] kind[c] = "copy"   -> Promised[c - 1]
           [] kind[c] = "head"   -> IF Promised[c - 1] = <<>> THEN <<>>
                                    ELSE <<Head(Promised[c - 1])>>

\* The pipeline is the composition of its commands: what is shown is always a
\* beginning of it, and all of it when the function has returned without an
\* error, however the commands and the shell were scheduled, whoever ended
\* early and whatever was not executed; of a command that was not, standard
\* output has the text held at the fork and no more (rsh_server.c:504-578).
OutputIsComposed ==
    /\ IsPrefix(shown, Promised[N])
    /\ pc = "returned" /\ result # Error => shown = Promised[N]

\* rsh_server.c:486-493 and 588-593: the last command's own exit code, unless
\* one of the commands ended with EXIT_SC or the last was killed.
ResultIsLast ==
    pc = "returned" /\ ~local =>
      /\ result \notin {Error, EXIT_SC} => child[N] = "reaped" /\ result = code[N]
      /\ result = EXIT_SC => \E c \in Commands : child[c] = "reaped" /\ code[c] = EXIT_SC

\* rshlib.h:239: wait for all children, whichever way the function returns.
AllWaitedFor == pc = "returned" => \A c \in Commands : child[c] \in {"none", "reaped"}

\* rsh_execute_pipeline gives up in the middle when pipe or fork fails: what it
\* leaves then of children is AllWaitedFor's; pipes made before stay open when one
\* cannot be made (rsh_server.c:505-508).
Abandoned == pc = "returned" /\ ~local /\ next <= N

\* Otherwise, and always in execute_pipeline, no child is left and no pipe end
\* stays open in the shell, whatever failed (5-ShellP3/readme.md:76,
\* 5-ShellP3/dshlib.c:534-565).
NothingLeft == pc = "returned" /\ ~Abandoned => AllWaitedFor /\ ends = {}

\* The function returns: no reader waits for an end that somebody keeps from
\* it, no writer for room that nobody makes (rsh_server.c:555-578).
Returns == <>(pc = "returned")
====
