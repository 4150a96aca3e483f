# A verification development for the systems-programming programs of `src/`

The repository holds seven C programs of a systems course, each in a directory of its own: a word counter
(`0-Warmup`), a pattern search (`1-MiniGrep`), a file database (`2-StudentDB`), three stages of a shell
(`3-ShellP1`, `4-ShellP2`, `5-ShellP3`) and a remote shell (`6-RShell`), which contains the last shell again and adds
a server and a client. This directory models all of them and says what was checked and proved about them.

## Inventory

| Component | State it keeps | Operations | Hard about it | Modelled |
|---|---|---|---|---|
| Remote shell: `rsh_server.c`, `rsh_cli.c` | the accepted socket, `last_rc`, the working directory; per client its line; the kernel's socket buffers and connection states | `boot_server`, `process_cli_requests`, `exec_client_requests`, the send functions; `exec_remote_cmd_loop` | one byte marks the end of a response in a stream cut anywhere; resets, SIGPIPE; one session at a time | `RShell`, `ShellService` |
| Pipelines: `rsh_execute_pipeline`, `execute_pipeline` | pipes and who holds their ends, children, exit codes, the stdio buffer children inherit | pipe, fork, dup2, exec, close, waitpid | the commands run while the shell still forks; end of file depends on every copy of a descriptor; failures half way | `Pipeline` |
| Student database: `sdbsc.c` | `student.db`, `.tmp_student.db`, open descriptors | add, delete, find, count, print, compress, zero | processes share a file without locks; kills and failing calls between two steps; rename under an open descriptor | `StudentDB`, `StudentMap` |
| Command-line parser: `dshlib.c` of every shell | positions in the line, the buffer of the command in hand, the command list and its heap buffers | `build_cmd_list`, `build_cmd_buff`, `trim_ws_inplace`, `alloc`, `clear` and `free` | unchecked copying into a buffer; pipes are cut before quotes are read; buffers on error paths | `CmdLine`, `LineMeaning` |
| Local shells: `exec_local_cmd_loop`, built-ins, `exec_cmd` | the command buffers, the last exit code, stdio's buffers for input and output | the read-parse-run loop of four programs | children share the input's offset and inherit both buffers; error paths; end of input | `LocalShell` |
| MiniGrep | flags, line buffer, counters | flags, the `fgets` loop, `str_match` | lines longer than the buffer, the edge of a line | `MiniGrep` |
| wordcount | flags, counts of a stream, totals | options, `count_stream`, totals | early exits, state kept between files | `WordCount` |
| Mode selection: `dsh_cli.c` of `6-RShell` | mode, address, port | `parse_args`, `main` | checks made option by option | `ModeSelection` |
| Tests, traces, dragon, vendored Python | none | | | no |

How they interact. A client sends a line over TCP; the server parses it and, unless it is a built-in, runs a pipeline
whose first command reads the client's socket and whose last writes to it; then the server sends the byte 0x04 and
the client prompts. The local shells read lines with `fgets`, parse them with the same parser and run the same kind of
pipeline on their own input and output. `dsh_cli` decides which of client, server and local shell starts. `sdbsc` is a
program of its own: its processes interact only through the two files. MiniGrep and wordcount are alone.

## Modules

| Module | What it is |
|---|---|
| `RShell.tla` | server and clients over explicit TCP connections; properties and the strengthenings of the proofs |
| `ShellService.tla` | what the remote shell promises: connect, ask, be served in order, be answered once |
| `RShellTypes.tla`, `RShellProofs.tla` | its proofs |
| `Pipeline.tla` | one pipeline of N commands, in either function |
| `PipelineProofs.tla` | its proofs |
| `StudentDB.tla` | processes running `sdbsc` commands on shared files |
| `StudentMap.tla` | the map that a sequence of commands sees |
| `StudentDBProofs.tla`, `StudentMapProofs.tla` | proofs for commands side by side, and for commands one at a time |
| `CmdLine.tla` | the parser, a character at a time |
| `LineMeaning.tla` | what a line means, said of the whole line: the word each character is in, the parts between pipes |
| `CmdLineProofs.tla` | the parser's bounds, and that it returns what the line means, proved |
| `LocalShell.tla` | the four loops around the parser, with their children and stdio |
| `LocalShellProofs.tla` | their proofs, on top of the parser's |
| `Program.tla` | arguments, files and end of a program that runs once |
| `WordCount.tla`, `MiniGrep.tla`, `ModeSelection.tla` | three such programs, each with the answer expected of it |
| `Programs.tla` | one of the three is called; their properties |
| `ProgramsProofs.tla` | proofs of what they answer |
| `MC*.tla`, `MC*.cfg` | the instances TLC checks |

`LocalShell` EXTENDS the parser and composes with it: each line goes through the parser's steps. `Pipeline` stands for
what a line's commands do to each other; `LocalShell` and `RShell` hold only what their loops see of it.

A definition whose comment says "mutant" is no part of a specification. It is a plausible mistake in the definition
below it; substituting it makes the property named with it in `PROJECT.json` fail, which shows that the property
can fail.

### RShell

`spc` is where the server is between two system calls: `boot` (before `listen`), `accept`, `recv`, `exec` (inside
`rsh_execute_pipeline`), `text` and `eof` (a message, the marker still to be sent), `close`, `down`. `sess` is the client
whose socket is `cli_socket`. A client is at `start`, `prompt` (in `fgets`), `wait` (in its `recv` loop), or over. `conn` is
what the two kernels know of a connection; send and recv return what it says, including a reset after a close with
unread data, ECONNRESET once, and SIGPIPE after that (no handler is installed). `req` and `resp` are the two streams.
The server takes one `recv` as one line; the client's `recv` takes any non-empty prefix of its stream, so every way
of cutting it into chunks occurs.

Abstracted: a line is its kind (`LineKinds`), what the parser and the built-in table make of it; output is a
sequence of units tagged with the number of their line, any of which may be the marker byte when `OutBytes` says
so; a pipeline is its output and its exit code. `"exit "` and `"stop-server "` are lines that the server's parser trims
and the client's `strcmp` does not.

Not in this model: `dup2`, `execvp` and `fork` (they are in `Pipeline`); partial sends (a command's output to the socket
is written by the command, and the server's own messages are short); lines longer than the receive buffer.

### Pipeline

`pc` is the phase of the function, `next` its loop variable. `ends` are the pipes whose ends the shell holds, `reads` and
`writes` the ends a child holds: between `fork` and `Setup` it holds all the shell had. `dup2`, the closes and `execvp` of a
child are one step, because a child that has closed only some ends does nothing that one that has closed none does
not. `local` selects between the two functions where they differ: the clean-up after a failed `pipe` or `fork`, the exit
code of a child that cannot be executed, the result. `held` is what the shell's stdio had not written when it forked: a
child that cannot be executed ends with `exit` and writes its copy. A command is one of four kinds, which read all,
some or none of their input; a pipe holds `Cap` units. The last command's output goes to `shown`, the socket or the
terminal.

### StudentDB

Every action is a step around one system call: `Start` is `main`'s `open_db`; `AddLooks` the read and the duplicate check,
`AddWrites` the write; `Looks` is `get_student`; `ScanReads` one read of a scan; the five `Compress` actions follow
`compress_db`. `names` is the directory, `files` the inodes: a process that has opened `student.db` keeps its inode when a
compression renames another over it. A seek cannot interleave with anything (a descriptor belongs to one process)
and is part of the step it precedes. A record is its id and the number of the command that wrote it; `len` counts
half records, so that a write cut short at the end of a file, and what later reads make of it, is visible. With
`Exclusive` a command starts only when no other runs: one user at one prompt. `always` and `ever` are history: the
students that were there all the time, or at some time, since a running command started.

### CmdLine, LineMeaning and LocalShell

Pointers are positions: `cut` and `last` belong to the loop over `strtok_r`, `from` and `to` delimit the command being
copied, `src` is what is read next and `dst` how much was written. `at` is where in `build_cmd_buff` the parser is: in a
`gap` between words, in a `word`, in a `quoted` word, which ends with its quote, or in an `inner` quotation of a plain
word. `heap` counts the command buffers allocated. Within trimming and `strtok_r` nothing interesting happens, and
each is one step. The parser's text is the same in the four directories; `3-ShellP1` calls it on a list, `4-ShellP2` on one
command (`single`), the others on a list.

`LocalShell` runs a session: a part of the course, a script of lines, and whether standard input and output are a
terminal, a pipe or a file. `offset` is how far the input was read by anybody, `ahead` what the shell's stdio has read and
not returned: `fgets` on a file takes all there is, on a pipe what has arrived, on a terminal a line. `held` is
what the shell's stdio has not written yet. A command that reads its input moves `offset`. A command that cannot be
executed ends with `exit`, which writes its copy of `held` and, if the input is a file, seeks back over its copy of `ahead`.
In the parts with pipelines the prompt flushes `held` where the input is a terminal (prompts are printed there only).

Two variables are history, and no step depends on them: `failed`, set once a child could not execute its command,
and `refused`, the lines refused for their arguments so far. The properties that need them say so.

Abstracted: a unit of `offset` is a line, so the lines of a session have one length; prompts and `stderr` are left
out; a buffer of stdio never fills up by itself; a line's text on standard output is one unit; the children of a line
are forked in order and end in any order, what passes between them is in `Pipeline`; `dup2` does not fail.

### Program, WordCount, MiniGrep, ModeSelection

`Program` is what they share: a call (program, arguments, files), the argument in hand, what is left of the file being
read, the lines printed, the exit code. `WordCount` reads a character a step and opens one file after another.
`MiniGrep` takes a buffer a step (`Chunk` is what `fgets` returns, `CString` what the string functions see of it).
`ModeSelection` takes the options as `getopt` returns them, in order. Each module also says what the program is to print or
decide, of its arguments and files at once: lines and words of a text, lines that contain a pattern, options that
contradict each other.

## Hazards and properties

`PROJECT.json` lists the hazards at their lines. The properties that answer them:

- `QuietAtPrompt`, `ScreenIsTheOutput`: a client at its prompt has nothing under way, and saw all of its line's output and
  nothing else. Both can break only for a client whose own program wrote the byte 0x04.
- `RcIsOwn`: `rc` reports the same client's latest result, in every interleaving of sessions.
- `EndsOnlyWithCause`: the server ends for a stop request, for a failing call before a session, or because the client
  being served was killed or ran a program that wrote the marker. Nobody else can end it.
- `ImplementsService`: refinement to `ShellService`. `WaitEndsUnlessReading`: from any moment at which a client waits, it
  comes to stop waiting, or the server comes to a command that reads the socket of a connected client.
- `OutputIsComposed`: what a pipeline shows is a prefix of the composition of its commands, all of it on return; a command
  that cannot be executed contributes what the shell's stdio held. This is about standard output: the `perror` of the
  last command of a remote pipeline reaches the client as well, because its standard error is the socket
  (`rsh_server.c:544`), and is left out like all standard error.
- `ResultIsLast`: which exit code the remote shell reports. `NothingLeft`: no child and no pipe end is left, except where
  the remote function gives up in the middle when `pipe` or `fork` fails; of the children it leaves then
  `AllWaitedFor` speaks, which fails. `Returns`: termination.
- `OwnSlot`: in every file every record lies in the slot of its id.
- `AnswersAreTrue`: what a command run alone reported agrees with the database it leaves; an added student's record is there
  and whole. A found or duplicate student has a record that the end of the file does not cut off; one that was cut off and
  that a later add, by extending the file, made readable counts as a record.
- `ImplementsMap`: refinement to `StudentMap`, the students whose records are whole. An add stores its own record there, or
  nothing; a compression, and a write cut short, are no step at all.
- `CountInRange`, `AnswersWereTrue`: a scan beside other commands counts no fewer than were always there and no more than
  ever were; what an add, a delete or a lookup beside other commands says of its student was so at some time of its run.
- `FitsBuffer`, `FitsArrays`: the parser's unchecked writes stay within a command's buffer and the arrays.
- `ParseIsMeaning`: the parser's two passes return what `LineMeaning` says the line means.
- `HeapIsFreed`: however a line ended, at the next prompt nothing is allocated but P2's buffer. Sessions with a line that was
  refused for its arguments are excepted; `NothingAllocatedAtPrompt` has no exception, and fails for them.
- `RcIsLatest`: the second shell's `rc` is the last command's or `cd`'s, whatever lines were refused since.
- `EachLineOnce`: each line of the input goes to the shell or to a command that reads, once. `OutputFaithful`: the shell's
  texts come in order and once. `EndsUnlessSeeking`: the shell comes to the end of its input. All three under the condition
  that no command seeks the input back.
- `CountAnswer`, `GrepAnswer`, `MatchesAreReal`, `ModeAnswer`, `ProgramsEnd`: what the small programs print and decide is what
  their arguments and files say, and they end. `CountAnswer` and `GrepAnswer` are about calls in which no read fails.
  `GrepAnswer` says what is printed for files whose lines fit the buffer and hold no 0; for help and wrong arguments it
  says the exit code only. `MatchesAreReal` is about all files and includes failing reads.
- `ReadErrorIsReported`: `minigrep` exits with 3 when a read fails. It fails.

## Runs

| Run | Instance | States | Shows |
|---|---|---|---|
| `rshell` | 2 clients, 2 lines each, 2 units of output, marker bytes allowed, one client may be killed, commands that read the socket | 2.0 M | the safety properties of the remote shell |
| `rshell_service` | 2 clients, every kind of line, plain output, one client may be killed, boot and accept may fail | 384 k | `ImplementsService`, `WaitEndsUnlessReading` |
| `rshell_disconnect` | 1 client, 1 line | violation | `SurvivesDisconnect` fails |
| `pipeline` | both functions, 3 commands of any kind, capacity 1, all calls may fail, stdio empty or holding a line | 56 k | composition, exit code, clean-up, termination |
| `pipeline_strays` | the remote function, 2 commands, fork may fail | violation | `AllWaitedFor` fails |
| `studentdb` | 5 commands one after another, ids -1..3 of which 1..2 are valid, all faults, kills | 57 k | types, slots, true answers, the map |
| `studentdb_shared` | 3 processes, 4 commands among add, delete, zero, scan, find; processes symmetric | 223 k | `CountInRange`, `AnswersWereTrue` |
| `studentdb_lost` | an add beside a compression | violation | `AddedIsThere` fails |
| `dsh` | every line of up to 6 characters over a letter, blank, pipe and `"`, up to 5 over a letter, blank and both quotes, and longer ones that exceed `CMD_MAX` = 3; sessions of 2 or 3 lines in every loop, input and output a terminal, a pipe or a file; malloc and fork may fail | 250 k | the parser and the loops |
| `dsh_leak` | a line with too many arguments, in each loop | violation | `NothingAllocatedAtPrompt` fails |
| `programs` | minigrep with every text of up to 4 characters, 4 patterns, 8 sets of flags and wrong ones, a buffer of 3; wordcount with every text of up to 4 characters and lists of files; every list of up to 4 options | 94 k | the three programs' answers where no read fails, matches also where one does; termination |
| `programs_unread` | minigrep with 5 sets of flags on a file of two lines, reads may fail | violation | `ReadErrorIsReported` fails |

Why the bounds are enough. Two clients make one that is served and one that waits; two lines make a response that
could be taken for another's and a result that could be stale; two units of output make a response that can be cut.
Three commands have a first, a middle and a last one, with two pipes, so that an end of one pipe can be held by a
process that does not use it; two units against a capacity of one make writers block. Two ids make a slot other than
one's own, the first hole and the last slot; five commands make add, interrupted compression, delete, add again,
compression. In `studentdb_shared` a scan meets up to three other commands, which is enough for a student added
and one removed on either side of the scan's position, and two adds of one id meet a delete. Six characters hold a
quoted blank, a quoted pipe, a quote in a word with something before and behind it, and two empty commands beside a real
one; five hold either quote within the other. A buffer of 8 leaves the six-character lines room for one
character more than they need; for every length there is the proof. Three lines make a line read ahead while another
runs and a third behind it. `MaxTexts` bounds what a session says, which matters only where a file is read again and
again. A buffer of three characters is exceeded by the texts of four.

Deadlock checking is off in every run because every instance ends: clients are started at most once, a pipeline, a
session or a program runs once, the number of commands is bounded, and a server without clients waits in `accept`.
What must not stop early is stated as `WaitEndsUnlessReading`, `Returns`, `EndsUnlessSeeking` and `ProgramsEnd`.

### What the violations show

1. A client killed with output unread resets its connection; `recv` returns -1, `exec_client_requests` a negative code, and
   `process_cli_requests` ends the server (`rsh_server.c:297`, `231`), where `rshlib.h:185` ends the session only.
2. When `fork` fails, `rsh_execute_pipeline` returns without waiting for the children it has (`rsh_server.c:517`);
   `execute_pipeline` of `5-ShellP3` does wait, and `rshlib.h:239` says so.
3. An add that has opened `student.db` when a compression renames over it reports success and is lost
   (`sdbsc.c:571` against `sdbsc.c:110`). Nothing in the program keeps two commands from running at once.
4. A line refused for its number of arguments leaves one command buffer allocated: `build_cmd_list` counts a buffer only
   after `build_cmd_buff` accepted it, and `free_cmd_list` frees what is counted (`6-RShell/dshlib.c:280-283`, 80-87).
   `3-ShellP1/dshlib.h:246` and `5-ShellP3/dshlib.h:268` say "Free memory before next iteration", the comment of
   `free_cmd_list` "It frees all allocated memory", and the makefiles run the shells under valgrind's leak check, on input
   that has no such line.
5. `minigrep` takes a read error for the end of the file (`minigrep.c:219`) and exits with 0 or 1, where
   `1-MiniGrep/readme.md:58` promises 3.

### Seen while modelling

The models do what the code does here as well. The first four disagree with something the repository says; they are
exceptions that the properties name, and no run is spent on each.

- A command that reads its standard input, alone or first in a pipeline, reads the client's socket (`rsh_server.c:528`), and
  the client sends nothing before the answer: both wait for ever, and every client behind them. `6-RShell/readme.md:635`
  expects no hangs. `StuckReading` is this state, and `WaitEndsUnlessReading` says that nobody waits for ever outside it.
- A shell whose input is a file runs lines again, and may never end, when they name commands that do not exist: the child's
  `exit` (`5-ShellP3/dshlib.c:380`, `594`) lets stdio seek the shared file back over what the shell has read ahead.
  `5-ShellP3/test_dsh3.py:236` expects the shell to go on and to exit normally, but feeds a pipe, where nothing can be
  sought back. `NothingSeeks` excludes this.
- An add whose write is cut short reports an error and leaves part of a record (`sdbsc.c:182`). Readers refuse it while it is
  the end of the file (`sdbsc.c:84`); the next add of a larger id extends the file, and `find` then returns the part with
  zeros behind it, where the comment of `get_student` (`sdbsc.c:57`) has a located student. `AnswersAreTrue` allows this.
- When `pipe` fails after others were made, `rsh_execute_pipeline` returns with their ends open (`rsh_server.c:505-508`);
  `rshlib.h:238` has the parent close all pipes, and `execute_pipeline` of `5-ShellP3` does. `Abandoned` excludes this.
- A word that opens with a quote ends where the quote closes, and a quote within a word joins: `"a"b` is two words, `a"b"` one.
  A pipe within quotes cuts the line all the same. `LineMeaning` says so.
- `minigrep`: `-nh` is an unknown option although `-h` is help; a line longer than the buffer is numbered and counted in pieces.
- `wordcount` takes a failing read for the end of the file, and prints no total when a file does not open.
- `dsh`: `-i` and `-p` are refused before `-c` or `-s`; an address is cut to its buffer.

## Fairness

`RShell`'s `FairSpec` assumes weak fairness of the server's steps, of each client's receiving, and of each user at a prompt
(who types a line or ends the input). The first two are processes the kernel schedules, and include that programs
end, but for one that reads its input: in the model it ends when its input does. The third is needed because a server
that serves one session at a time makes a queued client wait for the user of the current one; nothing in the code ends
an idle session. No fairness is assumed of connecting, of kills
and of faults. `Pipeline` assumes weak fairness of the shell and of every command: each can run whenever it is not
blocked, and the four kinds of commands all end. `LocalShell` assumes it of the loop, of the parser and of each child:
whoever feeds the input goes on to its end, and commands end. `Programs` assumes it of the one program: a stream has an
end. `StudentDB` states safety only: no command waits for another.

## Proofs

TLAPS proves the following for every value of the constants that satisfies the module's assumption. The assumptions
say what the code's types say: the sizes of buffers and arrays are positive, lines, texts and arguments are sequences of
characters, `getopt`'s values are numbers where the code calls `atoi`.

### `RShell`

`TypeCorrect`, `RcCorrect`, `QuietCorrect`, `ScreenCorrect`, `EndsCorrect`, `ServiceCorrect` (the last on the condition that
programs do not write the marker byte). None of the properties is inductive. The argument has layers, each relative to
the ones before it:

1. `TypeOK`, with a session open exactly inside `exec_client_requests`.
2. `ConnInv`: the state of a connection follows from where its client is; a connection open at the server is the
   session's or is queued once. Without it a send to a queued client or a second session cannot be excluded.
3. `LockInv`: the one outstanding line of a waiting client is in its socket, in the server's hands, answered up to the
   marker (which is then the last unit of the stream) or dropped with the connection. This is why `QuietAtPrompt`
   and `ScreenIsTheOutput` hold, for each client whose programs did not write the marker.
4. `RcInv`: a client that was not served yet has no result, so a fresh `last_rc` is its own.
5. `CountInv` and `CleanInv`: how many lines were typed, taken up and answered, from which every step of `RShell` is a
   step of `ShellService` or leaves it unchanged.

### `Pipeline`

`TypeCorrect`, `NothingLeftCorrect`, `WaitedCorrect` (no child is left at all if the function is the local one or `fork`
does not fail) and `ResultCorrect`. The invariant `Inv` adds to the types `ChildrenInv` (who was forked and who was waited
for, by the shell's position), `ResultInv` (what is decided so far, and that a child that ended has a code: without it the
exit code has no type) and `FirstInv` (the first command does not read).

`OutputCorrect`: what is shown is a beginning of the composition of the commands, and all of it after a return without
error. `StreamInv` is the reason: there is a function `got`, which gives each command all it has had to write, such that
what a command wrote is what the next one read, then what is in the pipe, then what it is about to write (`Flows`), and what
it has had to write is what its kind makes of what it read (`Makes`). `OpenInv` and `KilledInv` exclude an end of file that
comes early: an empty pipe has one only when its writer ended by itself. What a command promises is defined by
recursion over the commands; if some command had got other than a beginning of its promise there would be a least one
(`WFMin`), whose predecessor kept to its own, and the two are one step apart.

### `CmdLine` and `LocalShell`

`ParserTypesCorrect`, `FitsBufferCorrect` and `FitsArraysCorrect`, for every line with its 0 within the buffer's size. The
code does not compare what it writes with the size of the buffer. `CopyInv` is why it need not: what was written never
exceeds what was read, but for one terminator between words whose blank is still to be read; a quote gains a character,
its closing one at the end of the line gains none. So `dst` ends at most one above the length of the command, which with
its 0 is within the line. The assumption holds for the local loops, whose `fgets` leaves room for the 0; the server's
receive buffer is larger than a command's, so that for it nothing is claimed.

`MeaningCorrect`: the parser returns what `LineMeaning` says of the line (its error, or the words of each part), for every
line, as a list and as one command, and every `CMD_MAX` and `CMD_ARGV_MAX`; only `ERR_MEMORY` is excepted. The parser goes
through the line once and changes its lists as it goes; the meaning numbers the positions of the whole line. The two
are related in three steps:

- Facts about the meaning alone. `OpenQuote` and `WordOf` are recursive functions over positions; that such a function exists
  and unfolds (`StepsExist`) is shown by the least position up to which none would (`WFMin`), and from then on only the
  unfolded form is used (`OpenQuoteIs`, `WordOfIs`). `WordsNext` says how `WordsTo(s, n)`, the words of the first n characters,
  changes with one more character: not at all, by a new word, or by one character at the end of the last word.
- A command. `Reads(s, i, at, quote, argv)` is what the parser knows after i characters: `argv` is `WordsTo(s, i)`, and `at` and
  `quote` are what `OpenQuote` and `WordOf` say of the i-th character. One exception has to be in it: where the parser has
  noticed a word but not its first character, `argv` has an empty word more. Each `Reads...` lemma is one kind of character.
- A line. `InList(n)`: the loop over `strtok_r` stands behind a pipe (or at the start, or behind the end) of the trimmed line,
  n parts begin before it, and each part before the one in hand was accepted and is in `commands` with its words.
  `PartNext` says that the run `strtok_r` finds is the next part, `PartsFew` that the check of `CMD_MAX` inside the loop is never
  reached once the pipes were counted. A refusal then refuses the first bad part, as `Meaning` does.

`MeaningInv` is their conjunction by the parser's position, together with the answer itself.

In the loops (`LocalShellProofs`), for every set of sessions: `ShellTypes`, `ShellFits` and `ShellMeaning` (the parser's
invariants hold line after line, whatever the lines before left behind), `ShellHeap`, `ShellReturnCode`, `ShellLines` and
`ShellOutput`. Each rests on a part of `LoopInv`:

- `ParsedInv`: a line is refused and leaves no command, or leaves one, and exactly one in P2. `JobsInv`: there is a child
  for each, forked in their order.
- `MeansInv`: while a line is parsed, `MeaningInv` holds of it; every line starts it anew.
- `HeapInv`: the buffers allocated are those of the list, the one being filled, and one for each line that was refused for
  its arguments. At the prompt the first two are gone; where there was no such line `HeapIsFreed` follows.
- `StatusInv`: in P2 the status kept is the one of the latest command between any two steps that could change it.
- `LinesInv`: what was read ahead is what follows the line in hand, and every line before the offset went one way, to the
  loop or to a child, unless it is still read ahead.
- `TextsInv`: what was shown and what is held are texts of lines up to the one in hand, increasing on a terminal, and apart
  from each other unless a child's `exit` wrote its copy of what is held.

### `StudentDB`

For any number of processes side by side, with every fault: `TypeCorrect` (no command seeks or writes past the slot of the
largest id) and `OwnSlotCorrect`. The strengthening is `RunInv`: a process past its first `open` has a descriptor, one
about to write has an id within the slots, and a scan's count is at most its position. `Fresh`, the inode a new file gets,
exists because names and descriptors are fewer than inodes (`AnInodeIsFree`, by counting).

`CountCorrect` and `WereTrueCorrect` (`CountInRange`, `AnswersWereTrue`) for any number of processes, when none of them
compresses; `studentdb_lost` shows that with a compression beside it an answer need not be true. `SharedInv` says that
then every running command has the named file open, and what each `Saw`: the students there all the time are there now,
and those there now were there at some time; a scan has counted at least as many as were always below its position, and no
more than ever were; an add about to write saw its slot blank, so its student was not there all the time. The steps of
others only shrink `always` and add to `ever`, so only the scan's own read needs counting (`BelowCounts`).

`StudentMapProofs`, for commands one at a time: `AnswersCorrect` and `MapCorrect`, the refinement to `StudentMap`. `OneInv` says
that one command runs and it is the latest, and what that command `Knows` of the database: its descriptor is the named
file; an add about to write has found its slot blank; a compression's copy agrees with the database below its position
and is empty above it, the record in hand being the one at the position before; a scan's count is the number of
students below its position. So a rename puts in place a file with the same records, and each step stores what
`StudentMap` allows or nothing: a record cut short is no student of the map, and neither storing, copying nor deleting
one is a step of it.

### `Programs`

`TypeCorrect`, `ModeCorrect`, `MatchesCorrect`, `CountsCorrect` and `ReportCorrect`, for all calls: any arguments, any files, any
size of the buffer.

- `ModeInv`: the options taken so far decide mode, address and port, and none of them ends the program; the one in hand
  ends it exactly if it is the first of `Ending`.
- `GrepInv`: the flags taken are those asked for up to the one in hand; then what is left of the file is an end of it, and
  if something was counted the pattern is in the file. A buffer is a piece of the file, what the string functions see is
  a beginning of the buffer, and where `str_match` finds the pattern it is in both.
- `CountInv`: `count_stream`'s counts are those of what it has read up to its position (`CountsUpTo`: one character more adds
  at most one line and one word), `in_word` says whether the last character was part of a word, the totals are the
  recursively defined `Sums` of the files before the one in hand.
- `ReportInv`: where each line fits the buffer, `fgets` takes exactly the next line (`ChunkIsLine`, `LineIs`); so `line_number` is
  one more than the ends of lines passed, `match_count` the number of wanted lines before it, and the output has the n-th
  wanted line at its n-th place (`NextNth`: numbering a set of numbers in their order, by counting the smaller ones).

### Only model-checked

All liveness: `WaitEndsUnlessReading`, `Returns`, `EndsUnlessSeeking`, `ProgramsEnd`. Every safety property of a passing run is a theorem. What the
proofs do not say: `ShellMeaning` is about the lines the loops hand to the parser; that `LineMeaning` is what a user would
call the meaning of a line is a matter of reading it, and TLC evaluates it on every short line.

## Plan

- `RemotePipeline`: `Pipeline` under `RShell`, so that what the session assumes of a pipeline (output units, then a code) is
  what the pipeline does, and children left by a failed `fork` meet the next line on the socket.

## Not modelled

Formatting, messages on `stderr`, usage and error messages on standard output (`output` of `Program` holds the counts and
lines that `wordcount` and `minigrep` print, and nothing of what `minigrep` prints for help and wrong arguments), the Python tests, the traces and answers in prose, the ASCII dragon and the vendored
packages. The flag `-x` is parsed but the server has no threaded mode to turn on, so `RShell` has one session at a time.
The standard error of a remote pipeline's commands is left out: of the earlier ones it goes to the server's terminal, of
the last one to the client. The working
directory a client's `cd` leaves to the next client is in `RShell`'s state, with no property: nothing says what it ought to be.
