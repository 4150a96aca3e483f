---- MODULE Programs ----
(***************************************************************************)
(* wordcount, minigrep and dsh's start, one of which is called; each runs  *)
(* alone, to its end.                                                      *)
(***************************************************************************)
EXTENDS WordCount, MiniGrep, ModeSelection

vars == <<program, wordcount, minigrep, cargs>>

Init == ProgramInit /\ WordCountInit /\ MiniGrepInit /\ ModeInit

Next ==
    \/ WordCountStep /\ UNCHANGED <<minigrep, cargs>>
    \/ MiniGrepStep /\ UNCHANGED <<wordcount, cargs>>
    \/ ModeStep /\ UNCHANGED <<wordcount, minigrep>>

\* A stream that is read has an end.
Spec == Init /\ [][Next]_vars /\ WF_vars(Next)

----
(* Properties. *)

\* Everything keeps its type; fgets never fills more than its buffer
\* (minigrep.c:219).
TypeOK ==
    /\ pc \in {"start", "open", "count", "lines", "ended", "runs"}
    /\ arg \in 1..(argc + 1) /\ unread \in BOOLEAN /\ code \in {NoCode} \cup 0..4
    /\ WordCountTypes /\ MiniGrepTypes /\ ModeTypes

Ended(p) == call.program = p /\ pc = "ended"

\* Unless a read fails, wordcount prints what its files hold, up to the first that
\* does not open; that one costs the total and the exit code (wordcount.c:104-127).
CountAnswer ==
    Ended("wordcount") /\ ~unread =>
      /\ output = CountReport
      /\ code = IF BadOption \/ ~AllOpen THEN 1 ELSE 0

\* Unless a read fails, which is ReadErrorIsReported's: minigrep tells help and
\* wrong arguments by its exit code, and in a file whose lines fit its buffer it
\* says which lines match, numbers and counts them, and its exit code tells whether
\* any did (minigrep.c:130-292).  Nothing is said of usage and error messages.
GrepAnswer ==
    Ended("minigrep") /\ ~unread =>
      CASE AsksHelp              -> code = 0
        [] ~AsksHelp /\ Malformed -> code = 2
        [] OTHER ->
             \/ code = 4 /\ "malloc" \in Faults
             \/ code = 3 /\ ~Readable
             \/ /\ Readable
                /\ Plain => output = GrepReport /\ code = (IF Wanted = {} THEN 1 ELSE 0)

\* "3 = file error (cannot open, read error)" (1-MiniGrep/readme.md:58): a read
\* that fails shows in the exit code.  minigrep.c:219 violates it: fgets returns
\* NULL, which is taken for the end of the file.
ReadErrorIsReported == Ended("minigrep") /\ unread => code = 3

\* Whatever the length of the lines, the zeros in them and the errors in reading
\* them: what minigrep finds is somewhere in the file (minigrep.c:62-115, 219).
MatchesAreReal ==
    Ended("minigrep") /\ Readable /\ "v" \notin AskedFlags /\ code = 0 =>
      Contains(Contents, args[Pattern], "i" \in AskedFlags)

\* dsh starts in the mode asked for, at the last address and port given or the
\* mode's own, if no option comes too early, contradicts another or has a bad
\* value; else the first that does decides how it ends (dsh_cli.c:48-105).
ModeAnswer ==
    call.program = "dsh" =>
      /\ pc = "ended" => Ending # {} /\ code = (IF Min(Ending) \in Shows THEN 0 ELSE EXIT_FAILURE)
      /\ pc = "runs" =>
           /\ Ending = {}
           /\ mode = (IF At("s") # {} THEN MODE_SSVR ELSE IF At("c") # {} THEN MODE_SCLI ELSE MODE_LCLI)
           /\ port = (IF At("p") # {} THEN atoi(Tail(args[Max(At("p"))])) ELSE RDSH_DEF_PORT)
           /\ ip = (IF At("i") # {} THEN Fitting(Tail(args[Max(At("i"))]))
                    ELSE IF At("s") # {} THEN RDSH_DEF_SVR_INTFACE
                    ELSE IF At("c") # {} THEN RDSH_DEF_CLI_CONNECT ELSE <<>>)
           /\ threaded_server = (At("x") # {})

\* Every program gets through its arguments and its input.
ProgramsEnd == <>(pc \in {"ended", "runs"})
====
