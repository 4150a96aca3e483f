---- MODULE Program ----
(***************************************************************************)
(* What a program that is started, works through its arguments and exits   *)
(* has: WordCount, MiniGrep and ModeSelection each add their own state.    *)
(* Words are sequences of characters; args leaves argv[0] out.             *)
(***************************************************************************)
EXTENDS Integers, Sequences, FiniteSets

CONSTANTS
    Chars,    \* what a character may be
    Calls,    \* records: program, args, files (the contents of those that open)
    Faults    \* what may fail: "malloc", "read"

ASSUME ProgramAssumption ==
    \A c \in Calls : /\ c.args \in Seq(Seq(Chars))
                     /\ \A f \in DOMAIN c.files : c.files[f] \in Seq(Chars)

VARIABLES
    call,     \* the one that is made
    pc,       \* where main is; "ended" after exit
    arg,      \* argument in hand
    text,     \* what is left of the stream that is read
    output,   \* counts and lines printed, a record each; no usage, no error message
    unread,   \* did reading fail?
    code      \* exit code

program == <<call, pc, arg, text, output, unread, code>>

NoCode == -1
Newline == "\n"
Space   == " "
Nul     == "0"

args    == call.args
argc    == Len(args)
Opens(f) == f \in DOMAIN call.files

ProgramInit ==
    /\ call \in Calls /\ pc = "start" /\ arg = 1
    /\ text = <<>> /\ output = <<>> /\ unread = FALSE /\ code = NoCode

Finish(c) == pc' = "ended" /\ code' = c
Goto(p)   == pc' = p /\ UNCHANGED code
PrintLine(r)  == output' = Append(output, r)

\* A read error ends a stream like its end does.
ReadFails ==
    /\ "read" \in Faults /\ text # <<>>
    /\ text' = <<>> /\ unread' = TRUE
====
