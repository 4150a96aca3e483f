---- MODULE ModeSelection ----
(***************************************************************************)
(* 6-RShell/dsh_cli.c: parse_args takes the options in the order getopt    *)
(* returns them, a word each: the letter, "?" if getopt refuses it, and    *)
(* its value; main then starts the mode they name.                         *)
(***************************************************************************)
EXTENDS Program

CONSTANTS
    atoi(_),        \* of the value of -p
    IpSize,         \* sizeof(cargs->ip)
    RDSH_DEF_PORT

ASSUME ModeAssumption ==
    /\ RDSH_DEF_PORT \in Nat \ {0}
    /\ \A c \in Calls : c.program = "dsh" => \A i \in DOMAIN c.args : atoi(Tail(c.args[i])) \in Int

VARIABLES mode, ip, port, threaded_server

cargs == <<mode, ip, port, threaded_server>>

MODE_LCLI == 0
MODE_SCLI == 1
MODE_SSVR == 2

RDSH_DEF_CLI_CONNECT == <<"127.0.0.1">>
RDSH_DEF_SVR_INTFACE == <<"0.0.0.0">>
EXIT_FAILURE         == 1

ModeInit ==
    /\ mode = MODE_LCLI /\ ip = <<>> /\ port = RDSH_DEF_PORT /\ threaded_server = FALSE

Opt    == args[arg][1]
OptArg == Tail(args[arg])

\* strncpy into cargs->ip.
Fitting(w) == IF Len(w) < IpSize THEN w ELSE SubSeq(w, 1, IpSize - 1)

Accept == arg' = arg + 1 /\ Goto(pc)
Refuse == Finish(EXIT_FAILURE) /\ UNCHANGED <<arg, cargs>>

PickTwice(m, address) ==                        \* mutant: the last one counts
    /\ mode' = m /\ ip' = address /\ Accept /\ UNCHANGED <<port, threaded_server>>

\* -c and -s: at most one, once.
Pick(m, address) ==
    IF mode # MODE_LCLI THEN Refuse
    ELSE mode' = m /\ ip' = address /\ Accept /\ UNCHANGED <<port, threaded_server>>

\* -i and -p: not before -c or -s.
SetIp ==
    IF mode = MODE_LCLI THEN Refuse
    ELSE ip' = Fitting(OptArg) /\ Accept /\ UNCHANGED <<mode, port, threaded_server>>

SetPort ==
    IF mode = MODE_LCLI \/ atoi(OptArg) <= 0 THEN Refuse
    ELSE port' = atoi(OptArg) /\ Accept /\ UNCHANGED <<mode, ip, threaded_server>>

SetThreaded ==
    IF mode # MODE_SSVR THEN Refuse
    ELSE threaded_server' = TRUE /\ Accept /\ UNCHANGED <<mode, ip, port>>

\* -h and what getopt refuses.
Usage == Finish(0) /\ UNCHANGED <<arg, cargs>>

ModeOption ==
    /\ pc = "start" /\ arg <= argc
    /\ \/ Opt = "c" /\ Pick(MODE_SCLI, RDSH_DEF_CLI_CONNECT)
       \/ Opt = "s" /\ Pick(MODE_SSVR, RDSH_DEF_SVR_INTFACE)
       \/ Opt = "i" /\ SetIp
       \/ Opt = "p" /\ SetPort
       \/ Opt = "x" /\ SetThreaded
       \/ Opt \in {"h", "?"} /\ Usage
    /\ UNCHANGED <<call, text, output, unread>>

\* The mode's loop, or the server, begins.
Start ==
    /\ pc = "start" /\ arg > argc
    /\ Goto("runs")
    /\ UNCHANGED <<call, arg, text, output, unread, cargs>>

ModeStep == call.program = "dsh" /\ (ModeOption \/ Start)

----
(* What is accepted, said of all the options at once. *)

ModeTypes ==
    /\ mode \in {MODE_LCLI, MODE_SCLI, MODE_SSVR} /\ port \in Nat \ {0}
    /\ threaded_server \in BOOLEAN

At(o)    == {i \in DOMAIN args : args[i][1] = o}
Modes    == At("c") \cup At("s")
Before(i) == 1..(i - 1)
Shows    == At("h") \cup At("?")
Bad(i)   == \/ i \in Modes /\ Modes \cap Before(i) # {}
            \/ i \in At("i") \cup At("p") /\ Modes \cap Before(i) = {}
            \/ i \in At("p") /\ atoi(Tail(args[i])) <= 0
            \/ i \in At("x") /\ At("s") \cap Before(i) = {}
Ending   == {i \in DOMAIN args : i \in Shows \/ Bad(i)}
====
