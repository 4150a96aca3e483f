---- MODULE CmdLine ----
(***************************************************************************)
(* The command-line parser the shells share, the same text in each of them *)
(* (3-ShellP1, 4-ShellP2, 5-ShellP3, 6-RShell: dshlib.c): build_cmd_list   *)
(* cuts a line at the pipes, build_cmd_buff copies each part, a character  *)
(* at a time and without its quotes, into a buffer of its own and points   *)
(* argv into it.  Pointers are positions: src and the strtok_r state in    *)
(* the line, dst in the buffer; the line is never longer than fgets lets   *)
(* it be.  isspace is Blank.                                               *)
(***************************************************************************)
EXTENDS Integers, Sequences, FiniteSets

CONSTANTS
    Letters,      \* characters that mean nothing to the parser
    CMD_MAX,      \* commands in a pipeline
    BuffSize,     \* SH_CMD_MAX: size of the line and of a command's buffer
    Faults        \* calls that may fail: "malloc", and in LocalShell "fork"

Blank       == " "
PIPE_CHAR   == "|"
DoubleQuote == "\""
Quotes      == {DoubleQuote, "'"}
Chars       == Letters \cup {Blank, PIPE_CHAR} \cup Quotes

CMD_ARGV_MAX == CMD_MAX + 1
Lines        == {l \in Seq(Chars) : Len(l) < BuffSize}

ASSUME CmdLineAssumption ==
    /\ CMD_MAX \in Nat \ {0} /\ BuffSize \in Nat \ {0}
    /\ Letters \cap ({Blank, PIPE_CHAR} \cup Quotes) = {}

OK                      == 0
WARN_NO_CMDS            == -1
ERR_TOO_MANY_COMMANDS   == -2
ERR_CMD_OR_ARGS_TOO_BIG == -3
ERR_MEMORY              == -5

VARIABLES
    line,       \* cmd_line
    single,     \* is build_cmd_buff called for the line, without a list?
    at,         \* where the parser is
    cut, last,  \* strtok_r's next position; the end of the trimmed line
    from, to,   \* the command being copied, trimmed
    src, dst,   \* what is read next, and how much was written
    quote,      \* quote_char
    argv,       \* cmd_buff->argv, argc being its length
    commands,   \* clist->commands, num being its length
    heap,       \* command buffers allocated and not freed
    rc          \* what was returned

position == <<cut, last, from, to, src>>
reading  == <<line, single, at, position, dst, quote, argv>>
parser   == <<reading, commands, heap, rc>>

IsBlank(a, b)   == \A i \in a..b : line[i] = Blank
PipeCount(a, b) == Cardinality({i \in a..b : line[i] = PIPE_CHAR})

\* trim_ws_inplace: a..b is what is left of lo..hi.
Trims(lo, hi, a, b) ==
    /\ lo <= a /\ a <= b /\ b <= hi
    /\ line[a] # Blank /\ line[b] # Blank
    /\ IsBlank(lo, a - 1) /\ IsBlank(b + 1, hi)

\* strtok_r: a..b is the next run without a pipe.
IsSegment(a, b) ==
    /\ cut <= a /\ a <= b /\ b <= last
    /\ \A i \in cut..(a - 1) : line[i] = PIPE_CHAR
    /\ \A i \in a..b : line[i] # PIPE_CHAR
    /\ b < last => line[b + 1] = PIPE_CHAR

\* A line and no command yet; build_cmd_buff has the caller's buffer.
Parse(l) ==
    /\ line' = l /\ at' = "line" /\ commands' = <<>>
    /\ UNCHANGED <<single, position, dst, quote, argv, heap, rc>>

RejectUnfreed(r) ==                             \* mutant: no free_cmd_list
    /\ at' = "parsed" /\ rc' = r
    /\ commands' = <<>>
    /\ heap' = heap

\* free_cmd_list frees the commands counted so far, and no other.
Reject(r) ==
    /\ at' = "parsed" /\ rc' = r
    /\ commands' = <<>>
    /\ heap' = IF single THEN heap ELSE heap - Len(commands)

\* clear_cmd_buff, and the first character.
StartBuff(a, b) ==
    /\ at' = "gap" /\ from' = a /\ to' = b /\ src' = a
    /\ dst' = 0 /\ argv' = <<>>

TrimLine ==
    /\ at = "line"
    /\ \/ /\ IsBlank(1, Len(line)) /\ Reject(WARN_NO_CMDS)
          /\ UNCHANGED <<position, dst, argv>>
       \/ \E a, b \in 1..Len(line) :
            /\ Trims(1, Len(line), a, b)
            /\ \/ /\ single /\ StartBuff(a, b)
                  /\ UNCHANGED <<cut, last, commands, heap, rc>>
               \/ /\ ~single /\ PipeCount(a, b) + 1 > CMD_MAX /\ Reject(ERR_TOO_MANY_COMMANDS)
                  /\ UNCHANGED <<position, dst, argv>>
               \/ /\ ~single /\ PipeCount(a, b) + 1 <= CMD_MAX
                  /\ at' = "list" /\ cut' = a /\ last' = b
                  /\ UNCHANGED <<from, to, src, dst, argv, commands, heap, rc>>
    /\ UNCHANGED <<line, single, quote>>

\* The loop of build_cmd_list: alloc_cmd_buff for the next command.
NextSegment ==
    /\ at = "list"
    /\ \E a, b \in cut..last :
         /\ IsSegment(a, b)
         /\ IF Len(commands) >= CMD_MAX
            THEN Reject(ERR_TOO_MANY_COMMANDS) /\ UNCHANGED <<position, dst, argv>>
            ELSE \/ /\ IsBlank(a, b) /\ Reject(WARN_NO_CMDS)
                    /\ UNCHANGED <<position, dst, argv>>
                 \/ /\ ~IsBlank(a, b) /\ "malloc" \in Faults /\ Reject(ERR_MEMORY)
                    /\ UNCHANGED <<position, dst, argv>>
                 \/ \E c, d \in a..b :
                      /\ Trims(a, b, c, d) /\ StartBuff(c, d)
                      /\ heap' = heap + 1 /\ cut' = b + 2
                      /\ UNCHANGED <<last, commands, rc>>
    /\ UNCHANGED <<line, single, quote>>

NoMoreSegments ==
    /\ at = "list" /\ \A i \in cut..last : line[i] = PIPE_CHAR
    /\ IF commands = <<>> THEN Reject(WARN_NO_CMDS)
       ELSE at' = "parsed" /\ rc' = OK /\ UNCHANGED <<commands, heap>>
    /\ UNCHANGED <<line, single, position, dst, quote, argv>>

----
(* build_cmd_buff. *)

Here    == line[src]
Left    == src <= to
Goto(a) == at' = a
Read    == src' = src + 1

FullLate == Len(argv) > CMD_ARGV_MAX - 1        \* mutant: no room for NULL

\* argv keeps its last place for NULL.
Full == Len(argv) >= CMD_ARGV_MAX - 1

PassAlways == src' = src + 1                    \* mutant: quote or not

\* Its quote, if there is one: an open quote ends with the command.
PassQuote == src' = IF Left THEN src + 1 ELSE src

Copy ==
    /\ dst' = dst + 1 /\ Read
    /\ argv' = [argv EXCEPT ![Len(argv)] = Append(@, Here)]

TerminateTwice == dst' = dst + 2 /\ UNCHANGED argv  \* mutant: and one more

\* The terminating 0.
Terminate == dst' = dst + 1 /\ UNCHANGED argv

SkipBlank ==
    /\ at = "gap" /\ Left /\ Here = Blank
    /\ Read
    /\ UNCHANGED <<at, dst, quote, argv, commands, heap, rc>>

\* The buffer in hand is not one of the commands Reject frees.
TooManyArgs ==
    /\ at = "gap" /\ Left /\ Here # Blank /\ Full
    /\ Reject(ERR_CMD_OR_ARGS_TOO_BIG)
    /\ UNCHANGED <<src, dst, quote, argv>>

StartWord ==
    /\ at = "gap" /\ Left /\ Here # Blank /\ ~Full
    /\ argv' = Append(argv, <<>>)
    /\ IF Here \in Quotes THEN Goto("quoted") /\ quote' = Here /\ Read
                          ELSE Goto("word") /\ UNCHANGED <<quote, src>>
    /\ UNCHANGED <<dst, commands, heap, rc>>

\* A word that opens with a quote ends where the quote closes.
QuotedWordGoesOn ==                             \* mutant: the word goes on
    /\ at = "quoted"
    /\ IF Left /\ Here # quote THEN Copy /\ UNCHANGED at
       ELSE PassQuote /\ Goto("word") /\ UNCHANGED <<dst, argv>>
    /\ UNCHANGED <<quote, commands, heap, rc>>

QuotedWord ==
    /\ at = "quoted"
    /\ IF Left /\ Here # quote THEN Copy /\ UNCHANGED at
       ELSE PassQuote /\ Terminate /\ Goto("gap")
    /\ UNCHANGED <<quote, commands, heap, rc>>

PlainWord ==
    /\ at = "word"
    /\ IF ~Left \/ Here = Blank THEN Terminate /\ Goto("gap") /\ UNCHANGED <<quote, src>>
       ELSE IF Here \in Quotes THEN Read /\ quote' = Here /\ Goto("inner") /\ UNCHANGED <<dst, argv>>
       ELSE Copy /\ UNCHANGED <<at, quote>>
    /\ UNCHANGED <<commands, heap, rc>>

\* A quote within a word joins what it encloses to the word.
InnerQuote ==
    /\ at = "inner"
    /\ IF Left /\ Here # quote THEN Copy /\ UNCHANGED at
       ELSE PassQuote /\ Goto("word") /\ UNCHANGED <<dst, argv>>
    /\ UNCHANGED <<quote, commands, heap, rc>>

EndBuff ==
    /\ at = "gap" /\ ~Left
    /\ commands' = Append(commands, argv)
    /\ IF single THEN Goto("parsed") /\ rc' = OK ELSE Goto("list") /\ UNCHANGED rc
    /\ UNCHANGED <<src, dst, quote, argv, heap>>

BuffStep ==
    /\ SkipBlank \/ TooManyArgs \/ StartWord \/ QuotedWord \/ PlainWord \/ InnerQuote \/ EndBuff
    /\ UNCHANGED <<line, single, cut, last, from, to>>

ParserStep == TrimLine \/ NextSegment \/ NoMoreSegments \/ BuffStep

\* One line, whatever the heap holds already.
ParserInit ==
    /\ line \in Lines /\ single \in BOOLEAN /\ at = "line"
    /\ cut = 1 /\ last = 0 /\ from = 1 /\ to = 0 /\ src = 1 /\ dst = 0
    /\ quote \in Quotes /\ argv = <<>> /\ commands = <<>>
    /\ heap \in Nat /\ rc = OK

ParserSpec == ParserInit /\ [][ParserStep]_parser

----
(* Properties. *)

\* Where the positions are, whichever part of the line is being read.
PositionTypes ==
    /\ cut \in Nat \ {0} /\ last \in Nat /\ (at = "list" => last <= Len(line))
    /\ from \in Nat \ {0} /\ to \in Nat
    /\ at \in {"gap", "quoted", "word", "inner"} => to <= Len(line)
    /\ src \in from..(to + 1) /\ dst \in Nat

ParserTypes ==
    /\ line \in Lines /\ single \in BOOLEAN
    /\ at \in {"line", "list", "gap", "quoted", "word", "inner", "parsed"}
    /\ PositionTypes
    /\ quote \in Quotes
    /\ argv \in Seq(Seq(Chars)) /\ commands \in Seq(Seq(Seq(Chars)))
    /\ heap \in Int
    /\ rc \in {OK, WARN_NO_CMDS, ERR_TOO_MANY_COMMANDS, ERR_CMD_OR_ARGS_TOO_BIG, ERR_MEMORY}

\* What is written, terminators included, stays within the buffer, although
\* nothing in build_cmd_buff checks it (dshlib.c:144-217).
FitsBuffer == dst <= BuffSize

\* The arrays of cmd_buff_t and command_list_t are never overrun, the NULL after
\* the last argument included (dshlib.c:158-163, 214 and 259-262).
FitsArrays ==
    /\ Len(argv) <= CMD_ARGV_MAX - 1
    /\ Len(commands) <= CMD_MAX
====
