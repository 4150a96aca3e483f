---- MODULE MiniGrep ----
(***************************************************************************)
(* 1-MiniGrep/minigrep.c: flags, a pattern and a file, which is read with  *)
(* fgets into a buffer of LINE_BUFFER_SZ: a longer line comes in pieces,   *)
(* and what follows a 0 is not seen.                                       *)
(***************************************************************************)
EXTENDS Program, FiniteSetsExt

CONSTANTS
    LINE_BUFFER_SZ,
    tolower(_)

ASSUME MiniGrepAssumption == LINE_BUFFER_SZ \in Nat \ {0, 1}

VARIABLES
    flag,           \* flag_ptr, in the first argument
    flags,          \* show_line_nums, case_insensitive, count_only, invert_match
    line_buffer,
    line_number, match_count

minigrep == <<flag, flags, line_buffer, line_number, match_count>>

MiniGrepInit ==
    /\ flag = 2 /\ flags = {} /\ line_buffer = <<>>
    /\ line_number = 0 /\ match_count = 0

Fold(c, folded) == IF folded THEN tolower(c) ELSE c

StrMatchLate(s, p, folded) ==                   \* mutant: the line's end will do
    \/ p = <<>>
    \/ \E start \in DOMAIN s : \A k \in DOMAIN p :
         start + k - 1 <= Len(s) => Fold(s[start + k - 1], folded) = Fold(p[k], folded)

\* str_match: from some character on, the pattern is there to its end.
StrMatch(s, p, folded) ==
    \/ p = <<>>
    \/ \E start \in DOMAIN s : \A k \in DOMAIN p :
         /\ start + k - 1 <= Len(s)
         /\ Fold(s[start + k - 1], folded) = Fold(p[k], folded)

ChunkFull(t) ==                                 \* mutant: no room for the 0
    SubSeq(t, 1, Min({LINE_BUFFER_SZ, Len(t)} \cup {i \in DOMAIN t : t[i] = Newline}))

\* fgets: to the end of the line, if the buffer is large enough.
Chunk(t) == SubSeq(t, 1, Min({LINE_BUFFER_SZ - 1, Len(t)} \cup {i \in DOMAIN t : t[i] = Newline}))

\* What the string functions see of a buffer; the newline is not printed.
UpTo(s, c)  == LET ends == {i \in DOMAIN s : s[i] = c}
               IN IF ends = {} THEN s ELSE SubSeq(s, 1, Min(ends) - 1)
CString(s)  == UpTo(s, Nul)

IsFlags(w) == w # <<>> /\ w[1] = "-"

NoArguments ==
    /\ pc = "start" /\ argc = 0
    /\ Finish(2)
    /\ UNCHANGED <<call, arg, text, output, unread, minigrep>>

Help ==
    /\ pc = "start" /\ argc > 0 /\ IsFlags(args[1]) /\ Len(args[1]) > 1 /\ args[1][2] = "h"
    /\ Finish(0)
    /\ UNCHANGED <<call, arg, text, output, unread, minigrep>>

SameFlag == UNCHANGED flag                      \* mutant: no flag_ptr++

NextFlag == flag' = flag + 1

Flag ==
    /\ pc = "start" /\ argc > 0 /\ IsFlags(args[1]) /\ flag <= Len(args[1])
    /\ LET f == args[1][flag] IN
       /\ ~(flag = 2 /\ f = "h")
       /\ IF f \in {"n", "i", "c", "v"}
          THEN flags' = flags \cup {f} /\ NextFlag /\ Goto(pc)
          ELSE Finish(2) /\ UNCHANGED <<flags, flag>>
    /\ UNCHANGED <<call, arg, text, output, unread, line_buffer, line_number, match_count>>

FlagsEnd ==
    /\ pc = "start" /\ argc > 0 /\ (IsFlags(args[1]) => flag > Len(args[1]))
    /\ arg' = IF IsFlags(args[1]) THEN 2 ELSE 1
    /\ Goto("open")
    /\ UNCHANGED <<call, text, output, unread, minigrep>>

\* A pattern and a file name there must be; then malloc, then fopen.
GrepOpen ==
    /\ pc = "open"
    /\ \/ argc < arg + 1 /\ Finish(2) /\ UNCHANGED <<text, line_number>>
       \/ argc >= arg + 1 /\ "malloc" \in Faults /\ Finish(4) /\ UNCHANGED <<text, line_number>>
       \/ /\ argc >= arg + 1
          /\ IF Opens(args[arg + 1])
             THEN text' = call.files[args[arg + 1]] /\ line_number' = 1 /\ Goto("lines")
             ELSE Finish(3) /\ UNCHANGED <<text, line_number>>
    /\ UNCHANGED <<call, arg, output, unread, flag, flags, line_buffer, match_count>>

NextMatch == line_number' = line_number + match_count' - match_count  \* mutant: only a match has one

NextLine == line_number' = line_number + 1

\* A turn of the loop.
GrepLine ==
    /\ pc = "lines" /\ text # <<>>
    /\ line_buffer' = Chunk(text)
    /\ LET s == CString(line_buffer')
           found == StrMatch(s, args[arg], "i" \in flags) # ("v" \in flags)
       IN /\ match_count' = IF found THEN match_count + 1 ELSE match_count
          /\ IF found /\ "c" \notin flags
             THEN PrintLine([number |-> IF "n" \in flags THEN line_number ELSE 0, line |-> UpTo(s, Newline)])
             ELSE UNCHANGED output
    /\ NextLine
    /\ text' = SubSeq(text, Len(line_buffer') + 1, Len(text))
    /\ UNCHANGED <<call, pc, arg, unread, code, flag, flags>>

GrepReadFails ==
    /\ pc = "lines" /\ ReadFails
    /\ UNCHANGED <<call, pc, arg, output, code, minigrep>>

GrepEnd ==
    /\ pc = "lines" /\ text = <<>>
    /\ IF "c" \in flags THEN PrintLine([number |-> match_count]) ELSE UNCHANGED output
    /\ Finish(IF match_count > 0 THEN 0 ELSE 1)
    /\ UNCHANGED <<call, arg, text, unread, minigrep>>

MiniGrepStep ==
    /\ call.program = "minigrep"
    /\ \/ NoArguments \/ Help \/ Flag \/ FlagsEnd \/ GrepOpen
       \/ GrepLine \/ GrepReadFails \/ GrepEnd

----
(* What it is to print, said of the lines of the file. *)

MiniGrepTypes ==
    /\ flags \subseteq {"n", "i", "c", "v"} /\ flag \in Nat
    /\ Len(line_buffer) < LINE_BUFFER_SZ
    /\ line_number \in Nat /\ match_count \in 0..line_number

\* The n-th of a set of numbers, and the lines of a text, each with its newline.
NthOf(S, n) == CHOOSE m \in S : Cardinality({k \in S : k <= m}) = n
EndsOf(t)   == {i \in DOMAIN t : t[i] = Newline \/ i = Len(t)}
LinesOf(t)  == [n \in 1..Cardinality(EndsOf(t)) |->
                  SubSeq(t, IF n = 1 THEN 1 ELSE NthOf(EndsOf(t), n - 1) + 1, NthOf(EndsOf(t), n))]

\* With its case folded or not, is p somewhere in s?
Contains(s, p, folded) ==
    LET Folded(w) == [i \in DOMAIN w |-> Fold(w[i], folded)]
    IN \E i \in 1..(Len(s) - Len(p) + 1) : SubSeq(Folded(s), i, i + Len(p) - 1) = Folded(p)

\* The arguments: what is asked, where the pattern is, and what is wrong.
Given      == argc > 0 /\ IsFlags(args[1])
AskedFlags == IF Given THEN {args[1][i] : i \in 2..Len(args[1])} ELSE {}
Pattern    == IF Given THEN 2 ELSE 1
AsksHelp   == Given /\ Len(args[1]) > 1 /\ args[1][2] = "h"
Malformed  == ~(AskedFlags \subseteq {"n", "i", "c", "v"}) \/ argc < Pattern + 1

Contents   == call.files[args[Pattern + 1]]
FileLines  == LinesOf(Contents)
Readable   == ~AsksHelp /\ ~Malformed /\ Opens(args[Pattern + 1])
Plain      == \A n \in DOMAIN FileLines : Len(FileLines[n]) < LINE_BUFFER_SZ /\ Nul \notin {FileLines[n][i] : i \in DOMAIN FileLines[n]}
Wanted     == {n \in DOMAIN FileLines :
                 Contains(FileLines[n], args[Pattern], "i" \in AskedFlags) # ("v" \in AskedFlags)}

Printed(n) == [number |-> IF "n" \in AskedFlags THEN n ELSE 0, line |-> UpTo(FileLines[n], Newline)]
GrepReport ==
    IF "c" \in AskedFlags THEN <<[number |-> Cardinality(Wanted)]>>
    ELSE [n \in 1..Cardinality(Wanted) |-> Printed(NthOf(Wanted, n))]
====
