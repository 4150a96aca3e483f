---- MODULE WordCount ----
(***************************************************************************)
(* 0-Warmup/wordcount.c: options, then each file is counted, a character   *)
(* at a time, and its counts are printed before the next is opened.        *)
(***************************************************************************)
EXTENDS Program

VARIABLES
    columns,    \* show_lines, show_words, show_chars
    counts,     \* of the stream that is read: lines, words, chars
    in_word,
    total, num_files

wordcount == <<columns, counts, in_word, total, num_files>>

Columns == {"lines", "words", "chars"}
Asks    == [l |-> "lines", w |-> "words", c |-> "chars"]
StdIn   == <<"stdin">>
All     == <<"total">>
NoCounts == [k \in Columns |-> 0]

\* Standard input is always open.
ASSUME WordCountAssumption == \A c \in Calls : c.program = "wordcount" => StdIn \in DOMAIN c.files

WordCountInit ==
    /\ columns = {} /\ counts = NoCounts /\ in_word = FALSE
    /\ total = NoCounts /\ num_files = 0

IsSpace(c)  == c \in {Space, Newline}
IsOption(w) == w # <<>> /\ w[1] = "-"
Counts(w, k) == [name |-> w, columns |-> [c \in columns |-> k[c]]]

Option ==
    /\ pc = "start" /\ arg <= argc /\ IsOption(args[arg])
    /\ LET w == args[arg] IN
       IF Len(w) = 2 /\ w[2] \in DOMAIN Asks
       THEN columns' = columns \cup {Asks[w[2]]} /\ arg' = arg + 1 /\ Goto(pc)
       ELSE Finish(1) /\ UNCHANGED <<columns, arg>>
    /\ UNCHANGED <<call, text, output, unread, counts, in_word, total, num_files>>

OptionsEnd ==
    /\ pc = "start" /\ ~(arg <= argc /\ IsOption(args[arg]))
    /\ columns' = IF columns = {} THEN Columns ELSE columns
    /\ IF arg > argc THEN text' = call.files[StdIn] /\ Goto("count")
                     ELSE UNCHANGED text /\ Goto("open")
    /\ UNCHANGED <<call, arg, output, unread, counts, in_word, total, num_files>>

OpenGoesOn ==                                   \* mutant: a word across files
    /\ pc = "open" /\ arg <= argc /\ Opens(args[arg])
    /\ text' = call.files[args[arg]] /\ Goto("count")
    /\ counts' = NoCounts /\ UNCHANGED in_word
    /\ UNCHANGED <<call, arg, output, unread, columns, total, num_files>>

\* fopen, and count_stream begins.
Open ==
    /\ pc = "open" /\ arg <= argc /\ Opens(args[arg])
    /\ text' = call.files[args[arg]] /\ Goto("count")
    /\ counts' = NoCounts /\ in_word' = FALSE
    /\ UNCHANGED <<call, arg, output, unread, columns, total, num_files>>

CannotOpen ==
    /\ pc = "open" /\ arg <= argc /\ ~Opens(args[arg])
    /\ Finish(1)
    /\ UNCHANGED <<call, arg, text, output, unread, wordcount>>

Char ==
    /\ pc = "count" /\ text # <<>>
    /\ text' = Tail(text)
    /\ LET c == Head(text) IN
       /\ counts' = [counts EXCEPT !["chars"] = @ + 1,
                                   !["lines"] = @ + (IF c = Newline THEN 1 ELSE 0),
                                   !["words"] = @ + (IF ~IsSpace(c) /\ ~in_word THEN 1 ELSE 0)]
       /\ in_word' = ~IsSpace(c)
    /\ UNCHANGED <<call, pc, arg, output, unread, code, columns, total, num_files>>

CountReadFails ==
    /\ pc = "count" /\ ReadFails
    /\ UNCHANGED <<call, pc, arg, output, code, wordcount>>

\* print_counts: at the end of standard input, or of a file.
EndOfFile ==
    /\ pc = "count" /\ text = <<>>
    /\ IF arg > argc
       THEN Finish(0) /\ PrintLine(Counts(StdIn, counts)) /\ UNCHANGED <<arg, total, num_files>>
       ELSE /\ Goto("open") /\ PrintLine(Counts(args[arg], counts)) /\ arg' = arg + 1
            /\ total' = [k \in Columns |-> total[k] + counts[k]] /\ num_files' = num_files + 1
    /\ UNCHANGED <<call, text, unread, columns, counts, in_word>>

Total ==
    /\ pc = "open" /\ arg > argc
    /\ IF num_files > 1 THEN PrintLine(Counts(All, total)) ELSE UNCHANGED output
    /\ Finish(0)
    /\ UNCHANGED <<call, arg, text, unread, wordcount>>

WordCountStep ==
    /\ call.program = "wordcount"
    /\ \/ Option \/ OptionsEnd \/ Open \/ CannotOpen \/ Char \/ CountReadFails
       \/ EndOfFile \/ Total

----
(* What it is to print, said of its arguments and its files at once. *)

WordCountTypes ==
    /\ columns \subseteq Columns /\ in_word \in BOOLEAN
    /\ counts \in [Columns -> Nat] /\ total \in [Columns -> Nat]
    /\ num_files \in 0..argc

NewlinesOf(s)   == Cardinality({i \in DOMAIN s : s[i] = Newline})
WordStartsOf(s) == Cardinality({i \in DOMAIN s : ~IsSpace(s[i]) /\ (i = 1 \/ IsSpace(s[i - 1]))})
CountsOf(s)     == [lines |-> NewlinesOf(s), words |-> WordStartsOf(s), chars |-> Len(s)]

\* Options come first; a bad one, or a file that does not open, ends it there.
FirstFile == CHOOSE i \in 1..(argc + 1) :
               /\ \A j \in 1..(i - 1) : IsOption(args[j])
               /\ i <= argc => ~IsOption(args[i])
Files     == SubSeq(args, FirstFile, argc)
BadOption == \E i \in 1..(FirstFile - 1) : args[i] \notin {<<"-", o>> : o \in DOMAIN Asks}
Counted   == {i \in DOMAIN Files : \A j \in 1..i : Opens(Files[j])}
AllOpen   == Counted = DOMAIN Files

Asked == LET chosen == {Asks[o] : o \in {o \in DOMAIN Asks : \E i \in 1..(FirstFile - 1) : args[i] = <<"-", o>>}}
         IN IF chosen = {} THEN Columns ELSE chosen
Line(w, k) == [name |-> w, columns |-> [c \in Asked |-> k[c]]]
Sums[i \in 0..Len(Files)] ==
    IF i = 0 THEN NoCounts
    ELSE [c \in Columns |-> Sums[i - 1][c] + CountsOf(call.files[Files[i]])[c]]

CountReport ==
    IF BadOption THEN <<>>
    ELSE IF Files = <<>> THEN <<Line(StdIn, CountsOf(call.files[StdIn]))>>
    ELSE [i \in 1..Cardinality(Counted) |-> Line(Files[i], CountsOf(call.files[Files[i]]))]
         \o (IF AllOpen /\ Len(Files) > 1 THEN <<Line(All, Sums[Len(Files)])>> ELSE <<>>)
====
