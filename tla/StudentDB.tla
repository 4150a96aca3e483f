---- MODULE StudentDB ----
(***************************************************************************)
(* sdbsc (2-StudentDB/sdbsc.c): a process per command, all working on the  *)
(* file student.db, record i at offset i * 64.  Every system call that     *)
(* touches a file is a step of its own, between which other processes may  *)
(* run and the process may be killed.                                      *)
(*                                                                         *)
(* Abstraction: a record is its id, the number of the command that wrote   *)
(* it and whether all of it was written; a file is its length in HALF      *)
(* records, so that a short write shows, and its slots.  A write is short  *)
(* only where it extends the file, at a limit of the process or the disk,  *)
(* and stops half way, past the id.  The scans of count_db_records and     *)
(* print_db are the same walk, here "scan".                                *)
(***************************************************************************)
EXTENDS Integers, FiniteSets

CONSTANTS
    Procs,        \* processes that may run at the same time
    MaxId,        \* MAX_STD_ID (100000)
    Inodes,       \* enough inodes for all names and descriptors
    NoFile,       \* no inode
    Ops,          \* the commands users give, a subset of AllOps
    Args,         \* the ids users give: any integer, atoi takes them all
    MaxCommands,  \* bound: commands run in all
    Exclusive,    \* is a command run only when no other is running?
    MayDie,       \* may a process be killed between two system calls?
    Faults        \* calls that may fail: a subset of AllFaults

AllOps    == {"add", "del", "find", "scan", "compress", "zero"}
AllFaults == {"open", "read", "write", "short", "rename"}

ASSUME StudentDBAssumption ==
    /\ MaxId \in Nat \ {0} /\ MaxCommands \in Nat
    /\ NoFile \notin Inodes /\ IsFiniteSet(Inodes) /\ IsFiniteSet(Procs) /\ Procs # {}
    /\ Cardinality(Inodes) >= 2 * Cardinality(Procs) + 2
    /\ Ops \subseteq AllOps /\ Args \subseteq Int
    /\ Exclusive \in BOOLEAN /\ MayDie \in BOOLEAN
    /\ Faults \subseteq AllFaults

VARIABLES
    names,     \* the directory: which inode student.db and .tmp_student.db name
    files,     \* per inode: its length and slots
    runs,      \* commands started so far
    pc,        \* per process: its next system call
    cmd,       \* per process: its command [op, id, by]
    fd,        \* per process: the inode behind fd
    tmp,       \* per process: the inode behind compress_db's tmp_fd
    pos,       \* per process: the slot a scan or compression reads next
    rec,       \* per process: the record in compress_db's temp_student
    count,     \* per process: count_db_records' count
    out,       \* per process: what the command reported
    always,    \* history: ids present ever since the command started
    ever       \* history: ids present at some time since

disk == <<names, files>>
proc == <<pc, cmd, fd, tmp, pos, rec, count, out>>
vars == <<disk, runs, proc, always, ever>>

Ids     == 1..MaxId          \* what validate_range lets add use
Slots   == 0..MaxId
Names   == {"db", "tmp"}
Record  == [id : Slots, by : 0..MaxCommands, whole : BOOLEAN]
Blank   == [id |-> 0, by |-> 0, whole |-> TRUE]     \* 64 zero bytes
NewFile == [len |-> 0, slot |-> [s \in Slots |-> Blank]]
PCs     == {"idle", "run", "write", "copy", "put", "rename", "reopen", "done"}
Outs    == {"none", "killed", "args", "error", "added", "duplicate", "deleted",
            "missing", "found", "counted", "compressed", "zeroed"}

\* validate_range: what add accepts, and find and del do not ask.
InRangeOffByOne(id) == id \in 1..(MaxId + 1)     \* mutant: the bound is one too large
InRange(id) == id \in Ids

\* The database, as the next command would find it.
Db       == IF names["db"] = NoFile THEN NewFile ELSE files[names["db"]]
Present  == {i \in Ids : Db.slot[i] # Blank}
\* Students whose record is not cut off by the end of the file.
Readable == {i \in Present : 2 * i + 2 <= Db.len}

Init ==
    /\ names = [n \in Names |-> NoFile]
    /\ files = [i \in Inodes |-> NewFile]
    /\ runs = 0
    /\ pc = [p \in Procs |-> "idle"]
    /\ cmd = [p \in Procs |-> [op |-> "scan", id |-> 0, by |-> 0]]
    /\ fd = [p \in Procs |-> NoFile] /\ tmp = [p \in Procs |-> NoFile]
    /\ pos = [p \in Procs |-> 0] /\ rec = [p \in Procs |-> Blank]
    /\ count = [p \in Procs |-> 0] /\ out = [p \in Procs |-> "none"]
    /\ always = [p \in Procs |-> {}] /\ ever = [p \in Procs |-> {}]

----
(* Files. *)

Used  == {names[n] : n \in Names} \cup {fd[p] : p \in Procs} \cup {tmp[p] : p \in Procs}
Fresh == CHOOSE i \in Inodes : i \notin Used

\* open(name, O_RDWR | O_CREAT, perhaps | O_TRUNC): the inode opened, and the
\* directory and the files afterwards.
Opened(n)      == IF names[n] = NoFile THEN Fresh ELSE names[n]
NamesOpened(n) == [names EXCEPT ![n] = Opened(n)]
FilesOpenedKept(n, should_truncate) == files     \* mutant: O_TRUNC left out
FilesOpened(n, should_truncate) ==
    IF names[n] = NoFile \/ should_truncate
    THEN [files EXCEPT ![Opened(n)] = NewFile] ELSE files

\* read(fd, &record, 64) at slot s of inode f, compared with a blank record.
ReadAtAnything(f, s) ==                          \* mutant: no memcmp
    IF 2 * s >= files[f].len THEN "eof"
    ELSE IF 2 * s + 1 = files[f].len THEN "partial" ELSE "record"

ReadAt(f, s) ==
    IF 2 * s >= files[f].len THEN "eof"
    ELSE IF 2 * s + 1 = files[f].len THEN "partial"
    ELSE IF s \in Slots /\ files[f].slot[s] # Blank THEN "record" ELSE "blank"

AtLeast(a, b) == IF a > b THEN a ELSE b

\* write(fd, &record, 64) at slot s, all of it, or 32 bytes of it.
Wrote(f, s, r) ==
    files' = [files EXCEPT ![f] = [len  |-> AtLeast(@.len, 2 * s + 2),
                                   slot |-> [@.slot EXCEPT ![s] = r]]]
WroteHalf(f, s, r) ==
    /\ "short" \in Faults /\ 2 * s >= files[f].len
    /\ files' = [files EXCEPT ![f] = [len  |-> 2 * s + 1,
                                     slot |-> [@.slot EXCEPT ![s] = [r EXCEPT !.whole = FALSE]]]]

----
(* Processes. *)

\* The process ends and reports o; its descriptors are closed.
Exits(p, o) ==
    /\ pc' = [pc EXCEPT ![p] = "done"] /\ out' = [out EXCEPT ![p] = o]
    /\ fd' = [fd EXCEPT ![p] = NoFile] /\ tmp' = [tmp EXCEPT ![p] = NoFile]
    /\ pos' = [pos EXCEPT ![p] = 0] /\ rec' = [rec EXCEPT ![p] = Blank]

Fails(p) == Exits(p, "error")

Is(p, at, op) == pc[p] = at /\ cmd[p].op = op

\* main: open_db(DB_FILE, false), before the arguments are looked at.
Start(p) ==
    /\ pc[p] \in {"idle", "done"} /\ runs < MaxCommands
    /\ Exclusive => \A q \in Procs : pc[q] \in {"idle", "done"}
    /\ runs' = runs + 1
    /\ \E op \in Ops : \E id \in IF op \in {"add", "del", "find"} THEN Args ELSE {0} :
         cmd' = [cmd EXCEPT ![p] = [op |-> op, id |-> id, by |-> runs + 1]]
    /\ count' = [count EXCEPT ![p] = 0]
    /\ \/ /\ pc' = [pc EXCEPT ![p] = "run"] /\ out' = [out EXCEPT ![p] = "none"]
          /\ fd' = [fd EXCEPT ![p] = Opened("db")]
          /\ names' = NamesOpened("db") /\ files' = FilesOpened("db", FALSE)
          /\ UNCHANGED <<tmp, pos, rec>>
       \/ /\ "open" \in Faults /\ Fails(p) /\ UNCHANGED disk

Die(p) ==
    /\ MayDie /\ pc[p] \notin {"idle", "done"}
    /\ Exits(p, "killed")
    /\ UNCHANGED <<disk, runs, cmd, count>>

\* A failing lseek or read, or a record cut short, in any command.
ReadFails(p) ==
    /\ \/ pc[p] = "run" /\ cmd[p].op \in {"add", "del", "find"}
          /\ (cmd[p].op = "add" => InRange(cmd[p].id))
          /\ (cmd[p].id < 0 \/ ReadAt(fd[p], cmd[p].id) = "partial" \/ "read" \in Faults)
       \/ Is(p, "run", "scan") /\ (ReadAt(fd[p], pos[p]) = "partial" \/ "read" \in Faults)
       \/ pc[p] = "copy" /\ (ReadAt(fd[p], pos[p]) = "partial" \/ "read" \in Faults)
    /\ Fails(p)
    /\ UNCHANGED <<disk, runs, cmd, count>>

WriteFails(p) ==
    /\ pc[p] \in {"write", "put"} /\ "write" \in Faults
    /\ Fails(p)
    /\ UNCHANGED <<disk, runs, cmd, count>>

\* validate_range, for add alone.  Wrong arguments and unknown options end the same way.
AddRejected(p) ==
    /\ Is(p, "run", "add") /\ ~InRange(cmd[p].id)
    /\ Exits(p, "args")
    /\ UNCHANGED <<disk, runs, cmd, count>>

AddLooksOnly(p) ==                               \* mutant: no duplicate check
    /\ Is(p, "run", "add") /\ InRange(cmd[p].id)
    /\ ReadAt(fd[p], cmd[p].id) \in {"eof", "blank", "record"}
    /\ pc' = [pc EXCEPT ![p] = "write"]
    /\ UNCHANGED <<disk, runs, cmd, count, fd, tmp, pos, rec, out>>

AddLooks(p) ==
    /\ Is(p, "run", "add") /\ InRange(cmd[p].id)
    /\ \/ /\ ReadAt(fd[p], cmd[p].id) = "record"
          /\ Exits(p, "duplicate")
       \/ /\ ReadAt(fd[p], cmd[p].id) \in {"eof", "blank"}
          /\ pc' = [pc EXCEPT ![p] = "write"]
          /\ UNCHANGED <<fd, tmp, pos, rec, out>>
    /\ UNCHANGED <<disk, runs, cmd, count>>

NewRecord(p) == [id |-> cmd[p].id, by |-> cmd[p].by, whole |-> TRUE]

AddWrites(p) ==
    /\ Is(p, "write", "add")
    /\ \/ Wrote(fd[p], cmd[p].id, NewRecord(p)) /\ Exits(p, "added")
       \/ WroteHalf(fd[p], cmd[p].id, NewRecord(p)) /\ Fails(p)
    /\ UNCHANGED <<names, runs, cmd, count>>

\* get_student, for find and for del; neither checks the range of the id.
Looks(p) ==
    /\ pc[p] = "run" /\ cmd[p].op \in {"find", "del"} /\ cmd[p].id >= 0
    /\ \/ /\ ReadAt(fd[p], cmd[p].id) \in {"eof", "blank"}
          /\ Exits(p, "missing")
       \/ /\ ReadAt(fd[p], cmd[p].id) = "record" /\ cmd[p].op = "find"
          /\ Exits(p, "found")
       \/ /\ ReadAt(fd[p], cmd[p].id) = "record" /\ cmd[p].op = "del"
          /\ pc' = [pc EXCEPT ![p] = "write"]
          /\ UNCHANGED <<fd, tmp, pos, rec, out>>
    /\ UNCHANGED <<disk, runs, cmd, count>>

DelWrites(p) ==
    /\ Is(p, "write", "del")
    /\ Wrote(fd[p], cmd[p].id, Blank)
    /\ Exits(p, "deleted")
    /\ UNCHANGED <<names, runs, cmd, count>>

\* One read of count_db_records or print_db.
ScanReadsAll(p) ==                               \* mutant: blank records count
    /\ Is(p, "run", "scan")
    /\ \/ /\ ReadAt(fd[p], pos[p]) \in {"record", "blank"}
          /\ pos' = [pos EXCEPT ![p] = @ + 1]
          /\ count' = [count EXCEPT ![p] = @ + 1]
          /\ UNCHANGED <<pc, fd, tmp, rec, out>>
       \/ /\ ReadAt(fd[p], pos[p]) = "eof"
          /\ Exits(p, "counted")
          /\ UNCHANGED count
    /\ UNCHANGED <<disk, runs, cmd>>

ScanReads(p) ==
    /\ Is(p, "run", "scan")
    /\ \/ /\ ReadAt(fd[p], pos[p]) \in {"record", "blank"}
          /\ pos' = [pos EXCEPT ![p] = @ + 1]
          /\ count' = [count EXCEPT ![p] = IF ReadAt(fd[p], pos[p]) = "record" THEN @ + 1 ELSE @]
          /\ UNCHANGED <<pc, fd, tmp, rec, out>>
       \/ /\ ReadAt(fd[p], pos[p]) = "eof"
          /\ Exits(p, "counted")
          /\ UNCHANGED count
    /\ UNCHANGED <<disk, runs, cmd>>

\* compress_db: the temporary file, opened and emptied.
CompressOpens(p) ==
    /\ Is(p, "run", "compress")
    /\ \/ /\ tmp' = [tmp EXCEPT ![p] = Opened("tmp")]
          /\ names' = NamesOpened("tmp") /\ files' = FilesOpened("tmp", TRUE)
          /\ pc' = [pc EXCEPT ![p] = "copy"]
          /\ UNCHANGED <<fd, pos, rec, out>>
       \/ "open" \in Faults /\ Fails(p) /\ UNCHANGED disk
    /\ UNCHANGED <<runs, cmd, count>>

CompressReads(p) ==
    /\ pc[p] = "copy"
    /\ \/ /\ ReadAt(fd[p], pos[p]) = "record"
          /\ rec' = [rec EXCEPT ![p] = files[fd[p]].slot[pos[p]]]
          /\ pos' = [pos EXCEPT ![p] = @ + 1]
          /\ pc' = [pc EXCEPT ![p] = "put"]
       \/ /\ ReadAt(fd[p], pos[p]) = "blank"
          /\ pos' = [pos EXCEPT ![p] = @ + 1]
          /\ UNCHANGED <<pc, rec>>
       \/ /\ ReadAt(fd[p], pos[p]) = "eof"
          /\ pc' = [pc EXCEPT ![p] = "rename"]
          /\ UNCHANGED <<pos, rec>>
    /\ UNCHANGED <<disk, runs, cmd, fd, tmp, count, out>>

CompressWritesDense(p) ==                        \* mutant: no lseek on tmp_fd
    /\ pc[p] = "put"
    /\ Wrote(tmp[p], files[tmp[p]].len \div 2, rec[p])
    /\ pc' = [pc EXCEPT ![p] = "copy"]
    /\ rec' = [rec EXCEPT ![p] = Blank]
    /\ UNCHANGED <<names, runs, cmd, count, fd, tmp, pos, out>>

CompressWrites(p) ==
    /\ pc[p] = "put"
    /\ \/ /\ Wrote(tmp[p], rec[p].id, rec[p])
          /\ pc' = [pc EXCEPT ![p] = "copy"]
          /\ rec' = [rec EXCEPT ![p] = Blank]
          /\ UNCHANGED <<fd, tmp, pos, out>>
       \/ WroteHalf(tmp[p], rec[p].id, rec[p]) /\ Fails(p)
    /\ UNCHANGED <<names, runs, cmd, count>>

\* Both descriptors are closed, the temporary file takes the database's name.
CompressRenames(p) ==
    /\ pc[p] = "rename"
    /\ \/ /\ names["tmp"] # NoFile
          /\ names' = [db |-> names["tmp"], tmp |-> NoFile]
          /\ pc' = [pc EXCEPT ![p] = "reopen"]
          /\ fd' = [fd EXCEPT ![p] = NoFile] /\ tmp' = [tmp EXCEPT ![p] = NoFile]
          /\ pos' = [pos EXCEPT ![p] = 0]
          /\ UNCHANGED <<rec, out>>
       \/ /\ names["tmp"] = NoFile \/ "rename" \in Faults
          /\ Fails(p) /\ UNCHANGED names
    /\ UNCHANGED <<files, runs, cmd, count>>

CompressReopens(p) ==
    /\ pc[p] = "reopen"
    /\ \/ /\ names' = NamesOpened("db") /\ files' = FilesOpened("db", FALSE)
          /\ Exits(p, "compressed")
       \/ "open" \in Faults /\ Fails(p) /\ UNCHANGED disk
    /\ UNCHANGED <<runs, cmd, count>>

\* close, and open_db(DB_FILE, true).
Zeroes(p) ==
    /\ Is(p, "run", "zero")
    /\ \/ /\ names' = NamesOpened("db") /\ files' = FilesOpened("db", TRUE)
          /\ Exits(p, "zeroed")
       \/ "open" \in Faults /\ Fails(p) /\ UNCHANGED disk
    /\ UNCHANGED <<runs, cmd, count>>

Command(p) ==
    \/ Start(p) \/ Die(p) \/ ReadFails(p) \/ WriteFails(p)
    \/ AddRejected(p) \/ AddLooks(p) \/ AddWrites(p)
    \/ Looks(p) \/ DelWrites(p) \/ ScanReads(p)
    \/ CompressOpens(p) \/ CompressReads(p) \/ CompressWrites(p)
    \/ CompressRenames(p) \/ CompressReopens(p)
    \/ Zeroes(p)

\* History: what was in the database while each command ran.
Running(p) == pc[p] \notin {"idle", "done"}

Remember ==
    /\ always' = [p \in Procs |-> IF ~Running(p)' THEN {}
                                  ELSE IF Running(p) THEN always[p] \cap Present' ELSE Present']
    /\ ever' = [p \in Procs |-> IF ~Running(p)' THEN {}
                                ELSE IF Running(p) THEN ever[p] \cup Present' ELSE Present']

Next == \E p \in Procs : Command(p) /\ Remember

Spec == Init /\ [][Next]_vars

----
(* Properties. *)

\* Files, descriptors and processes keep their shape: no command seeks or writes
\* past the slot of the largest id, validate_range sees to it.
TypeOK ==
    /\ names \in [Names -> Inodes \cup {NoFile}]
    /\ files \in [Inodes -> [len : 0..(2 * MaxId + 2), slot : [Slots -> Record]]]
    /\ runs \in 0..MaxCommands
    /\ pc \in [Procs -> PCs]
    /\ cmd \in [Procs -> [op : AllOps, id : Int, by : 0..MaxCommands]]
    /\ fd \in [Procs -> Inodes \cup {NoFile}] /\ tmp \in [Procs -> Inodes \cup {NoFile}]
    /\ pos \in [Procs -> 0..(MaxId + 1)]
    /\ rec \in [Procs -> Record]
    /\ count \in [Procs -> 0..(MaxId + 1)] /\ out \in [Procs -> Outs]
    /\ always \in [Procs -> SUBSET Ids] /\ ever \in [Procs -> SUBSET Ids]

\* Every record lies in the slot of its id, in whatever file: an add, a lookup
\* and a compression compute the same offset (sdbsc.c:71, 131, 237, 550), also
\* after short writes, kills and compressions that shared the temporary file.
OwnSlot ==
    \A f \in Inodes : \A s \in Slots :
        files[f].slot[s] # Blank => files[f].slot[s].id = s /\ 2 * s < files[f].len

\* Commands that are run one at a time find the database as the last one left
\* it: an added student's record is there whole, a reported duplicate or found
\* student has a record that the file's end does not cut off, a missing one none,
\* a reported count is the number of records, also after a kill at any system call
\* and after failed calls (sdbsc.c:63-324).  A record cut short and made readable
\* by a later add, which extends the file, counts as a record here.
AnswersAreTrue ==
    Exclusive => \A p \in Procs :
        /\ pc[p] = "done" /\ (\A q \in Procs \ {p} : cmd[q].by < cmd[p].by) =>
             /\ out[p] = "added" => Db.slot[cmd[p].id] = NewRecord(p)
             /\ out[p] \in {"duplicate", "found"} => cmd[p].id \in Readable
             /\ out[p] \in {"missing", "deleted"} => cmd[p].id \notin Present
             /\ out[p] = "counted" => count[p] = Cardinality(Present)
             /\ out[p] = "zeroed" => Present = {}

\* The process reports o by its step.
Reports(p, o) == pc[p] # "done" /\ out[p] # o /\ out'[p] = o

CountsBetween ==
    \A p \in Procs : Reports(p, "counted") =>
        Cardinality(always[p]) <= count[p] /\ count[p] <= Cardinality(ever[p])

\* A scan that runs beside adds, deletes and resets counts every student that
\* was there all the time and none that never was (sdbsc.c:280-324).
CountInRange == [][CountsBetween]_vars

ReportsWhatWas ==
    \A p \in Procs :
        /\ (\E o \in {"added", "missing"} : Reports(p, o)) => cmd[p].id \notin always[p]
        /\ (\E o \in {"duplicate", "found", "deleted"} : Reports(p, o)) => cmd[p].id \in ever[p]

\* What a command that runs beside adds, deletes and resets says of its student
\* was so at some time while it ran: two adds of one id may both report success,
\* but none does of a student that was there all along (sdbsc.c:139-190, 63-94,
\* 217-253).
AnswersWereTrue == [][ReportsWhatWas]_vars

\* Run one at a time, commands see a map that an add, a delete or a reset
\* changes as asked, at one of their system calls or not at all.  A compression
\* never changes it, wherever it is killed or fails, whatever an earlier one left
\* in the temporary file (sdbsc.c:508-584); neither does an add whose write is cut
\* short (sdbsc.c:181-187): what it leaves is no student.
Commands == [op : AllOps, id : Int, by : 0..MaxCommands]
Latest   == CHOOSE p \in Procs : \A q \in Procs : cmd[q].by <= cmd[p].by
Whole(r) == IF r.whole THEN r ELSE Blank
Map == INSTANCE StudentMap WITH
    Records <- {r \in Record : r.whole} \ {Blank}, Absent <- Blank,
    asked <- cmd[Latest], students <- [i \in Ids |-> Whole(Db.slot[i])]

ImplementsMap == Map!Spec

\* sdbsc.c:110, 116: NO_ERROR and M_STD_ADDED mean that the student was added
\* to the database.  Stated for commands that never delete or reset.
AddedIsThere ==
    \A p \in Procs : pc[p] = "done" /\ out[p] = "added" => cmd[p].id \in Present
====
