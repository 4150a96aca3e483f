---- MODULE StudentDBProofs ----
(***************************************************************************)
(* Proofs about StudentDB, for any number of processes, ids and commands,  *)
(* run one at a time or together, with every set of failing calls.         *)
(***************************************************************************)
EXTENDS StudentDB, FiniteSetTheorems, TLAPS

\* What a process holds while it is between two system calls.
RunInv ==
    \A p \in Procs :
      /\ pc[p] \in {"run", "write", "copy", "put", "rename"} => fd[p] \in Inodes
      /\ pc[p] \in {"copy", "put", "rename"} => tmp[p] \in Inodes
      /\ pc[p] = "write" => cmd[p].op \in {"add", "del"} /\ cmd[p].id \in Slots
      /\ pc[p] = "run" /\ cmd[p].op = "scan" => count[p] <= pos[p]

Inv == TypeOK /\ RunInv

\* The parts of TypeOK.
Files     == [len : 0..(2 * MaxId + 2), slot : [Slots -> Record]]
DiskTypes == names \in [Names -> Inodes \cup {NoFile}] /\ files \in [Inodes -> Files]
AskTypes ==
    /\ runs \in 0..MaxCommands
    /\ cmd \in [Procs -> [op : AllOps, id : Int, by : 0..MaxCommands]]
    /\ count \in [Procs -> 0..(MaxId + 1)]
StepTypes ==
    /\ pc \in [Procs -> PCs] /\ out \in [Procs -> Outs]
    /\ fd \in [Procs -> Inodes \cup {NoFile}] /\ tmp \in [Procs -> Inodes \cup {NoFile}]
    /\ pos \in [Procs -> 0..(MaxId + 1)] /\ rec \in [Procs -> Record]
PastTypes == always \in [Procs -> SUBSET Ids] /\ ever \in [Procs -> SUBSET Ids]

----
(* Files. *)

LEMMA Constants == MaxId \in Nat \ {0} /\ MaxCommands \in Nat /\ Slots = 0..MaxId /\ Ids = 1..MaxId
BY StudentDBAssumption DEF Slots, Ids

\* Both names and two descriptors for each process leave an inode.
LEMMA AnInodeIsFree ==
  ASSUME fd \in [Procs -> Inodes \cup {NoFile}], tmp \in [Procs -> Inodes \cup {NoFile}],
         names \in [Names -> Inodes \cup {NoFile}], NEW n \in Names, names[n] = NoFile
  PROVE  Fresh \in Inodes /\ Fresh \notin Used
<1> DEFINE Fds  == {fd[p] : p \in Procs}
           Tmps == {tmp[p] : p \in Procs}
           Held == {names["db"], names["tmp"]} \ {NoFile}
<1>0. IsFiniteSet(Procs) /\ IsFiniteSet(Inodes) /\ Cardinality(Inodes) >= 2 * Cardinality(Procs) + 2
  BY StudentDBAssumption
<1>1. /\ IsFiniteSet(Fds) /\ Cardinality(Fds) <= Cardinality(Procs)
  <2>1. fd \in Surjection(Procs, Fds)
    BY DEF Surjection
  <2> HIDE DEF Fds
  <2> QED
    BY <1>0, <2>1, FS_Surjection
<1>2. /\ IsFiniteSet(Tmps) /\ Cardinality(Tmps) <= Cardinality(Procs)
  <2>1. tmp \in Surjection(Procs, Tmps)
    BY DEF Surjection
  <2> HIDE DEF Tmps
  <2> QED
    BY <1>0, <2>1, FS_Surjection
<1>3. \E m : Held \subseteq {m}
  BY DEF Names
<1>4. IsFiniteSet(Held) /\ Cardinality(Held) <= 1
  <2>1. PICK m : Held \subseteq {m}
    BY <1>3
  <2>2. IsFiniteSet({m}) /\ Cardinality({m}) = 1
    BY FS_Singleton
  <2> HIDE DEF Held
  <2> QED
    BY <2>1, <2>2, FS_Subset
<1> HIDE DEF Held, Fds, Tmps
<1>n. \A S : IsFiniteSet(S) => Cardinality(S) \in Nat
  BY FS_CardinalityType
<1>u. ASSUME NEW S, NEW T, IsFiniteSet(S), IsFiniteSet(T)
      PROVE  IsFiniteSet(S \cup T) /\ Cardinality(S \cup T) <= Cardinality(S) + Cardinality(T)
  <2>1. IsFiniteSet(S \cap T)
    BY <1>u, FS_Intersection
  <2>2. IsFiniteSet(S \cup T) /\ Cardinality(S \cup T) = Cardinality(S) + Cardinality(T) - Cardinality(S \cap T)
    BY <1>u, FS_Union
  <2> QED
    BY <1>n, <1>u, <2>1, <2>2
<1>5. /\ IsFiniteSet(Fds \cup Tmps \cup Held)
      /\ Cardinality(Fds \cup Tmps \cup Held) < Cardinality(Inodes)
  <2>1. IsFiniteSet(Fds \cup Tmps) /\ Cardinality(Fds \cup Tmps) <= Cardinality(Fds) + Cardinality(Tmps)
    BY <1>1, <1>2, <1>u
  <2>2. /\ IsFiniteSet(Fds \cup Tmps \cup Held)
        /\ Cardinality(Fds \cup Tmps \cup Held) <= Cardinality(Fds \cup Tmps) + Cardinality(Held)
    BY <1>4, <1>u, <2>1
  <2>3. /\ Cardinality(Procs) \in Nat /\ Cardinality(Inodes) \in Nat /\ Cardinality(Fds) \in Nat
        /\ Cardinality(Tmps) \in Nat /\ Cardinality(Held) \in Nat
        /\ Cardinality(Fds \cup Tmps) \in Nat /\ Cardinality(Fds \cup Tmps \cup Held) \in Nat
    BY <1>0, <1>1, <1>2, <1>4, <1>n, <2>1, <2>2
  <2> QED
    BY <1>0, <1>1, <1>2, <1>4, <2>1, <2>2, <2>3
<1>6. PICK i \in Inodes : i \notin Fds \cup Tmps \cup Held
  <2> DEFINE All == Fds \cup Tmps \cup Held
  <2> HIDE DEF All
  <2>1. IsFiniteSet(All) /\ Cardinality(All) < Cardinality(Inodes)
    BY <1>5 DEF All
  <2>2. Inodes \in SUBSET All => Cardinality(Inodes) <= Cardinality(All)
    BY <2>1, FS_Subset
  <2>3. ~(Inodes \in SUBSET All)
    BY <1>0, <1>n, <2>1, <2>2
  <2> QED
    BY <2>3 DEF All
<1>7. i \notin Used
  BY <1>6, StudentDBAssumption DEF Used, Names, Held, Fds, Tmps
<1> QED
  BY <1>7 DEF Fresh

LEMMA BlankTypes == Blank \in Record /\ NewFile \in Files
BY Constants DEF Blank, NewFile, Files, Record

\* Whatever a command opens is a file afterwards, and a name.
LEMMA OpenedTypes ==
  ASSUME TypeOK, NEW n \in Names, NEW b \in BOOLEAN
  PROVE  /\ Opened(n) \in Inodes
         /\ NamesOpened(n) \in [Names -> Inodes \cup {NoFile}]
         /\ FilesOpened(n, b) \in [Inodes -> Files]
<1>1. Opened(n) \in Inodes
  BY AnInodeIsFree DEF TypeOK, Opened
<1> QED
  BY <1>1, BlankTypes DEF TypeOK, NamesOpened, FilesOpened, Files

LEMMA WroteTypes ==
  ASSUME files \in [Inodes -> Files], NEW f \in Inodes, NEW s \in Slots, NEW r \in Record,
         Wrote(f, s, r) \/ WroteHalf(f, s, r)
  PROVE  files' \in [Inodes -> Files]
<1> USE Constants
<1>1. [r EXCEPT !.whole = FALSE] \in Record
  BY DEF Record
<1>2. PICK l \in 0..(2 * MaxId + 2), q \in Record :
        files' = [files EXCEPT ![f] = [len |-> l, slot |-> [@.slot EXCEPT ![s] = q]]]
  <2>1. CASE Wrote(f, s, r)
    <3>1. AtLeast(files[f].len, 2 * s + 2) \in 0..(2 * MaxId + 2)
      BY DEF AtLeast, Files
    <3> QED
      BY <2>1, <3>1 DEF Wrote
  <2>2. CASE WroteHalf(f, s, r)
    <3>1. 2 * s + 1 \in 0..(2 * MaxId + 2)
      OBVIOUS
    <3> DEFINE q == [r EXCEPT !.whole = FALSE]
    <3> HIDE DEF q
    <3>2. files' = [files EXCEPT ![f] = [len |-> 2 * s + 1, slot |-> [@.slot EXCEPT ![s] = q]]]
      BY <2>2 DEF WroteHalf, q
    <3>3. q \in Record
      BY <1>1 DEF q
    <3> QED
      BY <3>1, <3>2, <3>3
  <2> QED
    BY <2>1, <2>2
<1> QED
  BY <1>2 DEF Files

\* A write at one slot of one file.
LEMMA WroteSlots ==
  ASSUME TypeOK, NEW f \in Inodes, NEW s \in Slots, NEW r \in Record, Wrote(f, s, r) \/ WroteHalf(f, s, r)
  PROVE  \E q \in Record :
           /\ q.id = r.id /\ q.by = r.by /\ (Wrote(f, s, r) => q = r) /\ (q = r \/ ~q.whole)
           /\ \A g \in Inodes : \A t \in Slots :
                files'[g].slot[t] = IF g = f /\ t = s THEN q ELSE files[g].slot[t]
<1>1. CASE Wrote(f, s, r)
  BY <1>1 DEF Wrote, TypeOK
<1>2. CASE WroteHalf(f, s, r) /\ ~Wrote(f, s, r)
  <2> DEFINE q == [r EXCEPT !.whole = FALSE]
  <2>1. q \in Record /\ q.id = r.id /\ q.by = r.by /\ ~q.whole
    BY DEF Record
  <2> HIDE DEF q
  <2>2. files' = [files EXCEPT ![f] = [len |-> 2 * s + 1, slot |-> [@.slot EXCEPT ![s] = q]]]
    BY <1>2 DEF WroteHalf, q
  <2>3. \A g \in Inodes : \A t \in Slots :
          files'[g].slot[t] = IF g = f /\ t = s THEN q ELSE files[g].slot[t]
    BY <2>2 DEF TypeOK
  <2> QED
    BY <1>2, <2>1, <2>3
<1> QED
  BY <1>1, <1>2

\* A record is only read within the file.
LEMMA ReadWithin ==
  ASSUME files \in [Inodes -> Files], NEW f \in Inodes, NEW s \in Nat, ReadAt(f, s) \in {"record", "blank"}
  PROVE  s \in Slots
BY Constants DEF ReadAt, Files

LEMMA ExitsTypes ==
  ASSUME StepTypes, NEW p \in Procs, NEW o \in Outs, Exits(p, o)
  PROVE  StepTypes'
BY Constants, BlankTypes DEF StepTypes, Exits, PCs

----
(* Types. *)

LEMMA InitInv == Init => Inv
<1> SUFFICES ASSUME Init PROVE Inv
  OBVIOUS
<1>1. TypeOK
  BY Constants, BlankTypes DEF Init, TypeOK, PCs, AllOps, Outs, Files
<1>2. RunInv
  BY DEF Init, RunInv
<1> QED
  BY <1>1, <1>2 DEF Inv

LEMMA DiskTypesNext == ASSUME Inv, NEW p \in Procs, Command(p) PROVE DiskTypes'
<1>0. DiskTypes /\ TypeOK /\ StepTypes /\ AskTypes
  BY DEF Inv, TypeOK, DiskTypes, StepTypes, AskTypes, Files
<1>1. ASSUME UNCHANGED disk PROVE DiskTypes'
  BY <1>0, <1>1 DEF DiskTypes, disk
<1>2. ASSUME NEW n \in Names, NEW b \in BOOLEAN, names' = NamesOpened(n), files' = FilesOpened(n, b)
      PROVE  DiskTypes'
  BY <1>0, <1>2, OpenedTypes DEF DiskTypes
<1>3. ASSUME UNCHANGED names, NEW f \in Inodes, NEW s \in Slots, NEW r \in Record,
             Wrote(f, s, r) \/ WroteHalf(f, s, r)
      PROVE  DiskTypes'
  BY <1>0, <1>3, WroteTypes DEF DiskTypes
<1>4. "db" \in Names /\ "tmp" \in Names
  BY DEF Names
<1>5. CASE Start(p)
  BY <1>1, <1>2, <1>4, <1>5 DEF Start
<1>6. CASE Die(p) \/ ReadFails(p) \/ WriteFails(p) \/ AddRejected(p) \/ AddLooks(p) \/ Looks(p)
           \/ ScanReads(p) \/ CompressReads(p)
  BY <1>1, <1>6 DEF Die, ReadFails, WriteFails, AddRejected, AddLooks, Looks, ScanReads, CompressReads
<1>7. CASE AddWrites(p)
  <2>1. fd[p] \in Inodes /\ cmd[p].id \in Slots /\ NewRecord(p) \in Record
    BY <1>0, <1>7, Constants DEF Inv, RunInv, AddWrites, Is, NewRecord, Record, AskTypes
  <2> QED
    BY <1>3, <1>7, <2>1 DEF AddWrites
<1>8. CASE DelWrites(p)
  <2>1. fd[p] \in Inodes /\ cmd[p].id \in Slots
    BY <1>0, <1>8 DEF Inv, RunInv, DelWrites, Is
  <2> QED
    BY <1>3, <1>8, <2>1, BlankTypes DEF DelWrites
<1>9. CASE CompressWrites(p)
  <2>1. tmp[p] \in Inodes /\ rec[p].id \in Slots /\ rec[p] \in Record
    BY <1>0, <1>9 DEF Inv, RunInv, CompressWrites, StepTypes, Record
  <2> QED
    BY <1>3, <1>9, <2>1 DEF CompressWrites
<1>10. CASE CompressOpens(p) \/ CompressReopens(p) \/ Zeroes(p)
  BY <1>1, <1>2, <1>4, <1>10 DEF CompressOpens, CompressReopens, Zeroes
<1>11. CASE CompressRenames(p)
  BY <1>0, <1>4, <1>11 DEF CompressRenames, DiskTypes, Names
<1> QED
  BY <1>5, <1>6, <1>7, <1>8, <1>9, <1>10, <1>11 DEF Command

LEMMA AskTypesNext == ASSUME Inv, NEW p \in Procs, Command(p) PROVE AskTypes'
<1>0. DiskTypes /\ StepTypes /\ AskTypes /\ RunInv
  BY DEF Inv, TypeOK, DiskTypes, StepTypes, AskTypes, Files
<1> USE Constants
<1>1. CASE Start(p)
  <2>1. Ops \subseteq AllOps /\ Args \subseteq Int
    BY StudentDBAssumption
  <2>2. PICK op \in Ops, id \in Args \cup {0} : cmd' = [cmd EXCEPT ![p] = [op |-> op, id |-> id, by |-> runs + 1]]
    BY <1>1 DEF Start
  <2>3. runs' = runs + 1 /\ runs < MaxCommands /\ count' = [count EXCEPT ![p] = 0]
    BY <1>1 DEF Start
  <2> QED
    BY <1>0, <2>1, <2>2, <2>3 DEF AskTypes
<1>2. CASE ScanReads(p)
  <2>1. CASE UNCHANGED count
    BY <1>0, <1>2, <2>1 DEF ScanReads, AskTypes
  <2>2. CASE ReadAt(fd[p], pos[p]) \in {"record", "blank"}
    <3>1. pos[p] \in Slots /\ count[p] <= pos[p]
      BY <1>0, <1>2, <2>2, ReadWithin DEF RunInv, ScanReads, Is, DiskTypes, StepTypes
    <3>2. \/ UNCHANGED count
          \/ count' = [count EXCEPT ![p] = count[p] + 1]
      BY <1>0, <1>2, <2>2 DEF ScanReads, AskTypes
    <3>3. UNCHANGED <<runs, cmd>>
      BY <1>2 DEF ScanReads
    <3>4. count[p] + 1 \in 0..(MaxId + 1)
      BY <1>0, <3>1 DEF AskTypes
    <3>5. count' \in [Procs -> 0..(MaxId + 1)]
      BY <1>0, <3>2, <3>4 DEF AskTypes
    <3> QED
      BY <1>0, <3>3, <3>5 DEF AskTypes
  <2> QED
    BY <1>2, <2>1, <2>2 DEF ScanReads
<1>3. CASE UNCHANGED <<runs, cmd, count>>
  BY <1>0, <1>3 DEF AskTypes
<1> QED
  BY <1>1, <1>2, <1>3 DEF Command, Die, ReadFails, WriteFails, AddRejected, AddLooks, AddWrites, Looks,
     DelWrites, CompressOpens, CompressReads, CompressWrites, CompressRenames, CompressReopens, Zeroes

LEMMA StepTypesNext == ASSUME Inv, NEW p \in Procs, Command(p) PROVE StepTypes'
<1>0. DiskTypes /\ TypeOK /\ StepTypes /\ AskTypes /\ RunInv
  BY DEF Inv, TypeOK, DiskTypes, StepTypes, AskTypes, Files
<1>1. ASSUME NEW o \in Outs, Exits(p, o) PROVE StepTypes'
  BY <1>0, <1>1, ExitsTypes
<1>2. Outs = {"none", "killed", "args", "error", "added", "duplicate", "deleted",
              "missing", "found", "counted", "compressed", "zeroed"}
  BY DEF Outs
<1>f. Fails(p) => StepTypes'
  BY <1>1, <1>2 DEF Fails
<1> USE Constants
<1>3. CASE Start(p)
  <2>1. Opened("db") \in Inodes
    BY <1>0, OpenedTypes DEF Names
  <2>2. ASSUME pc' = [pc EXCEPT ![p] = "run"], out' = [out EXCEPT ![p] = "none"],
               fd' = [fd EXCEPT ![p] = Opened("db")], UNCHANGED <<tmp, pos, rec>>
        PROVE  StepTypes'
    BY <1>0, <1>2, <2>1, <2>2 DEF StepTypes, PCs
  <2> QED
    BY <1>f, <1>3, <2>2 DEF Start
<1>4. CASE Die(p) \/ ReadFails(p) \/ WriteFails(p) \/ AddRejected(p) \/ AddWrites(p) \/ DelWrites(p)
           \/ CompressReopens(p) \/ Zeroes(p)
  BY <1>1, <1>2, <1>4 DEF Die, ReadFails, WriteFails, AddRejected, AddWrites, DelWrites, CompressReopens, Zeroes, Fails
<1>5. CASE AddLooks(p) \/ Looks(p)
  <2>1. ASSUME pc' = [pc EXCEPT ![p] = "write"], UNCHANGED <<fd, tmp, pos, rec, out>>
        PROVE  StepTypes'
    BY <1>0, <2>1 DEF StepTypes, PCs
  <2> QED
    BY <1>1, <1>2, <1>5, <2>1 DEF AddLooks, Looks
<1>6. CASE ScanReads(p)
  <2>1. CASE Exits(p, "counted")
    BY <1>1, <1>2, <2>1
  <2>2. CASE ReadAt(fd[p], pos[p]) \in {"record", "blank"} /\ ~Exits(p, "counted")
    <3>1. pos[p] \in Slots
      BY <1>0, <1>6, <2>2, ReadWithin DEF RunInv, ScanReads, Is, DiskTypes, StepTypes
    <3>2. pos' = [pos EXCEPT ![p] = pos[p] + 1] /\ UNCHANGED <<pc, fd, tmp, rec, out>>
      BY <1>0, <1>6, <2>2 DEF ScanReads, StepTypes
    <3> QED
      BY <1>0, <3>1, <3>2 DEF StepTypes
  <2> QED
    BY <1>6, <2>1, <2>2 DEF ScanReads
<1>7. CASE CompressOpens(p)
  <2>1. Opened("tmp") \in Inodes
    BY <1>0, OpenedTypes DEF Names
  <2>2. ASSUME tmp' = [tmp EXCEPT ![p] = Opened("tmp")], pc' = [pc EXCEPT ![p] = "copy"],
               UNCHANGED <<fd, pos, rec, out>>
        PROVE  StepTypes'
    BY <1>0, <2>1, <2>2 DEF StepTypes, PCs
  <2> QED
    BY <1>f, <1>7, <2>2 DEF CompressOpens
<1>8. CASE CompressReads(p)
  <2>1. ASSUME ReadAt(fd[p], pos[p]) \in {"record", "blank"} PROVE pos[p] \in Slots
    BY <1>0, <1>8, <2>1, ReadWithin DEF RunInv, CompressReads, DiskTypes, StepTypes
  <2>2. ASSUME ReadAt(fd[p], pos[p]) = "record" PROVE files[fd[p]].slot[pos[p]] \in Record
    BY <1>0, <1>8, <2>1, <2>2 DEF RunInv, CompressReads, DiskTypes, Files
  <2>3. pos' \in [Procs -> 0..(MaxId + 1)]
    BY <1>0, <1>8, <2>1 DEF CompressReads, StepTypes
  <2>4. rec' \in [Procs -> Record]
    BY <1>0, <1>8, <2>2 DEF CompressReads, StepTypes
  <2>5. pc' \in [Procs -> PCs] /\ UNCHANGED <<fd, tmp, out>>
    BY <1>0, <1>8 DEF CompressReads, StepTypes, PCs
  <2> QED
    BY <1>0, <2>3, <2>4, <2>5 DEF StepTypes
<1>9. CASE CompressWrites(p)
  <2>1. ASSUME pc' = [pc EXCEPT ![p] = "copy"], rec' = [rec EXCEPT ![p] = Blank], UNCHANGED <<fd, tmp, pos, out>>
        PROVE  StepTypes'
    BY <1>0, <2>1, BlankTypes DEF StepTypes, PCs
  <2> QED
    BY <1>f, <1>9, <2>1 DEF CompressWrites
<1>10. CASE CompressRenames(p)
  <2>1. ASSUME pc' = [pc EXCEPT ![p] = "reopen"], fd' = [fd EXCEPT ![p] = NoFile], tmp' = [tmp EXCEPT ![p] = NoFile],
               pos' = [pos EXCEPT ![p] = 0], UNCHANGED <<rec, out>>
        PROVE  StepTypes'
    BY <1>0, <2>1 DEF StepTypes, PCs
  <2> QED
    BY <1>f, <1>10, <2>1 DEF CompressRenames
<1> QED
  BY <1>3, <1>4, <1>5, <1>6, <1>7, <1>8, <1>9, <1>10 DEF Command

LEMMA PastTypesNext == ASSUME PastTypes, Remember PROVE PastTypes'
BY DEF PastTypes, Remember, Present

\* A step is one process's own.
LEMMA OthersKept ==
  ASSUME Inv, NEW p \in Procs, Command(p), NEW q \in Procs, q # p
  PROVE  /\ pc'[q] = pc[q] /\ fd'[q] = fd[q] /\ tmp'[q] = tmp[q] /\ pos'[q] = pos[q]
         /\ cmd'[q] = cmd[q] /\ count'[q] = count[q] /\ rec'[q] = rec[q] /\ out'[q] = out[q]
<1>0. StepTypes /\ AskTypes
  BY DEF Inv, TypeOK, StepTypes, AskTypes
<1> DEFINE Own == /\ pc'[q] = pc[q] /\ fd'[q] = fd[q] /\ tmp'[q] = tmp[q] /\ pos'[q] = pos[q]
                  /\ rec'[q] = rec[q] /\ out'[q] = out[q]
<1>1. ASSUME NEW o, Exits(p, o) PROVE Own
  BY <1>0, <1>1 DEF Exits, StepTypes
<1>2. cmd'[q] = cmd[q] /\ count'[q] = count[q]
  <2>1. CASE Start(p)
    BY <1>0, <2>1 DEF Start, AskTypes
  <2>2. CASE ScanReads(p)
    BY <1>0, <2>2 DEF ScanReads, AskTypes
  <2>3. CASE UNCHANGED <<cmd, count>>
    BY <2>3
  <2> QED
    BY <2>1, <2>2, <2>3 DEF Command, Die, ReadFails, WriteFails, AddRejected, AddLooks, AddWrites, Looks,
       DelWrites, CompressOpens, CompressReads, CompressWrites, CompressRenames, CompressReopens, Zeroes
<1>3. Own
  <2>1. CASE Start(p)
    BY <1>0, <1>1, <2>1 DEF Start, Fails, StepTypes
  <2>2. CASE Die(p) \/ ReadFails(p) \/ WriteFails(p) \/ AddRejected(p) \/ AddWrites(p) \/ DelWrites(p)
             \/ CompressReopens(p) \/ Zeroes(p)
    BY <1>1, <2>2 DEF Die, ReadFails, WriteFails, AddRejected, AddWrites, DelWrites, CompressReopens, Zeroes, Fails
  <2>3. CASE AddLooks(p) \/ Looks(p) \/ ScanReads(p)
    BY <1>0, <1>1, <2>3 DEF AddLooks, Looks, ScanReads, StepTypes
  <2>4. CASE CompressOpens(p) \/ CompressReads(p)
    BY <1>0, <1>1, <2>4 DEF CompressOpens, CompressReads, Fails, StepTypes
  <2>5. CASE CompressWrites(p) \/ CompressRenames(p)
    BY <1>0, <1>1, <2>5 DEF CompressWrites, CompressRenames, Fails, StepTypes
  <2> QED
    BY <2>1, <2>2, <2>3, <2>4, <2>5 DEF Command
<1> QED
  BY <1>2, <1>3

\* A process that goes on keeps what it holds; the others do not notice.
LEMMA RunInvNext == ASSUME Inv, NEW p \in Procs, Command(p) PROVE RunInv'
<1>0. DiskTypes /\ TypeOK /\ StepTypes /\ AskTypes /\ RunInv
  BY DEF Inv, TypeOK, DiskTypes, StepTypes, AskTypes, Files
<1> DEFINE Holds(q) ==
      /\ pc[q] \in {"run", "write", "copy", "put", "rename"} => fd[q] \in Inodes
      /\ pc[q] \in {"copy", "put", "rename"} => tmp[q] \in Inodes
      /\ pc[q] = "write" => cmd[q].op \in {"add", "del"} /\ cmd[q].id \in Slots
      /\ pc[q] = "run" /\ cmd[q].op = "scan" => count[q] <= pos[q]
<1>1. Holds(p)
  BY <1>0 DEF RunInv
<1>2. ASSUME NEW q \in Procs, q # p PROVE Holds(q)'
  <2>1. /\ pc'[q] = pc[q] /\ fd'[q] = fd[q] /\ tmp'[q] = tmp[q] /\ pos'[q] = pos[q]
        /\ cmd'[q] = cmd[q] /\ count'[q] = count[q]
    BY <1>2, OthersKept
  <2>2. Holds(q)
    BY <1>0 DEF RunInv
  <2> QED
    BY <2>1, <2>2
<1>e. ASSUME NEW o, Exits(p, o) PROVE Holds(p)'
  BY <1>0, <1>e DEF Exits, StepTypes
<1>3. Holds(p)'
  <2>1. CASE Start(p)
    <3>1. Opened("db") \in Inodes
      BY <1>0, OpenedTypes DEF Names
    <3>2. CASE pc' = [pc EXCEPT ![p] = "run"] /\ fd' = [fd EXCEPT ![p] = Opened("db")] /\ UNCHANGED pos
      <4>1. count' = [count EXCEPT ![p] = 0]
        BY <2>1 DEF Start
      <4>2. pos[p] >= 0
        BY <1>0, Constants DEF StepTypes
      <4> QED
        BY <1>0, <3>1, <3>2, <4>1, <4>2 DEF StepTypes, AskTypes
    <3> QED
      BY <1>e, <2>1, <3>2 DEF Start, Fails
  <2>2. CASE Die(p) \/ ReadFails(p) \/ WriteFails(p) \/ AddRejected(p) \/ AddWrites(p) \/ DelWrites(p)
             \/ CompressReopens(p) \/ Zeroes(p)
    BY <1>e, <2>2 DEF Die, ReadFails, WriteFails, AddRejected, AddWrites, DelWrites, CompressReopens, Zeroes, Fails
  <2>3. CASE AddLooks(p)
    <3>1. cmd[p].id \in Slots
      BY <2>3, Constants DEF AddLooks, InRange
    <3> QED
      BY <1>0, <1>1, <1>e, <2>3, <3>1 DEF AddLooks, Is, StepTypes
  <2>4. CASE Looks(p)
    <3>1. ASSUME ReadAt(fd[p], cmd[p].id) = "record" PROVE cmd[p].id \in Slots
      BY <2>4, <3>1 DEF Looks, ReadAt
    <3> QED
      BY <1>0, <1>1, <1>e, <2>4, <3>1 DEF Looks, StepTypes
  <2>5. CASE ScanReads(p)
    <3>1. CASE Exits(p, "counted")
      BY <1>e, <3>1
    <3>2. CASE ~Exits(p, "counted")
      <4>1. /\ pos' = [pos EXCEPT ![p] = pos[p] + 1] /\ UNCHANGED <<pc, fd, tmp, cmd>>
            /\ count'[p] \in {count[p], count[p] + 1}
        BY <1>0, <2>5, <3>2 DEF ScanReads, StepTypes, AskTypes
      <4>2. count[p] <= pos[p] /\ count[p] \in Int /\ pos[p] \in Int /\ pos'[p] = pos[p] + 1
        BY <1>0, <1>1, <2>5, <4>1, Constants DEF ScanReads, Is, StepTypes, AskTypes
      <4>3. count'[p] <= pos'[p]
        BY <4>1, <4>2
      <4> QED
        BY <1>1, <2>5, <4>1, <4>3 DEF ScanReads, Is
    <3> QED
      BY <3>1, <3>2
  <2>6. CASE CompressOpens(p)
    <3>1. Opened("tmp") \in Inodes
      BY <1>0, OpenedTypes DEF Names
    <3> QED
      BY <1>0, <1>1, <1>e, <2>6, <3>1 DEF CompressOpens, Is, Fails, StepTypes
  <2>7. CASE CompressReads(p)
    BY <1>0, <1>1, <2>7 DEF CompressReads, StepTypes
  <2>8. CASE CompressWrites(p)
    BY <1>0, <1>1, <1>e, <2>8 DEF CompressWrites, Fails, StepTypes
  <2>9. CASE CompressRenames(p)
    BY <1>0, <1>e, <2>9 DEF CompressRenames, Fails, StepTypes
  <2> QED
    BY <2>1, <2>2, <2>3, <2>4, <2>5, <2>6, <2>7, <2>8, <2>9 DEF Command
<1> QED
  BY <1>2, <1>3 DEF RunInv

LEMMA NextInv == Inv /\ [Next]_vars => Inv'
<1> SUFFICES ASSUME Inv, [Next]_vars PROVE Inv'
  OBVIOUS
<1>0. DiskTypes /\ StepTypes /\ AskTypes /\ PastTypes /\ RunInv
  BY DEF Inv, TypeOK, DiskTypes, StepTypes, AskTypes, PastTypes, Files
<1>1. ASSUME NEW p \in Procs, Command(p), Remember PROVE Inv'
  <2>1. DiskTypes' /\ StepTypes' /\ AskTypes' /\ PastTypes' /\ RunInv'
    BY <1>0, <1>1, DiskTypesNext, StepTypesNext, AskTypesNext, PastTypesNext, RunInvNext
  <2> QED
    BY <2>1 DEF Inv, TypeOK, DiskTypes, StepTypes, AskTypes, PastTypes, Files
<1>2. CASE UNCHANGED vars
  BY <1>2 DEF Inv, TypeOK, RunInv, vars, disk, proc
<1> QED
  BY <1>1, <1>2 DEF Next

LEMMA InvCorrect == Spec => []Inv
BY InitInv, NextInv, PTL DEF Spec

\* Every variable keeps its shape: nothing is read or written past the slot of
\* the largest id, by however many processes (sdbsc.c:71, 131, 237, 602).
THEOREM TypeCorrect == Spec => []TypeOK
<1>1. Inv => TypeOK
  BY DEF Inv
<1> QED
  BY <1>1, InvCorrect, PTL

----
(* Slots. *)

LEMMA WroteOwnSlot ==
  ASSUME TypeOK, OwnSlot, NEW f \in Inodes, NEW s \in Slots, NEW r \in Record,
         \/ Wrote(f, s, r) /\ (r = Blank \/ r.id = s)
         \/ WroteHalf(f, s, r) /\ r.id = s
  PROVE  OwnSlot'
<1> USE Constants
<1>1. PICK l \in Nat, q \in Record :
        /\ files' = [files EXCEPT ![f] = [len |-> l, slot |-> [@.slot EXCEPT ![s] = q]]]
        /\ l >= files[f].len /\ 2 * s < l /\ (q = Blank \/ q.id = s)
  <2>1. CASE Wrote(f, s, r) /\ (r = Blank \/ r.id = s)
    <3> DEFINE l == AtLeast(files[f].len, 2 * s + 2)
    <3>1. l \in Nat /\ l >= files[f].len /\ 2 * s < l
      BY DEF AtLeast, TypeOK
    <3>2. files' = [files EXCEPT ![f] = [len |-> l, slot |-> [@.slot EXCEPT ![s] = r]]]
      BY <2>1 DEF Wrote, TypeOK
    <3> HIDE DEF l
    <3> QED
      BY <2>1, <3>1, <3>2
  <2>2. CASE WroteHalf(f, s, r) /\ r.id = s
    <3> DEFINE q == [r EXCEPT !.whole = FALSE]
    <3>1. q \in Record /\ q.id = s
      BY <2>2 DEF Record
    <3> HIDE DEF q
    <3>2. /\ files' = [files EXCEPT ![f] = [len |-> 2 * s + 1, slot |-> [@.slot EXCEPT ![s] = q]]]
          /\ 2 * s >= files[f].len
      BY <2>2 DEF WroteHalf, q
    <3>3. 2 * s + 1 \in Nat /\ 2 * s < 2 * s + 1 /\ 2 * s + 1 >= files[f].len
      BY <3>2 DEF TypeOK
    <3> QED
      BY <3>1, <3>2, <3>3
  <2> QED
    BY <2>1, <2>2 DEF Record
<1> SUFFICES ASSUME NEW g \in Inodes, NEW t \in Slots, files'[g].slot[t] # Blank
             PROVE  files'[g].slot[t].id = t /\ 2 * t < files'[g].len
  BY DEF OwnSlot
<1>2. CASE g = f /\ t = s
  BY <1>1, <1>2 DEF TypeOK
<1>3. CASE ~(g = f /\ t = s)
  BY <1>1, <1>3 DEF TypeOK, OwnSlot
<1> QED
  BY <1>2, <1>3

LEMMA OwnSlotNext ==
  ASSUME Inv, OwnSlot, NEW p \in Procs, Command(p) PROVE OwnSlot'
<1>0. DiskTypes /\ TypeOK /\ StepTypes /\ AskTypes /\ RunInv
  BY DEF Inv, TypeOK, DiskTypes, StepTypes, AskTypes, Files
<1>1. ASSUME UNCHANGED files PROVE OwnSlot'
  BY <1>1 DEF OwnSlot
<1>2. ASSUME NEW n \in Names, NEW b \in BOOLEAN, files' = FilesOpened(n, b) PROVE OwnSlot'
  <2>1. \A s \in Slots : NewFile.slot[s] = Blank
    BY DEF NewFile
  <2>2. \A g \in Inodes : files'[g] = files[g] \/ files'[g] = NewFile
    BY <1>0, <1>2 DEF FilesOpened, DiskTypes
  <2> QED
    BY <2>1, <2>2 DEF OwnSlot
<1>3. "db" \in Names /\ "tmp" \in Names
  BY DEF Names
<1>4. CASE Start(p) \/ CompressOpens(p) \/ CompressReopens(p) \/ Zeroes(p)
  BY <1>1, <1>2, <1>3, <1>4 DEF Start, CompressOpens, CompressReopens, Zeroes, disk
<1>5. CASE AddWrites(p)
  <2>1. fd[p] \in Inodes /\ cmd[p].id \in Slots /\ NewRecord(p) \in Record /\ NewRecord(p).id = cmd[p].id
    BY <1>0, <1>5, Constants DEF RunInv, AddWrites, Is, NewRecord, Record, AskTypes
  <2> QED
    BY <1>0, <1>5, <2>1, WroteOwnSlot DEF AddWrites
<1>6. CASE DelWrites(p)
  <2>1. fd[p] \in Inodes /\ cmd[p].id \in Slots
    BY <1>0, <1>6 DEF RunInv, DelWrites, Is
  <2> QED
    BY <1>0, <1>6, <2>1, BlankTypes, WroteOwnSlot DEF DelWrites
<1>7. CASE CompressWrites(p)
  <2>1. tmp[p] \in Inodes /\ rec[p].id \in Slots /\ rec[p] \in Record
    BY <1>0, <1>7 DEF RunInv, CompressWrites, StepTypes, Record
  <2> QED
    BY <1>0, <1>7, <2>1, WroteOwnSlot DEF CompressWrites
<1>8. CASE UNCHANGED files
  BY <1>1, <1>8
<1> QED
  BY <1>4, <1>5, <1>6, <1>7, <1>8 DEF Command, Die, ReadFails, WriteFails, AddRejected, AddLooks, Looks,
     ScanReads, CompressReads, CompressRenames, disk

\* However many commands run at once, and wherever they are killed or cut short,
\* every record of every file, the abandoned temporary ones included, lies in
\* the slot of its id (sdbsc.c:71, 131, 237, 550).
THEOREM OwnSlotCorrect == Spec => []OwnSlot
<1>1. Init => OwnSlot
  BY DEF Init, OwnSlot, NewFile
<1>2. Inv /\ OwnSlot /\ [Next]_vars => OwnSlot'
  <2> SUFFICES ASSUME Inv, OwnSlot, [Next]_vars PROVE OwnSlot'
    OBVIOUS
  <2>1. CASE UNCHANGED vars
    BY <2>1 DEF vars, disk, OwnSlot
  <2> QED
    BY <2>1, OwnSlotNext DEF Next
<1> QED
  BY <1>1, <1>2, InvCorrect, PTL DEF Spec

----
(* Beside each other. *)

\* What a command knows when others run beside it and none compresses: the
\* students it has seen below its position are between those that were always
\* there and those that ever were, and what it found before a write still tells
\* something of the time it has run.
Below(S, n) == {i \in S : i < n}

Saw(p) ==
    /\ pc[p] \in {"idle", "run", "write", "done"} /\ cmd[p].op # "compress"
    /\ pc[p] \in {"idle", "done"} => pos[p] = 0
    /\ pc[p] \in {"run", "write"} => fd[p] = names["db"]
    /\ Running(p) => always[p] \subseteq Present /\ Present \subseteq ever[p]
    /\ pc[p] = "write" /\ cmd[p].op = "add" => cmd[p].id \in Ids \ always[p]
    /\ pc[p] = "write" /\ cmd[p].op = "del" => cmd[p].id \in ever[p]
    /\ pc[p] = "run" /\ cmd[p].op = "scan" =>
         /\ Cardinality(Below(always[p], pos[p])) <= count[p]
         /\ count[p] <= Cardinality(Below(ever[p], pos[p]))

SharedInv ==
    /\ names["tmp"] = NoFile
    /\ \A f \in Inodes : files[f].slot[0] = Blank
    /\ \A p \in Procs : Saw(p)

LEMMA InitShared == Init => SharedInv
BY Constants DEF Init, SharedInv, Saw, Running, NewFile, Names

\* Sets of ids, counted below a position.
LEMMA BelowCounts ==
  ASSUME NEW S \in SUBSET Ids, NEW n \in Nat
  PROVE  /\ IsFiniteSet(Below(S, n)) /\ Cardinality(Below(S, n)) \in Nat
         /\ Cardinality(Below(S, n + 1)) = Cardinality(Below(S, n)) + IF n \in S THEN 1 ELSE 0
         /\ Cardinality(Below(S, 0)) = 0
         /\ (\A i \in S : i < n) => Below(S, n) = S
<1>0. IsFiniteSet(Ids) /\ \A i \in S : i \in Nat \ {0}
  BY Constants, FS_Interval
<1>1. IsFiniteSet(Below(S, n)) /\ Cardinality(Below(S, n)) \in Nat
  BY <1>0, FS_Subset, FS_CardinalityType DEF Below
<1>2. n \notin Below(S, n) /\ Below(S, n + 1) = IF n \in S THEN Below(S, n) \cup {n} ELSE Below(S, n)
  BY <1>0 DEF Below
<1>3. Cardinality(Below(S, 0)) = 0 /\ ((\A i \in S : i < n) => Below(S, n) = S)
  <2>1. Below(S, 0) = {}
    BY <1>0 DEF Below
  <2> QED
    BY <1>0, <2>1, FS_EmptySet DEF Below
<1>4. Cardinality(Below(S, n + 1)) = Cardinality(Below(S, n)) + (IF n \in S THEN 1 ELSE 0)
  <2>1. CASE n \in S
    <3>1. Cardinality(Below(S, n) \cup {n}) = Cardinality(Below(S, n)) + 1
      BY <1>1, <1>2, FS_AddElement
    <3> QED
      BY <1>1, <1>2, <2>1, <3>1
  <2>2. CASE n \notin S
    BY <1>1, <1>2, <2>2
  <2> QED
    BY <2>1, <2>2
<1> QED
  BY <1>1, <1>3, <1>4

LEMMA BelowGrows ==
  ASSUME NEW S \in SUBSET Ids, NEW T \in SUBSET Ids, S \subseteq T, NEW n \in Nat
  PROVE  Cardinality(Below(S, n)) <= Cardinality(Below(T, n))
<1>1. IsFiniteSet(Below(T, n)) /\ Below(S, n) \subseteq Below(T, n)
  BY BelowCounts DEF Below
<1> QED
  BY <1>1, FS_Subset

\* What is read from the database is there, what is not read is not.
LEMMA ReadsDb ==
  ASSUME TypeOK, OwnSlot, NEW f \in Inodes, f = names["db"], files[f].slot[0] = Blank, NEW s \in Nat
  PROVE  /\ ReadAt(f, s) = "record" => s \in Present
         /\ ReadAt(f, s) \in {"eof", "blank"} => s \notin Present
         /\ ReadAt(f, s) = "eof" => \A i \in Present : i < s
<1>1. Db = files[f] /\ files[f].len \in 0..(2 * MaxId + 2)
  BY StudentDBAssumption DEF Db, TypeOK
<1>2. \A i \in Present : i \in Slots /\ i \in Nat /\ files[f].slot[i] # Blank
  BY <1>1, Constants DEF Present
<1>3. ReadAt(f, s) = "record" => s \in Present
  <2>1. ReadAt(f, s) = "record" => s \in Slots /\ files[f].slot[s] # Blank
    BY DEF ReadAt
  <2> QED
    BY <1>1, <2>1, Constants DEF Present
<1>4. ReadAt(f, s) = "eof" => \A i \in Present : i < s
  <2> SUFFICES ASSUME ReadAt(f, s) = "eof", NEW i \in Present PROVE i < s
    OBVIOUS
  <2>1. 2 * i < files[f].len
    BY <1>2 DEF OwnSlot
  <2>2. 2 * s >= files[f].len
    BY <1>1 DEF ReadAt
  <2> QED
    BY <1>1, <1>2, <2>1, <2>2, Constants
<1>5. ReadAt(f, s) = "blank" => s \notin Present
  BY <1>1, <1>2 DEF ReadAt
<1> QED
  BY <1>2, <1>3, <1>4, <1>5

\* Nobody's step takes the database from under a running command.
LEMMA NamesStay ==
  ASSUME Inv, SharedInv, NEW p \in Procs, Command(p)
  PROVE  /\ names'["tmp"] = NoFile
         /\ names["db"] # NoFile => names'["db"] = names["db"]
<1>0. Saw(p) /\ names["tmp"] = NoFile /\ "db" \in Names /\ "tmp" \in Names /\ TypeOK
  BY DEF SharedInv, Names, Inv
<1>1. ASSUME names' = NamesOpened("db") PROVE names'["tmp"] = NoFile /\ (names["db"] # NoFile => names'["db"] = names["db"])
  BY <1>0, <1>1 DEF NamesOpened, Opened, TypeOK
<1>2. CASE Start(p) \/ Zeroes(p)
  BY <1>0, <1>1, <1>2 DEF Start, Zeroes, disk
<1>3. CASE UNCHANGED names
  BY <1>0, <1>3
<1> QED
  BY <1>0, <1>2, <1>3 DEF Command, Saw, disk, Is, Die, ReadFails, WriteFails, AddRejected, AddLooks, AddWrites,
     Looks, DelWrites, ScanReads, CompressOpens, CompressReads, CompressWrites, CompressRenames, CompressReopens

\* The disk, as those beside the step see it.
LEMMA DiskShared ==
  ASSUME Inv, SharedInv, NEW p \in Procs, Command(p)
  PROVE  /\ \A f \in Inodes : files'[f].slot[0] = Blank
         /\ \A q \in Procs \ {p} : pc[q] \in {"run", "write"} => fd'[q] = names'["db"]
<1>0. Saw(p) /\ TypeOK /\ StepTypes /\ AskTypes /\ RunInv /\ 0 \in Slots /\ 0 \notin Ids /\ "db" \in Names
  BY Constants DEF SharedInv, Inv, TypeOK, StepTypes, AskTypes, Names
<1> DEFINE Unused == \A f \in Inodes : files[f].slot[0] = Blank
<1>1. Unused
  BY DEF SharedInv
<1>2. Unused'
  <2>1. ASSUME NEW b \in BOOLEAN, files' = FilesOpened("db", b) PROVE Unused'
    <3>1. \A g \in Inodes : files'[g] = files[g] \/ files'[g] = NewFile
      BY <1>0, <2>1 DEF FilesOpened, TypeOK
    <3> QED
      BY <1>0, <1>1, <3>1 DEF NewFile
  <2>2. CASE UNCHANGED files
    BY <1>1, <2>2
  <2>3. ASSUME NEW f \in Inodes, NEW s \in Slots, NEW r \in Record, Wrote(f, s, r) \/ WroteHalf(f, s, r),
               (Wrote(f, s, r) /\ r = Blank) \/ s # 0
        PROVE  Unused'
    <3>1. CASE s # 0
      BY <1>0, <1>1, <2>3, <3>1, WroteSlots
    <3>2. CASE Wrote(f, s, r) /\ r = Blank
      BY <1>0, <1>1, <2>3, <3>2, WroteSlots
    <3> QED
      BY <2>3, <3>1, <3>2
  <2>4. CASE AddWrites(p)
    <3>1. fd[p] \in Inodes /\ cmd[p].id \in Slots /\ cmd[p].id # 0 /\ NewRecord(p) \in Record
      BY <1>0, <2>4, Constants DEF RunInv, AddWrites, Is, Saw, NewRecord, Record, AskTypes
    <3> QED
      BY <2>3, <2>4, <3>1 DEF AddWrites
  <2>5. CASE DelWrites(p)
    <3>1. fd[p] \in Inodes /\ cmd[p].id \in Slots
      BY <1>0, <2>5 DEF RunInv, DelWrites, Is
    <3> QED
      BY <2>3, <2>5, <3>1, BlankTypes DEF DelWrites
  <2>6. CASE Start(p) \/ Zeroes(p)
    BY <2>1, <2>2, <2>6 DEF Start, Zeroes, disk
  <2> QED
    BY <1>0, <2>2, <2>4, <2>5, <2>6 DEF Command, Saw, disk, Is, Die, ReadFails, WriteFails, AddRejected, AddLooks,
       Looks, ScanReads, CompressOpens, CompressReads, CompressWrites, CompressRenames, CompressReopens
<1>3. ASSUME NEW q \in Procs \ {p}, pc[q] \in {"run", "write"} PROVE fd'[q] = names'["db"]
  <2>1. fd[q] = names["db"] /\ fd[q] # NoFile
    BY <1>0, <1>3, StudentDBAssumption DEF SharedInv, Saw, RunInv
  <2> QED
    BY <2>1, NamesStay, OthersKept
<1> QED
  BY <1>2, <1>3

LEMMA SawOther ==
  ASSUME Inv, SharedInv, NEW p \in Procs, Command(p), Remember, NEW q \in Procs, q # p
  PROVE  Saw(q)'
<1>0. /\ Saw(q) /\ PastTypes /\ AskTypes /\ StepTypes
      /\ pc'[q] = pc[q] /\ pos'[q] = pos[q] /\ cmd'[q] = cmd[q] /\ count'[q] = count[q] /\ fd'[q] = fd[q]
  BY OthersKept DEF SharedInv, Inv, TypeOK, PastTypes, AskTypes, StepTypes
<1>1. pc'[q] \in {"run", "write"} => fd'[q] = names'["db"]
  BY <1>0, DiskShared
<1>2. Running(q)' = Running(q)
  BY <1>0 DEF Running
<1>3. Running(q) => always'[q] = always[q] \cap Present' /\ ever'[q] = ever[q] \cup Present'
  BY <1>2 DEF Remember
<1>4. PastTypes'
  BY <1>0, PastTypesNext
<1>5. ASSUME pc[q] = "run", cmd[q].op = "scan"
      PROVE  /\ Cardinality(Below(always'[q], pos[q])) <= count[q]
             /\ count[q] <= Cardinality(Below(ever'[q], pos[q]))
  <2>1. always'[q] \subseteq always[q] /\ ever[q] \subseteq ever'[q]
    BY <1>3, <1>5 DEF Running
  <2>2. /\ always[q] \in SUBSET Ids /\ always'[q] \in SUBSET Ids
        /\ ever[q] \in SUBSET Ids /\ ever'[q] \in SUBSET Ids
    BY <1>0, <1>4 DEF PastTypes
  <2>3. pos[q] \in Nat /\ count[q] \in Nat
    BY <1>0, Constants DEF StepTypes, AskTypes
  <2>4. /\ Cardinality(Below(always'[q], pos[q])) <= Cardinality(Below(always[q], pos[q]))
        /\ Cardinality(Below(ever[q], pos[q])) <= Cardinality(Below(ever'[q], pos[q]))
    BY <2>1, <2>2, <2>3, BelowGrows
  <2>5. /\ Cardinality(Below(always'[q], pos[q])) \in Nat /\ Cardinality(Below(always[q], pos[q])) \in Nat
        /\ Cardinality(Below(ever[q], pos[q])) \in Nat /\ Cardinality(Below(ever'[q], pos[q])) \in Nat
    BY <2>2, <2>3, BelowCounts
  <2> QED
    BY <1>0, <1>5, <2>3, <2>4, <2>5 DEF Saw
<1>6. Running(q) => always'[q] \subseteq Present' /\ Present' \subseteq ever'[q]
  BY <1>3
<1>7. pc[q] = "write" => /\ cmd[q].op = "add" => cmd[q].id \in Ids \ always'[q]
                         /\ cmd[q].op = "del" => cmd[q].id \in ever'[q]
  BY <1>0, <1>3 DEF Saw, Running
<1> QED
  BY <1>0, <1>1, <1>2, <1>5, <1>6, <1>7 DEF Saw

\* A command ends knowing nothing.
LEMMA SawEnd ==
  ASSUME StepTypes, NEW p \in Procs, NEW o, Exits(p, o), cmd'[p].op # "compress"
  PROVE  Saw(p)' /\ out'[p] = o
BY DEF StepTypes, Exits, Saw, Running

LEMMA SawStart ==
  ASSUME "compress" \notin Ops, Inv, SharedInv, NEW p \in Procs, Start(p), Remember
  PROVE  Saw(p)'
<1>0. Saw(p) /\ StepTypes /\ AskTypes /\ TypeOK /\ "db" \in Names
  BY DEF SharedInv, Inv, TypeOK, StepTypes, AskTypes, Names
<1>1. cmd'[p].op # "compress"
  BY <1>0 DEF Start, AskTypes
<1>2. CASE Fails(p)
  BY <1>0, <1>1, <1>2, SawEnd DEF Fails
<1>3. CASE ~Fails(p)
  <2>1. /\ pc[p] \in {"idle", "done"} /\ pc'[p] = "run" /\ fd'[p] = Opened("db") /\ names'["db"] = Opened("db")
        /\ pos'[p] = pos[p] /\ count'[p] = 0
    BY <1>0, <1>3 DEF Start, NamesOpened, StepTypes, AskTypes, TypeOK
  <2>2. always'[p] = Present' /\ ever'[p] = Present'
    BY <2>1 DEF Remember, Running
  <2>3. pos'[p] = 0
    BY <1>0, <2>1 DEF Saw
  <2>4. Cardinality(Below(Present', 0)) = 0
    BY BelowCounts DEF Present
  <2> QED
    BY <1>1, <2>1, <2>2, <2>3, <2>4 DEF Saw
<1> QED
  BY <1>2, <1>3

\* What a command that goes on has seen.
LEMMA SawOn ==
  ASSUME Inv, OwnSlot, SharedInv, NEW p \in Procs, Remember, UNCHANGED disk, Running(p), Running(p)'
  PROVE  /\ Present' = Present /\ always'[p] = always[p] /\ ever'[p] = ever[p]
         /\ always[p] \subseteq Present /\ Present \subseteq ever[p]
<1>1. always[p] \subseteq Present /\ Present \subseteq ever[p]
  BY DEF SharedInv, Saw
<1>2. Present' = Present
  BY DEF Present, Db, disk
<1> QED
  BY <1>1, <1>2 DEF Remember

LEMMA ReadsShared ==
  ASSUME Inv, OwnSlot, SharedInv, NEW p \in Procs, pc[p] = "run", NEW s \in Nat
  PROVE  /\ ReadAt(fd[p], s) = "record" => s \in Present
         /\ ReadAt(fd[p], s) \in {"eof", "blank"} => s \notin Present
         /\ ReadAt(fd[p], s) = "eof" => \A i \in Present : i < s
<1>1. fd[p] \in Inodes /\ fd[p] = names["db"] /\ files[fd[p]].slot[0] = Blank /\ TypeOK
  BY DEF SharedInv, Saw, Inv, RunInv
<1> QED
  BY <1>1, ReadsDb

LEMMA SawScan ==
  ASSUME Inv, OwnSlot, SharedInv, NEW p \in Procs, ScanReads(p), Remember, pc'[p] = "run"
  PROVE  Saw(p)'
<1>0. Saw(p) /\ StepTypes /\ AskTypes /\ PastTypes /\ StepTypes'
  BY StepTypesNext DEF SharedInv, Inv, TypeOK, StepTypes, AskTypes, PastTypes, Command
<1>1. pos[p] \in Nat /\ count[p] \in Nat /\ pc[p] = "run" /\ cmd[p].op = "scan"
  BY <1>0, Constants DEF StepTypes, AskTypes, ScanReads, Is
<1>2. /\ ReadAt(fd[p], pos[p]) \in {"record", "blank"}
      /\ pos'[p] = pos[p] + 1 /\ UNCHANGED <<disk, cmd, fd>>
      /\ count'[p] = IF ReadAt(fd[p], pos[p]) = "record" THEN count[p] + 1 ELSE count[p]
  BY <1>0 DEF ScanReads, Exits, StepTypes, AskTypes
<1>3. Present' = Present /\ always'[p] = always[p] /\ ever'[p] = ever[p]
      /\ always[p] \subseteq Present /\ Present \subseteq ever[p]
  BY <1>1, <1>2, SawOn DEF Running
<1>4. always[p] \in SUBSET Ids /\ ever[p] \in SUBSET Ids
  BY <1>0 DEF PastTypes
<1>5. (pos[p] \in always[p] => ReadAt(fd[p], pos[p]) = "record") /\ (ReadAt(fd[p], pos[p]) = "record" => pos[p] \in ever[p])
  BY <1>1, <1>2, <1>3, ReadsShared
<1>6. /\ Cardinality(Below(always[p], pos[p] + 1)) <= count'[p]
      /\ count'[p] <= Cardinality(Below(ever[p], pos[p] + 1))
  <2>1. Cardinality(Below(always[p], pos[p])) <= count[p] /\ count[p] <= Cardinality(Below(ever[p], pos[p]))
    BY <1>0, <1>1 DEF Saw
  <2>2. /\ Cardinality(Below(always[p], pos[p])) \in Nat /\ Cardinality(Below(ever[p], pos[p])) \in Nat
        /\ Cardinality(Below(always[p], pos[p] + 1)) = Cardinality(Below(always[p], pos[p])) + IF pos[p] \in always[p] THEN 1 ELSE 0
        /\ Cardinality(Below(ever[p], pos[p] + 1)) = Cardinality(Below(ever[p], pos[p])) + IF pos[p] \in ever[p] THEN 1 ELSE 0
    BY <1>1, <1>4, BelowCounts
  <2> QED
    BY <1>1, <1>2, <1>5, <2>1, <2>2
<1>7. fd'[p] = names'["db"]
  BY <1>0, <1>1, <1>2 DEF Saw, disk
<1> QED
  BY <1>0, <1>1, <1>2, <1>3, <1>6, <1>7 DEF Saw

\* An add that goes on to write has found nothing, a delete something.
LEMMA SawLook ==
  ASSUME Inv, OwnSlot, SharedInv, NEW p \in Procs, AddLooks(p) \/ Looks(p), Remember, pc'[p] = "write"
  PROVE  Saw(p)'
<1>0. Saw(p) /\ StepTypes /\ AskTypes
  BY DEF SharedInv, Inv, TypeOK, StepTypes, AskTypes
<1>1. /\ pc[p] = "run" /\ UNCHANGED <<disk, cmd, fd>> /\ cmd[p].id \in Nat
      /\ \/ cmd[p].op = "add" /\ cmd[p].id \in Ids /\ ReadAt(fd[p], cmd[p].id) \in {"eof", "blank"}
         \/ cmd[p].op = "del" /\ ReadAt(fd[p], cmd[p].id) = "record"
  BY <1>0, Constants DEF AddLooks, Looks, Is, InRange, Exits, StepTypes, AskTypes
<1>2. Present' = Present /\ always'[p] = always[p] /\ ever'[p] = ever[p]
      /\ always[p] \subseteq Present /\ Present \subseteq ever[p]
  BY <1>1, SawOn DEF Running
<1>3. \/ cmd[p].op = "add" /\ cmd[p].id \in Ids \ always[p]
      \/ cmd[p].op = "del" /\ cmd[p].id \in ever[p]
  BY <1>1, <1>2, ReadsShared
<1>4. fd'[p] = names'["db"]
  BY <1>0, <1>1 DEF Saw, disk
<1> QED
  BY <1>1, <1>2, <1>3, <1>4 DEF Saw

LEMMA SawOwn ==
  ASSUME "compress" \notin Ops, Inv, OwnSlot, SharedInv, NEW p \in Procs, Command(p), Remember
  PROVE  Saw(p)'
<1>0. Saw(p) /\ StepTypes /\ AskTypes
  BY DEF SharedInv, Inv, TypeOK, StepTypes, AskTypes
<1>1. ASSUME NEW o, Exits(p, o), UNCHANGED cmd PROVE Saw(p)'
  BY <1>0, <1>1, SawEnd DEF Saw
<1>2. CASE Start(p)
  BY <1>2, SawStart
<1>3. CASE Die(p) \/ ReadFails(p) \/ WriteFails(p) \/ AddRejected(p) \/ AddWrites(p) \/ DelWrites(p) \/ Zeroes(p)
  BY <1>1, <1>3 DEF Die, ReadFails, WriteFails, AddRejected, AddWrites, DelWrites, Zeroes, Fails
<1>4. CASE AddLooks(p) \/ Looks(p)
  BY <1>0, <1>1, <1>4, SawLook DEF AddLooks, Looks, StepTypes
<1>5. CASE ScanReads(p)
  BY <1>0, <1>1, <1>5, SawScan DEF ScanReads, Is
<1> QED
  BY <1>0, <1>2, <1>3, <1>4, <1>5 DEF Command, Saw, Is, CompressOpens, CompressReads, CompressWrites,
     CompressRenames, CompressReopens

LEMMA SharedNext == "compress" \notin Ops /\ Inv /\ OwnSlot /\ SharedInv /\ [Next]_vars => SharedInv'
<1> SUFFICES ASSUME "compress" \notin Ops, Inv, OwnSlot, SharedInv, [Next]_vars PROVE SharedInv'
  OBVIOUS
<1>1. ASSUME NEW p \in Procs, Command(p), Remember PROVE SharedInv'
  <2>1. \A q \in Procs : Saw(q)'
    BY <1>1, SawOwn, SawOther
  <2> QED
    BY <1>1, <2>1, NamesStay, DiskShared DEF SharedInv
<1>2. CASE UNCHANGED vars
  BY <1>2 DEF vars, disk, proc, SharedInv, Saw, Running, Present, Db
<1> QED
  BY <1>1, <1>2 DEF Next

LEMMA SharedCorrect == ASSUME "compress" \notin Ops PROVE Spec => [](Inv /\ OwnSlot /\ SharedInv)
BY InitShared, SharedNext, InvCorrect, OwnSlotCorrect, PTL DEF Spec

\* A command reports what it does, and for its own step only.
LEMMA WhoReports ==
  ASSUME Inv, SharedInv, NEW p \in Procs, Command(p), NEW q \in Procs, NEW o, Reports(q, o),
         o \in {"added", "missing", "duplicate", "found", "deleted", "counted"}
  PROVE  q = p /\ UNCHANGED cmd /\ \/ o = "added" /\ AddWrites(p)
                                   \/ o = "deleted" /\ DelWrites(p)
                                   \/ o = "counted" /\ ScanReads(p)
                                   \/ o = "duplicate" /\ AddLooks(p)
                                   \/ o \in {"found", "missing"} /\ Looks(p)
<1>0. StepTypes /\ Saw(p)
  BY DEF Inv, TypeOK, StepTypes, SharedInv
<1>1. q = p
  BY OthersKept DEF Reports
<1>2. ASSUME NEW e, Exits(p, e) PROVE e = o
  BY <1>0, <1>1, <1>2 DEF Exits, StepTypes, Reports
<1>3. ~(Die(p) \/ ReadFails(p) \/ WriteFails(p) \/ AddRejected(p))
  BY <1>2 DEF Die, ReadFails, WriteFails, AddRejected, Fails
<1>4. ~(Start(p) \/ Zeroes(p))
  BY <1>0, <1>1, <1>2 DEF Start, Zeroes, Fails, StepTypes, Reports
<1>5. AddWrites(p) => o = "added"
  BY <1>2 DEF AddWrites, Fails
<1>6. DelWrites(p) => o = "deleted"
  BY <1>2 DEF DelWrites
<1>7. ScanReads(p) => o = "counted"
  BY <1>0, <1>1, <1>2 DEF ScanReads, StepTypes, Reports
<1>8. (AddLooks(p) => o = "duplicate") /\ (Looks(p) => o \in {"found", "missing"})
  BY <1>0, <1>1, <1>2 DEF AddLooks, Looks, StepTypes, Reports
<1>9. AddWrites(p) \/ DelWrites(p) \/ ScanReads(p) \/ AddLooks(p) \/ Looks(p)
  BY <1>0, <1>3, <1>4 DEF Command, Saw, Is, CompressOpens, CompressReads, CompressWrites, CompressRenames, CompressReopens
<1> QED
  BY <1>1, <1>5, <1>6, <1>7, <1>8, <1>9 DEF AddWrites, DelWrites, ScanReads, AddLooks, Looks

LEMMA CountReported ==
  ASSUME Inv, OwnSlot, SharedInv, NEW p \in Procs, Command(p), Reports(p, "counted")
  PROVE  Cardinality(always[p]) <= count[p] /\ count[p] <= Cardinality(ever[p])
<1>0. Saw(p) /\ StepTypes /\ AskTypes /\ PastTypes /\ ScanReads(p)
  BY WhoReports DEF SharedInv, Inv, TypeOK, StepTypes, AskTypes, PastTypes
<1>1. /\ pos[p] \in Nat /\ count[p] \in Nat /\ pc[p] = "run" /\ cmd[p].op = "scan"
      /\ ReadAt(fd[p], pos[p]) = "eof"
  BY <1>0, Constants DEF StepTypes, AskTypes, ScanReads, Is, Reports
<1>2. /\ always[p] \subseteq Present /\ always[p] \in SUBSET Ids /\ ever[p] \in SUBSET Ids
      /\ Cardinality(Below(always[p], pos[p])) <= count[p] /\ count[p] <= Cardinality(Below(ever[p], pos[p]))
  BY <1>0, <1>1 DEF Saw, Running, PastTypes
<1>3. \A i \in always[p] : i < pos[p]
  BY <1>1, <1>2, ReadsShared
<1>4. Below(always[p], pos[p]) = always[p]
  BY <1>1, <1>2, <1>3, BelowCounts
<1>5. IsFiniteSet(ever[p]) /\ Below(ever[p], pos[p]) \subseteq ever[p]
  BY <1>2, Constants, FS_Interval, FS_Subset DEF Below
<1>6. /\ Cardinality(Below(ever[p], pos[p])) <= Cardinality(ever[p])
      /\ Cardinality(Below(ever[p], pos[p])) \in Nat /\ Cardinality(ever[p]) \in Nat
  BY <1>5, FS_Subset, FS_CardinalityType
<1> QED
  BY <1>1, <1>2, <1>4, <1>6

LEMMA StudentReported ==
  ASSUME Inv, OwnSlot, SharedInv, NEW p \in Procs, Command(p)
  PROVE  /\ (\E o \in {"added", "missing"} : Reports(p, o)) => cmd[p].id \notin always[p]
         /\ (\E o \in {"duplicate", "found", "deleted"} : Reports(p, o)) => cmd[p].id \in ever[p]
<1>0. Saw(p) /\ StepTypes /\ AskTypes
  BY DEF SharedInv, Inv, TypeOK, StepTypes, AskTypes
<1>1. pc[p] = "run" => always[p] \subseteq Present /\ Present \subseteq ever[p]
  BY <1>0 DEF Saw, Running
<1>2. Reports(p, "added") => cmd[p].id \notin always[p]
  BY <1>0, WhoReports DEF AddWrites, Is, Saw
<1>3. Reports(p, "deleted") => cmd[p].id \in ever[p]
  BY <1>0, WhoReports DEF DelWrites, Is, Saw
<1>4. Reports(p, "duplicate") => cmd[p].id \in ever[p]
  <2> SUFFICES ASSUME Reports(p, "duplicate") PROVE cmd[p].id \in ever[p]
    OBVIOUS
  <2>1. AddLooks(p)
    BY WhoReports
  <2>2. pc[p] = "run" /\ cmd[p].id \in Nat
    BY <2>1, Constants DEF AddLooks, Is, InRange, Ids
  <2>3. out[p] # "duplicate" /\ out'[p] = "duplicate"
    BY <1>0 DEF StepTypes, Reports
  <2>4. ReadAt(fd[p], cmd[p].id) = "record"
    BY <2>1, <2>3 DEF AddLooks
  <2> QED
    BY <1>1, <2>2, <2>4, ReadsShared
<1>5. ASSUME NEW o \in {"found", "missing"}, Reports(p, o)
      PROVE  /\ o = "found" => cmd[p].id \in ever[p]
             /\ o = "missing" => cmd[p].id \notin always[p]
  <2>1. Looks(p)
    BY <1>5, WhoReports
  <2>2. pc[p] = "run" /\ cmd[p].id \in Int /\ cmd[p].id >= 0
    BY <1>0, <2>1 DEF Looks, AskTypes
  <2>3. out[p] # o /\ out'[p] = o /\ p \in DOMAIN out
    BY <1>0, <1>5 DEF StepTypes, Reports
  <2>4. /\ o = "found" => ReadAt(fd[p], cmd[p].id) = "record"
        /\ o = "missing" => ReadAt(fd[p], cmd[p].id) \in {"eof", "blank"}
    BY <2>1, <2>3 DEF Looks, Exits
  <2>5. cmd[p].id \in Nat
    BY <2>2
  <2> QED
    BY <1>1, <2>2, <2>4, <2>5, ReadsShared
<1> QED
  BY <1>2, <1>3, <1>4, <1>5

\* However many adds, deletes, resets, lookups and scans run at once, killed or
\* failing anywhere: what a scan counts lies between the students that were
\* always there and those that ever were while it ran (sdbsc.c:280-324).
THEOREM CountCorrect == ASSUME "compress" \notin Ops PROVE Spec => CountInRange
<1>1. ASSUME Inv, OwnSlot, SharedInv, NEW p \in Procs, Command(p), NEW q \in Procs, Reports(q, "counted")
      PROVE  Cardinality(always[q]) <= count[q] /\ count[q] <= Cardinality(ever[q])
  BY <1>1, WhoReports, CountReported
<1>2. Inv /\ OwnSlot /\ SharedInv /\ [Next]_vars => [CountsBetween]_vars
  <2>1. ASSUME Inv, OwnSlot, SharedInv, Next, NEW q \in Procs, Reports(q, "counted")
        PROVE  Cardinality(always[q]) <= count[q] /\ count[q] <= Cardinality(ever[q])
    BY <1>1, <2>1 DEF Next
  <2> QED
    BY <2>1 DEF CountsBetween
<1>3. Spec => [](Inv /\ OwnSlot /\ SharedInv)
  BY SharedCorrect
<1> QED
  BY <1>2, <1>3, PTL DEF Spec, CountInRange

\* And what an add, a delete or a lookup reports of its student was so at some
\* time while it ran (sdbsc.c:63-94, 139-253).
THEOREM WereTrueCorrect == ASSUME "compress" \notin Ops PROVE Spec => AnswersWereTrue
<1> DEFINE Fair(q) ==
      /\ (\E o \in {"added", "missing"} : Reports(q, o)) => cmd[q].id \notin always[q]
      /\ (\E o \in {"duplicate", "found", "deleted"} : Reports(q, o)) => cmd[q].id \in ever[q]
<1>1. ASSUME Inv, OwnSlot, SharedInv, NEW p \in Procs, Command(p), NEW q \in Procs PROVE Fair(q)
  <2>1. CASE q = p
    BY <1>1, <2>1, StudentReported
  <2>2. CASE q # p
    BY <1>1, <2>2, WhoReports
  <2> QED
    BY <2>1, <2>2
<1>2. Inv /\ OwnSlot /\ SharedInv /\ [Next]_vars => [ReportsWhatWas]_vars
  <2> HIDE DEF Fair
  <2>1. ASSUME Inv, OwnSlot, SharedInv, Next, NEW q \in Procs PROVE Fair(q)
    BY <1>1, <2>1 DEF Next
  <2>2. Next => \A q \in Procs : Fair(q) \/ ~(Inv /\ OwnSlot /\ SharedInv)
    BY <2>1
  <2> USE DEF Fair
  <2> QED
    BY <2>2 DEF ReportsWhatWas
<1>3. Spec => [](Inv /\ OwnSlot /\ SharedInv)
  BY SharedCorrect
<1> QED
  BY <1>2, <1>3, PTL DEF Spec, AnswersWereTrue
====
