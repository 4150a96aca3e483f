---- MODULE StudentMapProofs ----
(***************************************************************************)
(* Proofs about StudentDB when commands run one at a time, killed or       *)
(* failing anywhere: its answers are true, and the files implement a map.  *)
(***************************************************************************)
EXTENDS StudentDBProofs

\* One command runs, the latest; the name of the database is no other's.
AloneInv == \A p, q \in Procs : Running(p) /\ Running(q) => p = q
TurnInv  == \E p \in Procs :
              /\ cmd[p].by = runs
              /\ \A q \in Procs : /\ cmd[q].by <= runs
                                  /\ cmd[q].by = runs => cmd[q] = cmd[p]
                                  /\ Running(q) => cmd[q].by = runs
NamesInv == names["db"] # NoFile => names["db"] # names["tmp"]

\* Nobody has id 0, so its slot is never used.
ZeroInv == /\ \A f \in Inodes : files[f].slot[0] = Blank
           /\ \A p \in Procs : pc[p] = "put" => rec[p].id \in Ids

\* A walk starts at the beginning.
RestInv == \A p \in Procs : pc[p] \in {"idle", "done"} \/ (pc[p] = "run" /\ cmd[p].op # "scan") => pos[p] = 0

\* What a running command knows of the database: what its read before a write
\* found, what a compression has copied, what a scan has counted.
Stored(i)    == Db.slot[i]
Students(n)  == {i \in Ids : i < n /\ Stored(i) # Blank}
Copied(p, n) == \A s \in Slots : files[tmp[p]].slot[s] = IF s < n THEN Stored(s) ELSE Blank

Knows(p) ==
    /\ pc[p] \in {"run", "write", "copy", "put", "rename"} => fd[p] = names["db"]
    /\ pc[p] \in {"copy", "put", "rename"} => tmp[p] = names["tmp"]
    /\ pc[p] = "run" /\ cmd[p].op = "scan" => count[p] = Cardinality(Students(pos[p]))
    /\ pc[p] = "write" => /\ cmd[p].id \in Ids
                          /\ cmd[p].op = "add" => Stored(cmd[p].id) = Blank
    /\ pc[p] = "copy" => Copied(p, pos[p])
    /\ pc[p] = "put" => /\ pos[p] - 1 \in Slots /\ Copied(p, pos[p] - 1)
                        /\ rec[p] = Stored(pos[p] - 1) /\ rec[p] # Blank
    /\ pc[p] = "rename" => Copied(p, MaxId + 1)

OneInv == AloneInv /\ TurnInv /\ NamesInv /\ ZeroInv /\ RestInv /\ \A p \in Procs : Knows(p)

----
(* Whose turn it is, and the names. *)

LEMMA InitOne == Init => OneInv
<1> SUFFICES ASSUME Init PROVE OneInv
  OBVIOUS
<1>1. AloneInv /\ NamesInv
  BY DEF Init, AloneInv, NamesInv, Running, Names
<1>2. TurnInv
  BY StudentDBAssumption DEF Init, TurnInv, Running
<1>3. ZeroInv
  BY Constants DEF Init, ZeroInv, NewFile
<1>4. \A p \in Procs : Knows(p)
  BY DEF Init, Knows
<1>5. RestInv
  BY DEF Init, RestInv
<1> QED
  BY <1>1, <1>2, <1>3, <1>4, <1>5 DEF OneInv

\* The others are at rest.
LEMMA OthersRest ==
  ASSUME Exclusive, Inv, OneInv, NEW p \in Procs, Command(p), NEW q \in Procs, q # p
  PROVE  ~Running(q) /\ ~Running(q)'
<1>1. Start(p) => ~Running(q)
  BY DEF Start, Running
<1>2. ~Start(p) => Running(p)
  BY DEF Command, Running, Die, ReadFails, WriteFails, AddRejected, AddLooks, AddWrites, Looks, DelWrites,
     ScanReads, CompressOpens, CompressReads, CompressWrites, CompressRenames, CompressReopens, Zeroes, Is
<1>3. ~Running(q)
  BY <1>1, <1>2 DEF OneInv, AloneInv
<1> QED
  BY <1>3, OthersKept DEF Running

\* Only a start makes a command, which is then the latest.
LEMMA OnlyStartAsks ==
  ASSUME Inv, NEW p \in Procs, Command(p)
  PROVE  \/ /\ Start(p) /\ runs' = runs + 1 /\ cmd'[p].by = runs + 1
            /\ cmd' = [cmd EXCEPT ![p] = cmd'[p]]
         \/ Running(p) /\ UNCHANGED <<runs, cmd>>
<1>1. CASE Start(p)
  <2>1. PICK op \in Ops, id \in Args \cup {0} : cmd' = [cmd EXCEPT ![p] = [op |-> op, id |-> id, by |-> runs + 1]]
    BY <1>1 DEF Start
  <2>2. cmd \in [Procs -> [op : AllOps, id : Int, by : 0..MaxCommands]]
    BY DEF Inv, TypeOK
  <2> QED
    BY <1>1, <2>1, <2>2 DEF Start
<1> QED
  BY <1>1 DEF Command, Running, Die, ReadFails, WriteFails, AddRejected, AddLooks, AddWrites, Looks, DelWrites,
     ScanReads, CompressOpens, CompressReads, CompressWrites, CompressRenames, CompressReopens, Zeroes, Is

LEMMA TurnNext ==
  ASSUME Exclusive, Inv, OneInv, NEW p \in Procs, Command(p)
  PROVE  AloneInv' /\ TurnInv'
<1>1. AloneInv'
  BY OthersRest DEF AloneInv
<1>2. TurnInv'
  <2>0. AskTypes /\ AskTypes'
    BY AskTypesNext DEF Inv, TypeOK, AskTypes
  <2>1. CASE UNCHANGED <<runs, cmd>> /\ Running(p)
    <3>1. \A q \in Procs : Running(q)' => Running(q)
      BY <2>1, OthersRest
    <3> QED
      BY <2>1, <3>1 DEF OneInv, TurnInv
  <2>2. CASE runs' = runs + 1 /\ cmd'[p].by = runs + 1 /\ cmd' = [cmd EXCEPT ![p] = cmd'[p]]
    <3>1. ASSUME NEW q \in Procs, q # p PROVE cmd'[q].by < runs' /\ ~Running(q)'
      <4>1. cmd'[q].by <= runs
        BY <3>1, OthersKept DEF OneInv, TurnInv
      <4>2. cmd'[q].by \in Int /\ runs \in Int
        BY <2>0, Constants DEF AskTypes
      <4> QED
        BY <2>2, <3>1, <4>1, <4>2, OthersRest
    <3>2. runs' \in Int /\ \A q \in Procs : cmd'[q].by \in Int
      BY <2>0, Constants DEF AskTypes
    <3>3. cmd'[p].by = runs'
      BY <2>2
    <3>4. \A q \in Procs : /\ cmd'[q].by <= runs'
                           /\ cmd'[q].by = runs' => cmd'[q] = cmd'[p]
                           /\ Running(q)' => cmd'[q].by = runs'
      BY <3>1, <3>2, <3>3
    <3> QED
      BY <3>3, <3>4 DEF TurnInv
  <2> QED
    BY <2>1, <2>2, OnlyStartAsks
<1> QED
  BY <1>1, <1>2

\* Opening keeps or empties what is stored.
LEMMA OpenedDb ==
  ASSUME TypeOK, NamesInv, NEW b \in BOOLEAN, names' = NamesOpened("db"), files' = FilesOpened("db", b)
  PROVE  /\ NamesInv' /\ names'["db"] = Opened("db")
         /\ \A s \in Slots : Stored(s)' = IF b THEN Blank ELSE Stored(s)
<1>1. "db" \in Names /\ "tmp" \in Names
  BY DEF Names
<1>2. Opened("db") \in Inodes /\ (names["db"] = NoFile => Fresh \notin Used)
  BY <1>1, OpenedTypes, AnInodeIsFree DEF TypeOK
<1>3. names'["db"] = Opened("db") /\ names'["tmp"] = names["tmp"] /\ Opened("db") # names["tmp"]
  BY <1>1, <1>2 DEF TypeOK, NamesOpened, Opened, Used, NamesInv
<1>4. Opened("db") # NoFile
  BY <1>2, StudentDBAssumption
<1>5. Db' = files'[Opened("db")]
  BY <1>3, <1>4 DEF Db
<1>6. CASE names["db"] = NoFile \/ b
  <2>1. files'[Opened("db")] = NewFile
    BY <1>2, <1>6 DEF FilesOpened, TypeOK
  <2>2. \A s \in Slots : Stored(s)' = Blank
    BY <1>5, <2>1 DEF Stored, NewFile
  <2>3. ~b => \A s \in Slots : Stored(s) = Blank
    BY <1>6 DEF Stored, Db, NewFile
  <2> QED
    BY <1>3, <2>2, <2>3 DEF NamesInv
<1>7. CASE names["db"] # NoFile /\ ~b
  BY <1>3, <1>5, <1>7 DEF NamesInv, FilesOpened, Opened, Stored, Db
<1> QED
  BY <1>6, <1>7

\* The file behind a descriptor of a running command is the database.
LEMMA FdIsDb ==
  ASSUME Inv, OneInv, NEW p \in Procs, pc[p] \in {"run", "write", "copy", "put", "rename"}
  PROVE  fd[p] = names["db"] /\ fd[p] \in Inodes /\ names["db"] # NoFile /\ Db = files[fd[p]]
<1>1. fd[p] = names["db"] /\ fd[p] \in Inodes
  BY DEF Inv, RunInv, OneInv, Knows
<1> QED
  BY <1>1, StudentDBAssumption DEF Db

LEMMA TmpIsNot ==
  ASSUME Inv, OneInv, NEW p \in Procs, pc[p] \in {"copy", "put", "rename"}
  PROVE  tmp[p] = names["tmp"] /\ tmp[p] \in Inodes /\ tmp[p] # fd[p]
<1>1. tmp[p] = names["tmp"] /\ tmp[p] \in Inodes
  BY DEF Inv, RunInv, OneInv, Knows
<1> QED
  BY <1>1, FdIsDb DEF OneInv, NamesInv

\* What is read is what is stored.
LEMMA ReadIsStored ==
  ASSUME Inv, OwnSlot, OneInv, NEW p \in Procs, pc[p] \in {"run", "write", "copy", "put", "rename"}, NEW s \in Nat
  PROVE  /\ ReadAt(fd[p], s) = "record" => s \in Ids /\ Stored(s) # Blank /\ 2 * s + 2 <= Db.len
         /\ ReadAt(fd[p], s) = "blank" => s \in Slots /\ Stored(s) = Blank
         /\ ReadAt(fd[p], s) = "eof" => \A t \in Slots : t >= s => Stored(t) = Blank
<1> DEFINE f == fd[p]
<1>1. f \in Inodes /\ Db = files[f] /\ files[f].len \in 0..(2 * MaxId + 2)
  BY FdIsDb DEF Inv, TypeOK
<1>2. ReadAt(f, s) = "record" => s \in Ids /\ Stored(s) # Blank /\ 2 * s + 2 <= Db.len
  <2>1. ReadAt(f, s) = "record" => s \in Slots /\ files[f].slot[s] # Blank
    BY DEF ReadAt
  <2>2. files[f].slot[0] = Blank
    BY <1>1 DEF OneInv, ZeroInv
  <2>3. ReadAt(f, s) = "record" => 2 * s + 2 <= files[f].len
    BY <1>1 DEF ReadAt
  <2> QED
    BY <1>1, <2>1, <2>2, <2>3, Constants DEF Stored
<1>3. ReadAt(f, s) = "blank" => s \in Slots /\ Stored(s) = Blank
  BY <1>1, Constants DEF ReadAt, Stored
<1>4. ReadAt(f, s) = "eof" => \A t \in Slots : t >= s => Stored(t) = Blank
  <2> SUFFICES ASSUME ReadAt(f, s) = "eof", NEW t \in Slots, t >= s, Stored(t) # Blank PROVE FALSE
    OBVIOUS
  <2>1. 2 * t < files[f].len
    BY <1>1 DEF OwnSlot, Stored
  <2>2. 2 * s >= files[f].len
    BY <1>1 DEF ReadAt
  <2> QED
    BY <1>1, <2>1, <2>2, Constants
<1> QED
  BY <1>2, <1>3, <1>4

----
(* What is stored after a step. *)

StoredKept == \A s \in Slots : Stored(s)' = Stored(s)

LEMMA AddStores ==
  ASSUME Inv, OwnSlot, OneInv, NEW p \in Procs, AddWrites(p)
  PROVE  /\ cmd[p].id \in Ids /\ Stored(cmd[p].id) = Blank
         /\ \E r \in Record \ {Blank} :
              /\ r.id = cmd[p].id /\ r.by = cmd[p].by
              /\ r = NewRecord(p) \/ ~r.whole
              /\ out'[p] = "added" => r = NewRecord(p)
              /\ \A s \in Slots : Stored(s)' = IF s = cmd[p].id THEN r ELSE Stored(s)
<1>1. pc[p] = "write" /\ cmd[p].op = "add"
  BY DEF AddWrites, Is
<1>2. cmd[p].id \in Ids /\ Stored(cmd[p].id) = Blank
  BY <1>1 DEF OneInv, Knows
<1>3. NewRecord(p) \in Record /\ NewRecord(p).id = cmd[p].id /\ NewRecord(p).by = cmd[p].by /\ cmd[p].id \in Slots
  BY <1>2, Constants DEF NewRecord, Record, Inv, TypeOK
<1>4. fd[p] \in Inodes /\ Db = files[fd[p]] /\ Db' = files'[fd[p]]
  BY <1>1, FdIsDb DEF AddWrites, Db
<1>5. Wrote(fd[p], cmd[p].id, NewRecord(p)) \/ WroteHalf(fd[p], cmd[p].id, NewRecord(p))
  BY DEF AddWrites
<1>6. PICK r \in Record : /\ r.id = cmd[p].id /\ r.by = cmd[p].by
                          /\ r = NewRecord(p) \/ ~r.whole
                          /\ Wrote(fd[p], cmd[p].id, NewRecord(p)) => r = NewRecord(p)
                          /\ \A g \in Inodes : \A t \in Slots :
                               files'[g].slot[t] = IF g = fd[p] /\ t = cmd[p].id THEN r ELSE files[g].slot[t]
  BY <1>3, <1>4, <1>5, WroteSlots DEF Inv
<1>7. r # Blank
  BY <1>2, <1>6, Constants DEF Blank
<1>8. out'[p] = "added" => r = NewRecord(p)
  BY <1>6 DEF AddWrites, Fails, Exits, Inv, TypeOK
<1> QED
  BY <1>2, <1>4, <1>6, <1>7, <1>8 DEF Stored

LEMMA DelStores ==
  ASSUME Inv, OwnSlot, OneInv, NEW p \in Procs, DelWrites(p)
  PROVE  /\ cmd[p].id \in Ids
         /\ \A s \in Slots : Stored(s)' = IF s = cmd[p].id THEN Blank ELSE Stored(s)
<1>1. pc[p] = "write"
  BY DEF DelWrites, Is
<1>2. cmd[p].id \in Ids /\ cmd[p].id \in Slots
  BY <1>1, Constants DEF OneInv, Knows
<1>3. fd[p] \in Inodes /\ Db = files[fd[p]] /\ Db' = files'[fd[p]]
  BY <1>1, FdIsDb DEF DelWrites, Db
<1>4. \A g \in Inodes : \A t \in Slots :
        files'[g].slot[t] = IF g = fd[p] /\ t = cmd[p].id THEN Blank ELSE files[g].slot[t]
  BY <1>2, <1>3, BlankTypes, WroteSlots DEF DelWrites, Inv
<1> QED
  BY <1>2, <1>3, <1>4 DEF Stored

\* A compression writes to the other file.
LEMMA CompressStores ==
  ASSUME Inv, OwnSlot, OneInv, NEW p \in Procs, CompressWrites(p)
  PROVE  /\ StoredKept
         /\ \E q \in Record : /\ q.id = rec[p].id /\ (Wrote(tmp[p], rec[p].id, rec[p]) => q = rec[p])
                              /\ \A g \in Inodes : \A t \in Slots :
                                   files'[g].slot[t] = IF g = tmp[p] /\ t = rec[p].id THEN q ELSE files[g].slot[t]
<1>1. pc[p] = "put"
  BY DEF CompressWrites
<1>2. rec[p] \in Record /\ rec[p].id \in Slots
  BY <1>1, Constants DEF OneInv, ZeroInv, Inv, TypeOK
<1>3. tmp[p] \in Inodes /\ tmp[p] # fd[p] /\ fd[p] \in Inodes /\ Db = files[fd[p]] /\ Db' = files'[fd[p]]
  BY <1>1, FdIsDb, TmpIsNot DEF CompressWrites, Db
<1>4. Wrote(tmp[p], rec[p].id, rec[p]) \/ WroteHalf(tmp[p], rec[p].id, rec[p])
  BY DEF CompressWrites
<1>5. PICK q \in Record : /\ q.id = rec[p].id /\ (Wrote(tmp[p], rec[p].id, rec[p]) => q = rec[p])
                          /\ \A g \in Inodes : \A t \in Slots :
                               files'[g].slot[t] = IF g = tmp[p] /\ t = rec[p].id THEN q ELSE files[g].slot[t]
  BY <1>2, <1>3, <1>4, WroteSlots DEF Inv
<1>6. StoredKept
  BY <1>3, <1>5 DEF StoredKept, Stored
<1> QED
  BY <1>5, <1>6

\* A renamed copy holds what the database held.
LEMMA RenameStores ==
  ASSUME Inv, OneInv, NEW p \in Procs, CompressRenames(p)
  PROVE  StoredKept /\ NamesInv'
<1>1. pc[p] = "rename"
  BY DEF CompressRenames
<1>2. tmp[p] = names["tmp"] /\ tmp[p] \in Inodes /\ Copied(p, MaxId + 1)
  BY <1>1, TmpIsNot DEF OneInv, Knows
<1>3. UNCHANGED files
  BY DEF CompressRenames
<1>4. CASE names' = [db |-> names["tmp"], tmp |-> NoFile]
  <2>1. Db' = files[tmp[p]]
    BY <1>2, <1>3, <1>4, StudentDBAssumption DEF Db
  <2>2. \A s \in Slots : s < MaxId + 1
    BY Constants
  <2>3. StoredKept
    BY <1>2, <2>1, <2>2 DEF StoredKept, Stored, Copied
  <2> QED
    BY <1>4, <2>3 DEF NamesInv
<1>5. CASE UNCHANGED names
  BY <1>3, <1>5 DEF StoredKept, Stored, Db, OneInv, NamesInv
<1> QED
  BY <1>4, <1>5 DEF CompressRenames

\* The temporary file is opened empty, and is another one.
LEMMA OpenStores ==
  ASSUME Inv, OneInv, NEW p \in Procs, CompressOpens(p)
  PROVE  /\ StoredKept /\ NamesInv'
         /\ pc'[p] = "copy" =>
              /\ tmp'[p] = names'["tmp"] /\ names'["db"] = names["db"] /\ UNCHANGED <<fd, pos, rec>>
              /\ \A s \in Slots : files'[tmp'[p]].slot[s] = Blank
<1>0. "db" \in Names /\ "tmp" \in Names /\ TypeOK
  BY DEF Names, Inv
<1>1. CASE Fails(p) /\ UNCHANGED disk
  BY <1>0, <1>1 DEF StoredKept, Stored, Db, OneInv, NamesInv, disk, Fails, Exits, TypeOK
<1>2. CASE /\ tmp' = [tmp EXCEPT ![p] = Opened("tmp")] /\ names' = NamesOpened("tmp")
           /\ files' = FilesOpened("tmp", TRUE) /\ UNCHANGED <<fd, pos, rec>>
  <2>1. fd[p] = names["db"] /\ names["db"] \in Inodes /\ names["db"] # NoFile /\ Db = files[names["db"]]
    BY FdIsDb DEF CompressOpens, Is
  <2>2. Opened("tmp") \in Inodes /\ (names["tmp"] = NoFile => Fresh \notin Used)
    BY <1>0, OpenedTypes, AnInodeIsFree DEF TypeOK
  <2>3. Opened("tmp") # names["db"]
    BY <1>0, <2>1, <2>2 DEF Opened, Used, OneInv, NamesInv
  <2>4. /\ names'["tmp"] = Opened("tmp") /\ names'["db"] = names["db"] /\ tmp'[p] = Opened("tmp")
        /\ files'[Opened("tmp")] = NewFile /\ files'[names["db"]] = files[names["db"]]
    BY <1>0, <1>2, <2>1, <2>2, <2>3 DEF TypeOK, NamesOpened, FilesOpened
  <2>5. Db' = Db
    BY <2>1, <2>4 DEF Db
  <2>6. StoredKept
    BY <2>5 DEF StoredKept, Stored
  <2>7. NamesInv'
    BY <2>3, <2>4 DEF NamesInv
  <2>8. \A s \in Slots : files'[tmp'[p]].slot[s] = Blank
    BY <2>4 DEF NewFile
  <2> QED
    BY <1>2, <2>4, <2>6, <2>7, <2>8
<1> QED
  BY <1>1, <1>2 DEF CompressOpens

\* Every step changes what is stored as its command asks, or not at all.
LEMMA StepStores ==
  ASSUME Inv, OwnSlot, OneInv, NEW p \in Procs, Command(p)
  PROVE  /\ NamesInv'
         /\ \/ StoredKept
            \/ AddWrites(p) \/ DelWrites(p)
            \/ Zeroes(p) /\ \A s \in Slots : Stored(s)' = Blank
<1>0. TypeOK /\ NamesInv
  BY DEF Inv, OneInv
<1>1. ASSUME UNCHANGED disk PROVE NamesInv' /\ StoredKept
  BY <1>0, <1>1 DEF NamesInv, StoredKept, Stored, Db, disk
<1>2. CASE Start(p) \/ CompressReopens(p)
  BY <1>0, <1>1, <1>2, OpenedDb DEF Start, CompressReopens, StoredKept
<1>3. CASE Zeroes(p)
  BY <1>0, <1>1, <1>3, OpenedDb DEF Zeroes
<1>4. CASE AddWrites(p) \/ DelWrites(p)
  BY <1>0, <1>4 DEF AddWrites, DelWrites, NamesInv
<1>5. CASE CompressWrites(p)
  BY <1>0, <1>5, CompressStores DEF CompressWrites, NamesInv
<1>6. CASE CompressRenames(p)
  BY <1>6, RenameStores
<1>7. CASE CompressOpens(p)
  BY <1>7, OpenStores
<1>8. CASE UNCHANGED disk
  BY <1>1, <1>8
<1> QED
  BY <1>2, <1>3, <1>4, <1>5, <1>6, <1>7, <1>8 DEF Command, Die, ReadFails, WriteFails, AddRejected, AddLooks,
     Looks, ScanReads, CompressReads

----
(* The invariant. *)

LEMMA ZeroNext ==
  ASSUME Inv, OwnSlot, OneInv, NEW p \in Procs, Command(p) PROVE ZeroInv'
<1> DEFINE Unused == \A f \in Inodes : files[f].slot[0] = Blank
           Carries(q) == pc[q] = "put" => rec[q].id \in Ids
<1>0. Unused /\ (\A q \in Procs : Carries(q)) /\ TypeOK /\ StepTypes /\ 0 \in Slots /\ 0 \notin Ids
  BY Constants DEF OneInv, ZeroInv, Inv, TypeOK, StepTypes
<1>1. Unused'
  <2>1. ASSUME NEW n \in Names, NEW b \in BOOLEAN, files' = FilesOpened(n, b) PROVE Unused'
    BY <1>0, <2>1 DEF FilesOpened, NewFile, TypeOK
  <2>2. "db" \in Names /\ "tmp" \in Names
    BY DEF Names
  <2>3. CASE Start(p) \/ CompressOpens(p) \/ CompressReopens(p) \/ Zeroes(p)
    BY <1>0, <2>1, <2>2, <2>3 DEF Start, CompressOpens, CompressReopens, Zeroes, disk
  <2>4. CASE AddWrites(p)
    <3>1. cmd[p].id \in Ids /\ fd[p] \in Inodes /\ cmd[p].id \in Slots
      BY <2>4, FdIsDb, AddStores, Constants DEF AddWrites, Is
    <3>2. NewRecord(p) \in Record
      BY <3>1, Constants DEF NewRecord, Record, Inv, TypeOK
    <3>3. Wrote(fd[p], cmd[p].id, NewRecord(p)) \/ WroteHalf(fd[p], cmd[p].id, NewRecord(p))
      BY <2>4 DEF AddWrites
    <3>4. \A g \in Inodes : files'[g].slot[0] = files[g].slot[0]
      BY <1>0, <3>1, <3>2, <3>3, WroteSlots
    <3> QED
      BY <1>0, <3>4
  <2>5. CASE DelWrites(p)
    <3>1. cmd[p].id \in Ids /\ fd[p] \in Inodes /\ cmd[p].id \in Slots
      BY <2>5, FdIsDb, DelStores, Constants DEF DelWrites, Is
    <3>2. \A g \in Inodes : files'[g].slot[0] = files[g].slot[0]
      BY <1>0, <2>5, <3>1, BlankTypes, WroteSlots DEF DelWrites
    <3> QED
      BY <1>0, <3>2
  <2>6. CASE CompressWrites(p)
    <3>1. rec[p].id \in Ids
      BY <1>0, <2>6 DEF CompressWrites
    <3>2. \A g \in Inodes : files'[g].slot[0] = files[g].slot[0]
      BY <1>0, <2>6, <3>1, CompressStores
    <3> QED
      BY <1>0, <3>2
  <2>7. CASE UNCHANGED files
    BY <1>0, <2>7
  <2> QED
    BY <2>3, <2>4, <2>5, <2>6, <2>7 DEF Command, Die, ReadFails, WriteFails, AddRejected, AddLooks, Looks,
       ScanReads, CompressReads, CompressRenames, disk
<1>2. ASSUME NEW q \in Procs PROVE Carries(q)'
  <2>1. CASE q # p
    BY <1>0, <2>1, OthersKept
  <2>2. CASE q = p /\ pc'[p] = "put"
    <3>1. CompressReads(p) /\ ReadAt(fd[p], pos[p]) = "record" /\ pc[p] = "copy"
      BY <1>0, <2>2 DEF Command, Start, Die, ReadFails, WriteFails, AddRejected, AddLooks, AddWrites, Looks, DelWrites,
         ScanReads, CompressOpens, CompressReads, CompressWrites, CompressRenames, CompressReopens, Zeroes, Is,
         Fails, Exits, StepTypes
    <3>2. pos[p] \in Ids /\ Stored(pos[p]) # Blank /\ Stored(pos[p]) = files[fd[p]].slot[pos[p]] /\ fd[p] \in Inodes
      BY <1>0, <3>1, ReadIsStored, FdIsDb, Constants DEF StepTypes, Stored
    <3>3. rec'[p] = files[fd[p]].slot[pos[p]]
      BY <1>0, <3>1 DEF CompressReads, StepTypes
    <3>4. rec'[p].id = pos[p]
      BY <3>2, <3>3, Constants DEF OwnSlot
    <3> QED
      BY <2>2, <3>2, <3>4
  <2>3. CASE q = p /\ pc'[p] # "put"
    BY <2>3
  <2> QED
    BY <2>1, <2>2, <2>3
<1> QED
  BY <1>1, <1>2 DEF ZeroInv

LEMMA RestNext ==
  ASSUME Inv, OneInv, NEW p \in Procs, Command(p) PROVE RestInv'
<1> DEFINE Rests(q) == pc[q] \in {"idle", "done"} \/ (pc[q] = "run" /\ cmd[q].op # "scan") => pos[q] = 0
<1>0. StepTypes /\ AskTypes /\ \A q \in Procs : Rests(q)
  BY DEF Inv, TypeOK, StepTypes, AskTypes, OneInv, RestInv
<1>e. ASSUME NEW o, Exits(p, o) PROVE Rests(p)'
  BY <1>0, <1>e DEF Exits, StepTypes
<1>1. Rests(p)'
  <2>1. CASE Start(p)
    BY <1>0, <1>e, <2>1 DEF Start, Fails
  <2>2. CASE Die(p) \/ ReadFails(p) \/ WriteFails(p) \/ AddRejected(p) \/ AddWrites(p) \/ DelWrites(p)
             \/ CompressReopens(p) \/ Zeroes(p)
    BY <1>e, <2>2 DEF Die, ReadFails, WriteFails, AddRejected, AddWrites, DelWrites, CompressReopens, Zeroes, Fails
  <2>3. CASE AddLooks(p) \/ Looks(p) \/ ScanReads(p)
    BY <1>0, <1>e, <2>3 DEF AddLooks, Looks, ScanReads, Is, StepTypes
  <2>4. CASE CompressOpens(p) \/ CompressReads(p) \/ CompressWrites(p) \/ CompressRenames(p)
    BY <1>0, <1>e, <2>4 DEF CompressOpens, CompressReads, CompressWrites, CompressRenames, Fails, StepTypes
  <2> QED
    BY <2>1, <2>2, <2>3, <2>4 DEF Command
<1>2. ASSUME NEW q \in Procs, q # p PROVE Rests(q)'
  BY <1>0, <1>2, OthersKept
<1> QED
  BY <1>1, <1>2 DEF RestInv

\* A scan counts one more, if there is one more.
LEMMA StudentsCount ==
  ASSUME NEW n \in Slots
  PROVE  /\ IsFiniteSet(Students(n)) /\ Students(0) = {}
         /\ Students(n + 1) = IF n \in Ids /\ Stored(n) # Blank THEN Students(n) \cup {n} ELSE Students(n)
         /\ n \notin Students(n)
<1>1. IsFiniteSet(Ids)
  BY Constants, FS_Interval
<1>2. Students(n) \in SUBSET Ids
  BY DEF Students
<1>3. IsFiniteSet(Students(n))
  BY <1>1, <1>2, FS_Subset
<1>4. Students(0) = {}
  BY Constants DEF Students
<1> QED
  BY <1>3, <1>4, Constants DEF Students

LEMMA KnowsNext ==
  ASSUME Inv, OwnSlot, OneInv, NEW p \in Procs, Command(p) PROVE Knows(p)'
<1>0. TypeOK /\ StepTypes /\ AskTypes /\ NamesInv /\ Knows(p)
  BY DEF Inv, TypeOK, StepTypes, AskTypes, OneInv
<1>e. ASSUME NEW o, Exits(p, o) PROVE Knows(p)'
  BY <1>0, <1>e DEF Exits, Knows, StepTypes
<1>k. ASSUME UNCHANGED disk
      PROVE  /\ UNCHANGED Db /\ (\A s : Stored(s)' = Stored(s)) /\ (\A n : Students(n)' = Students(n))
             /\ (UNCHANGED tmp => \A n : Copied(p, n)' = Copied(p, n))
  BY <1>k DEF disk, Db, Stored, Students, Copied
<1>1. CASE Start(p)
  <2>1. CASE /\ pc' = [pc EXCEPT ![p] = "run"] /\ fd' = [fd EXCEPT ![p] = Opened("db")]
             /\ names' = NamesOpened("db") /\ files' = FilesOpened("db", FALSE) /\ UNCHANGED <<tmp, pos, rec>>
    <3>1. fd'[p] = names'["db"] /\ pc'[p] = "run"
      BY <1>0, <2>1, OpenedDb DEF StepTypes
    <3>2. count'[p] = 0 /\ pos'[p] = 0
      <4>1. pos[p] = 0
        BY <1>1 DEF Start, OneInv, RestInv
      <4> QED
        BY <1>0, <1>1, <2>1, <4>1 DEF Start, AskTypes
    <3>3. Students(0)' = {} /\ Cardinality({}) = 0
      BY Constants, FS_EmptySet DEF Students
    <3> QED
      BY <3>1, <3>2, <3>3 DEF Knows
  <2> QED
    BY <1>1, <1>e, <2>1 DEF Start, Fails
<1>2. CASE Die(p) \/ ReadFails(p) \/ WriteFails(p) \/ AddRejected(p) \/ AddWrites(p) \/ DelWrites(p)
           \/ CompressReopens(p) \/ Zeroes(p)
  BY <1>e, <1>2 DEF Die, ReadFails, WriteFails, AddRejected, AddWrites, DelWrites, CompressReopens, Zeroes, Fails
<1>3. CASE AddLooks(p) \/ Looks(p)
  <2>1. CASE /\ pc' = [pc EXCEPT ![p] = "write"] /\ UNCHANGED <<fd, tmp, pos, rec, out>>
    <3>1. UNCHANGED disk /\ UNCHANGED cmd /\ pc[p] = "run" /\ pc'[p] = "write"
      BY <1>0, <1>3, <2>1 DEF AddLooks, Looks, Is, StepTypes
    <3>2. fd'[p] = names'["db"]
      BY <2>1, <3>1, FdIsDb DEF disk
    <3>3. cmd[p].id \in Ids /\ (cmd[p].op = "add" => Stored(cmd[p].id) = Blank)
      <4>1. CASE AddLooks(p)
        <5>1. cmd[p].id \in Ids /\ cmd[p].id \in Nat /\ cmd[p].id \in Slots
          BY <4>1, Constants DEF AddLooks, InRange
        <5>2. ReadAt(fd[p], cmd[p].id) \in {"eof", "blank"}
          BY <1>0, <2>1, <4>1 DEF AddLooks, Exits, StepTypes
        <5> QED
          BY <3>1, <5>1, <5>2, ReadIsStored, Constants
      <4>2. CASE Looks(p)
        <5>1. ReadAt(fd[p], cmd[p].id) = "record" /\ cmd[p].op = "del" /\ cmd[p].id \in Nat
          BY <1>0, <2>1, <4>2 DEF Looks, Exits, StepTypes, AskTypes
        <5> QED
          BY <3>1, <5>1, ReadIsStored
      <4> QED
        BY <1>3, <4>1, <4>2
    <3> QED
      BY <1>k, <3>1, <3>2, <3>3 DEF Knows
  <2> QED
    BY <1>3, <1>e, <2>1 DEF AddLooks, Looks
<1>4. CASE ScanReads(p)
  <2>1. CASE Exits(p, "counted")
    BY <1>e, <2>1
  <2>2. CASE ~Exits(p, "counted")
    <3>1. /\ pc[p] = "run" /\ cmd[p].op = "scan" /\ UNCHANGED disk /\ UNCHANGED <<pc, cmd, fd, tmp, rec>>
          /\ ReadAt(fd[p], pos[p]) \in {"record", "blank"} /\ pos'[p] = pos[p] + 1 /\ pos[p] \in Nat
          /\ count'[p] = IF ReadAt(fd[p], pos[p]) = "record" THEN count[p] + 1 ELSE count[p]
      BY <1>0, <1>4, <2>2, Constants DEF ScanReads, Is, StepTypes, AskTypes
    <3>2. /\ pos[p] \in Slots /\ (ReadAt(fd[p], pos[p]) = "record" <=> pos[p] \in Ids /\ Stored(pos[p]) # Blank)
      BY <3>1, ReadIsStored, Constants
    <3>3. /\ count[p] = Cardinality(Students(pos[p])) /\ IsFiniteSet(Students(pos[p]))
          /\ pos[p] \notin Students(pos[p])
      BY <1>0, <3>1, <3>2, StudentsCount DEF Knows
    <3>4. count'[p] = Cardinality(Students(pos[p] + 1))
      <4>1. CASE ReadAt(fd[p], pos[p]) = "record"
        <5>1. Students(pos[p] + 1) = Students(pos[p]) \cup {pos[p]}
          BY <3>2, <4>1, StudentsCount
        <5>2. Cardinality(Students(pos[p]) \cup {pos[p]}) = Cardinality(Students(pos[p])) + 1
          BY <3>3, FS_AddElement
        <5> QED
          BY <3>1, <3>3, <4>1, <5>1, <5>2
      <4>2. CASE ReadAt(fd[p], pos[p]) # "record"
        <5>1. Students(pos[p] + 1) = Students(pos[p])
          BY <3>2, <4>2, StudentsCount
        <5> QED
          BY <3>1, <3>3, <4>2, <5>1
      <4> QED
        BY <4>1, <4>2
    <3>5. fd'[p] = names'["db"]
      BY <1>0, <3>1 DEF Knows, disk
    <3> QED
      BY <1>k, <3>1, <3>4, <3>5 DEF Knows
  <2> QED
    BY <2>1, <2>2
<1>5. CASE CompressOpens(p)
  <2>1. CASE Fails(p)
    BY <1>e, <2>1 DEF Fails
  <2>2. CASE ~Fails(p)
    <3>1. /\ pc[p] = "run" /\ cmd[p].op = "compress" /\ pc'[p] = "copy" /\ pos[p] = 0
      BY <1>0, <1>5, <2>2 DEF CompressOpens, Is, StepTypes, OneInv, RestInv
    <3>2. /\ tmp'[p] = names'["tmp"] /\ names'["db"] = names["db"] /\ UNCHANGED <<fd, pos, rec>>
          /\ \A s \in Slots : files'[tmp'[p]].slot[s] = Blank
      BY <1>5, <3>1, OpenStores
    <3>3. fd'[p] = names'["db"]
      BY <1>0, <3>1, <3>2 DEF Knows
    <3>4. Copied(p, 0)'
      BY <3>2, Constants DEF Copied
    <3> QED
      BY <3>1, <3>2, <3>3, <3>4 DEF Knows
  <2> QED
    BY <2>1, <2>2
<1>6. CASE CompressReads(p)
  <2>1. /\ pc[p] = "copy" /\ UNCHANGED disk /\ UNCHANGED <<cmd, fd, tmp, count>> /\ Copied(p, pos[p])
        /\ pos[p] \in Nat /\ fd'[p] = names'["db"] /\ tmp'[p] = names'["tmp"]
    BY <1>0, <1>6, Constants DEF CompressReads, Knows, StepTypes, disk
  <2>2. CASE ReadAt(fd[p], pos[p]) = "record"
    <3>1. pc'[p] = "put" /\ pos'[p] = pos[p] + 1 /\ rec'[p] = files[fd[p]].slot[pos[p]]
      BY <1>0, <1>6, <2>2 DEF CompressReads, StepTypes
    <3>2. pos[p] \in Ids /\ Stored(pos[p]) # Blank /\ Stored(pos[p]) = files[fd[p]].slot[pos[p]]
      BY <2>1, <2>2, ReadIsStored, FdIsDb DEF Stored
    <3>3. pos'[p] - 1 = pos[p] /\ pos[p] \in Slots
      BY <2>1, <3>1, <3>2, Constants
    <3> QED
      BY <1>k, <2>1, <3>1, <3>2, <3>3 DEF Knows
  <2>3. CASE ReadAt(fd[p], pos[p]) = "blank"
    <3>1. pc'[p] = "copy" /\ pos'[p] = pos[p] + 1
      BY <1>0, <1>6, <2>1, <2>3 DEF CompressReads, StepTypes
    <3>2. Stored(pos[p]) = Blank
      BY <2>1, <2>3, ReadIsStored
    <3>3. Copied(p, pos[p] + 1)
      BY <2>1, <3>2, Constants DEF Copied
    <3> QED
      BY <1>k, <2>1, <3>1, <3>3 DEF Knows
  <2>4. CASE ReadAt(fd[p], pos[p]) = "eof"
    <3>1. pc'[p] = "rename"
      BY <1>0, <1>6, <2>4 DEF CompressReads, StepTypes
    <3>2. \A t \in Slots : t >= pos[p] => Stored(t) = Blank
      BY <2>1, <2>4, ReadIsStored
    <3>3. Copied(p, MaxId + 1)
      BY <2>1, <3>2, Constants DEF Copied
    <3> QED
      BY <1>k, <2>1, <3>1, <3>3 DEF Knows
  <2> QED
    BY <1>6, <2>2, <2>3, <2>4 DEF CompressReads
<1>7. CASE CompressWrites(p)
  <2>1. CASE Fails(p)
    BY <1>e, <2>1 DEF Fails
  <2>2. CASE ~Fails(p)
    <3>1. /\ pc[p] = "put" /\ Wrote(tmp[p], rec[p].id, rec[p]) /\ pc'[p] = "copy" /\ UNCHANGED <<fd, tmp, pos, names>>
      BY <1>0, <1>7, <2>2 DEF CompressWrites, StepTypes
    <3>2. /\ pos[p] - 1 \in Slots /\ Copied(p, pos[p] - 1) /\ rec[p] = Stored(pos[p] - 1) /\ rec[p] # Blank
          /\ fd[p] = names["db"] /\ tmp[p] = names["tmp"]
      BY <1>0, <3>1 DEF Knows
    <3>3. fd[p] \in Inodes /\ Db = files[fd[p]] /\ tmp[p] \in Inodes
      BY <3>1, FdIsDb, TmpIsNot
    <3>4. rec[p].id = pos[p] - 1
      BY <3>2, <3>3 DEF OwnSlot, Stored
    <3>5. \A t \in Slots : files'[tmp[p]].slot[t] = IF t = pos[p] - 1 THEN rec[p] ELSE files[tmp[p]].slot[t]
      BY <1>7, <3>1, <3>3, <3>4, CompressStores
    <3>6. \A t \in Slots : Stored(t)' = Stored(t)
      BY <1>7, CompressStores DEF StoredKept
    <3>7. pos[p] \in Int
      BY <1>0, Constants DEF StepTypes
    <3>8. \A t \in Slots : files'[tmp'[p]].slot[t] = IF t < pos'[p] THEN Stored(t)' ELSE Blank
      BY <3>1, <3>2, <3>5, <3>6, <3>7, Constants DEF Copied
    <3> QED
      BY <3>1, <3>2, <3>8 DEF Knows, Copied
  <2> QED
    BY <2>1, <2>2
<1>8. CASE CompressRenames(p)
  <2>1. CASE Fails(p)
    BY <1>e, <2>1 DEF Fails
  <2>2. CASE ~Fails(p)
    <3>1. pc'[p] = "reopen"
      BY <1>0, <1>8, <2>2 DEF CompressRenames, StepTypes
    <3> QED
      BY <3>1 DEF Knows
  <2> QED
    BY <2>1, <2>2
<1> QED
  BY <1>1, <1>2, <1>3, <1>4, <1>5, <1>6, <1>7, <1>8 DEF Command

LEMMA OneNext ==
  ASSUME Exclusive, Inv, OwnSlot, OneInv, [Next]_vars PROVE OneInv'
<1>1. ASSUME NEW p \in Procs, Command(p) PROVE OneInv'
  <2>1. AloneInv' /\ TurnInv' /\ NamesInv' /\ ZeroInv' /\ RestInv' /\ Knows(p)'
    BY <1>1, TurnNext, StepStores, ZeroNext, RestNext, KnowsNext
  <2>2. ASSUME NEW q \in Procs, q # p PROVE Knows(q)'
    <3>1. ~Running(q)'
      BY <1>1, <2>2, OthersRest
    <3> QED
      BY <3>1 DEF Knows, Running
  <2> QED
    BY <2>1, <2>2 DEF OneInv
<1>2. CASE UNCHANGED vars
  <2>1. UNCHANGED <<names, files, runs, pc, cmd, fd, tmp, pos, rec, count>>
    BY <1>2 DEF vars, disk, proc
  <2>2. UNCHANGED <<AloneInv, NamesInv, ZeroInv, RestInv>>
    BY <2>1 DEF AloneInv, NamesInv, ZeroInv, RestInv, Running
  <2>3. TurnInv => TurnInv'
    BY <2>1 DEF TurnInv, Running
  <2>4. UNCHANGED Db
    BY <2>1 DEF Db
  <2>5. ASSUME NEW q \in Procs, Knows(q) PROVE Knows(q)'
    <3>1. \A n : Students(n)' = Students(n) /\ (Copied(q, n) => Copied(q, n)')
      BY <2>1, <2>4 DEF Students, Copied, Stored
    <3>2. \A i : Stored(i)' = Stored(i)
      BY <2>4 DEF Stored
    <3> QED
      BY <2>1, <2>5, <3>1, <3>2 DEF Knows
  <2> QED
    BY <2>2, <2>3, <2>5 DEF OneInv
<1> QED
  BY <1>1, <1>2 DEF Next

\* The invariant of commands run one at a time.
LEMMA OneCorrect == ASSUME Exclusive PROVE Spec => [](Inv /\ OwnSlot /\ OneInv)
<1>1. Inv /\ OwnSlot /\ OneInv /\ [Next]_vars => OneInv'
  BY OneNext
<1> QED
  BY <1>1, InitOne, InvCorrect, OwnSlotCorrect, PTL DEF Spec

----
(* Answers. *)

LEMMA StoredPresent == Present = {i \in Ids : Stored(i) # Blank} /\ Present' = {i \in Ids : Stored(i)' # Blank}
BY DEF Present, Stored

\* What a command reports is so when it reports it.
LEMMA OwnAnswer ==
  ASSUME Inv, OwnSlot, OneInv, NEW p \in Procs, Command(p), pc'[p] = "done"
  PROVE  /\ out'[p] = "added" => (Stored(cmd[p].id) = NewRecord(p))'
         /\ out'[p] \in {"duplicate", "found"} => cmd'[p].id \in Readable'
         /\ out'[p] \in {"missing", "deleted"} => cmd'[p].id \notin Present'
         /\ out'[p] = "counted" => count'[p] = Cardinality(Present')
         /\ out'[p] = "zeroed" => Present' = {}
<1>0. StepTypes /\ AskTypes /\ \A i \in Ids : i \in Slots
  BY Constants DEF Inv, TypeOK, StepTypes, AskTypes
<1>1. ASSUME NEW o, Exits(p, o) PROVE out'[p] = o
  BY <1>0, <1>1 DEF Exits, StepTypes
<1>2. CASE Start(p) \/ Die(p) \/ ReadFails(p) \/ WriteFails(p) \/ AddRejected(p)
           \/ CompressOpens(p) \/ CompressReads(p) \/ CompressWrites(p) \/ CompressRenames(p) \/ CompressReopens(p)
  <2>1. out'[p] \in {"killed", "error", "args", "compressed"}
    BY <1>0, <1>1, <1>2 DEF Start, Die, ReadFails, WriteFails, AddRejected, CompressOpens, CompressReads,
       CompressWrites, CompressRenames, CompressReopens, Fails, StepTypes
  <2> QED
    BY <2>1
<1>3. CASE AddLooks(p)
  <2>1. /\ pc[p] = "run" /\ cmd[p].id \in Ids /\ UNCHANGED <<cmd, disk>> /\ ReadAt(fd[p], cmd[p].id) = "record"
        /\ Exits(p, "duplicate") /\ cmd[p].id \in Nat
    BY <1>0, <1>3, Constants DEF AddLooks, Is, InRange, StepTypes
  <2>2. Readable' = Readable /\ cmd[p].id \in Readable
    BY <2>1, ReadIsStored, StoredPresent DEF disk, Readable, Present, Db
  <2> QED
    BY <1>1, <2>1, <2>2
<1>4. CASE AddWrites(p)
  <2>1. out'[p] \in {"added", "error"} /\ UNCHANGED cmd
    BY <1>1, <1>4 DEF AddWrites, Fails
  <2>2. out'[p] = "added" => \A i \in Ids : i = cmd[p].id => Stored(i)' = NewRecord(p)
    BY <1>0, <1>4, AddStores
  <2>3. cmd[p].id \in Ids /\ NewRecord(p)' = NewRecord(p)
    BY <1>4, <2>1, AddStores DEF NewRecord
  <2> QED
    BY <2>1, <2>2, <2>3
<1>5. CASE Looks(p)
  <2>1. /\ pc[p] = "run" /\ UNCHANGED <<cmd, disk>> /\ cmd[p].id \in Nat
        /\ \/ Exits(p, "missing") /\ ReadAt(fd[p], cmd[p].id) \in {"eof", "blank"}
           \/ Exits(p, "found") /\ ReadAt(fd[p], cmd[p].id) = "record"
    BY <1>0, <1>5 DEF Looks, StepTypes, AskTypes
  <2>2. Present' = Present /\ Readable' = Readable
    BY <2>1 DEF disk, Present, Readable, Db
  <2>3. CASE Exits(p, "missing") /\ ReadAt(fd[p], cmd[p].id) \in {"eof", "blank"}
    <3>1. cmd[p].id \in Ids => Stored(cmd[p].id) = Blank
      BY <1>0, <2>1, <2>3, ReadIsStored, Constants
    <3> QED
      BY <1>1, <2>1, <2>2, <2>3, <3>1, StoredPresent
  <2>4. CASE Exits(p, "found") /\ ReadAt(fd[p], cmd[p].id) = "record"
    <3>1. cmd[p].id \in Readable
      BY <2>1, <2>4, ReadIsStored, StoredPresent DEF Readable
    <3> QED
      BY <1>1, <2>1, <2>2, <2>4, <3>1
  <2> QED
    BY <2>1, <2>3, <2>4
<1>6. CASE DelWrites(p)
  <2>1. out'[p] = "deleted" /\ UNCHANGED cmd
    BY <1>1, <1>6 DEF DelWrites
  <2>2. \A i \in Ids : i = cmd[p].id => Stored(i)' = Blank
    BY <1>0, <1>6, DelStores
  <2> QED
    BY <2>1, <2>2, StoredPresent
<1>7. CASE ScanReads(p)
  <2>1. /\ pc[p] = "run" /\ cmd[p].op = "scan" /\ ReadAt(fd[p], pos[p]) = "eof" /\ Exits(p, "counted")
        /\ UNCHANGED <<count, disk>> /\ pos[p] \in Nat
    BY <1>0, <1>7, Constants DEF ScanReads, Is, StepTypes
  <2>2. count[p] = Cardinality(Students(pos[p])) /\ Present' = Present
    BY <2>1 DEF OneInv, Knows, disk, Present, Db
  <2>3. \A i \in Ids : i >= pos[p] => Stored(i) = Blank
    BY <1>0, <2>1, ReadIsStored
  <2>4. Students(pos[p]) = Present
    BY <2>1, <2>3, StoredPresent, Constants DEF Students
  <2> QED
    BY <1>1, <2>1, <2>2, <2>4
<1>8. CASE Zeroes(p)
  <2>1. CASE Exits(p, "zeroed")
    <3>1. \A s \in Slots : Stored(s)' = Blank
      <4>1. names' = NamesOpened("db") /\ files' = FilesOpened("db", TRUE)
        BY <1>0, <1>1, <1>8, <2>1 DEF Zeroes, Fails
      <4> QED
        BY <4>1, OpenedDb DEF Inv, OneInv
    <3> QED
      BY <1>0, <1>1, <2>1, <3>1, StoredPresent
  <2>2. CASE Fails(p)
    BY <1>1, <2>2 DEF Fails
  <2> QED
    BY <1>8, <2>1, <2>2 DEF Zeroes
<1> QED
  BY <1>2, <1>3, <1>4, <1>5, <1>6, <1>7, <1>8 DEF Command

LEMMA AnswersNext ==
  ASSUME Exclusive, Inv, OwnSlot, OneInv, AnswersAreTrue, [Next]_vars PROVE AnswersAreTrue'
<1>0. AskTypes /\ AnswersAreTrue
  BY DEF Inv, TypeOK, AskTypes
<1>1. ASSUME NEW q \in Procs, Command(q) PROVE AnswersAreTrue'
  <2> SUFFICES ASSUME NEW p \in Procs, pc'[p] = "done", \A r \in Procs \ {p} : cmd'[r].by < cmd'[p].by
               PROVE  /\ out'[p] = "added" => (Stored(cmd[p].id) = NewRecord(p))'
                      /\ out'[p] \in {"duplicate", "found"} => cmd'[p].id \in Readable'
                      /\ out'[p] \in {"missing", "deleted"} => cmd'[p].id \notin Present'
                      /\ out'[p] = "counted" => count'[p] = Cardinality(Present')
                      /\ out'[p] = "zeroed" => Present' = {}
    BY DEF AnswersAreTrue, Stored
  <2>1. CASE q = p
    BY <1>1, <2>1, OwnAnswer
  <2>2. CASE q # p
    <3>1. cmd'[q].by < cmd'[p].by
      BY <2>2
    <3>2. cmd'[p].by <= runs /\ cmd'[p].by \in Int /\ runs \in Int
      BY <1>0, <1>1, <2>2, OthersKept, Constants DEF OneInv, TurnInv, AskTypes
    <3>3. cmd'[q].by \in {runs, runs + 1}
      BY <1>1, OnlyStartAsks DEF OneInv, TurnInv
    <3> QED
      BY <3>1, <3>2, <3>3
  <2> QED
    BY <2>1, <2>2
<1>2. CASE UNCHANGED vars
  BY <1>0, <1>2 DEF vars, disk, proc, AnswersAreTrue, Readable, Present, Db, NewRecord
<1> QED
  BY <1>1, <1>2 DEF Next

\* A command that runs alone says what is so in the database it leaves, until
\* the next one starts: whatever was killed or failed before it, wherever, and
\* whatever a compression left behind (sdbsc.c:63-324).
THEOREM AnswersCorrect == Spec => []AnswersAreTrue
<1>1. CASE Exclusive
  <2>1. Init => AnswersAreTrue
    BY DEF Init, AnswersAreTrue
  <2>2. Inv /\ OwnSlot /\ OneInv /\ AnswersAreTrue /\ [Next]_vars => AnswersAreTrue'
    BY <1>1, AnswersNext
  <2>3. Spec => [](Inv /\ OwnSlot /\ OneInv)
    BY <1>1, OneCorrect
  <2> QED
    BY <2>1, <2>2, <2>3, PTL DEF Spec
<1>2. CASE ~Exclusive
  <2>1. AnswersAreTrue
    BY <1>2 DEF AnswersAreTrue
  <2> QED
    BY <2>1, PTL
<1> QED
  BY <1>1, <1>2

----
(* The map. *)

LEMMA LatestIs ==
  ASSUME AskTypes, NEW p \in Procs, cmd[p].by = runs,
         \A q \in Procs : cmd[q].by <= runs /\ (cmd[q].by = runs => cmd[q] = cmd[p])
  PROVE  cmd[Latest] = cmd[p]
<1>1. \A q \in Procs : cmd[q].by <= cmd[p].by
  OBVIOUS
<1>2. Latest \in Procs /\ \A q \in Procs : cmd[q].by <= cmd[Latest].by
  BY <1>1 DEF Latest
<1>3. cmd[Latest].by = runs
  BY <1>2, Constants DEF AskTypes
<1> QED
  BY <1>2, <1>3

LEMMA MapInit == Init => Map!Init
<1> SUFFICES ASSUME Init PROVE Map!Init
  OBVIOUS
<1>1. PICK p \in Procs : TRUE
  BY StudentDBAssumption
<1>2. AskTypes /\ \A q \in Procs : cmd[q] = [op |-> "scan", id |-> 0, by |-> 0]
  BY Constants DEF Init, AskTypes, AllOps
<1>3. runs = 0 /\ \A q \in Procs : cmd[q].by = 0 /\ cmd[q] = cmd[p]
  BY <1>2 DEF Init
<1>4. cmd[Latest] = cmd[p]
  BY <1>2, <1>3, LatestIs
<1>5. cmd[Latest] \in Commands /\ cmd[Latest].by = 0
  BY <1>2, <1>3, <1>4 DEF AskTypes, Commands
<1>6. [i \in Ids |-> Whole(Db.slot[i])] = [i \in Ids |-> Blank]
  BY Constants DEF Init, Db, NewFile, Names, Whole
<1> QED
  BY <1>5, <1>6 DEF Map!Init

\* A start asks; a write that is not cut short adds or deletes; a reset empties;
\* nothing else shows.
LEMMA MapNext ==
  ASSUME Exclusive, Inv, OwnSlot, OneInv, OneInv', AskTypes', NEW p \in Procs, Command(p)
  PROVE  Map!Next \/ UNCHANGED <<cmd[Latest], [i \in Ids |-> Whole(Db.slot[i])]>>
<1> DEFINE map  == [i \in Ids |-> Whole(Db.slot[i])]
           last == cmd[Latest]
<1>0. AskTypes /\ (\A i \in Ids : i \in Slots) /\ \A i \in Ids : map[i] = Whole(Stored(i)) /\ map'[i] = Whole(Stored(i)')
  BY Constants DEF Inv, TypeOK, AskTypes, Stored
<1>1. PICK a \in Procs : cmd[a].by = runs /\ last = cmd[a]
  BY <1>0, LatestIs DEF OneInv, TurnInv
<1>2. CASE Start(p)
  <2>1. runs' = runs + 1 /\ cmd'[p].by = runs + 1
    BY <1>2, OnlyStartAsks DEF Running, Start
  <2>2. PICK b \in Procs : cmd'[b].by = runs' /\ last' = cmd'[b]
    <3>1. PICK b \in Procs : /\ cmd'[b].by = runs'
                            /\ \A q \in Procs : cmd'[q].by <= runs' /\ (cmd'[q].by = runs' => cmd'[q] = cmd'[b])
      BY DEF OneInv, TurnInv
    <3>2. AskTypes' /\ Latest' = (CHOOSE r \in Procs : \A q \in Procs : cmd'[q].by <= cmd'[r].by)
      BY DEF Latest
    <3>3. Latest' \in Procs /\ \A q \in Procs : cmd'[q].by <= cmd'[Latest'].by
      BY <3>1, <3>2
    <3>4. cmd'[Latest'].by = runs'
      BY <3>1, <3>3, Constants DEF AskTypes
    <3> QED
      BY <3>1, <3>3, <3>4
  <2>3. last' \in Commands
    BY <2>2 DEF AskTypes, Commands
  <2>4. StoredKept
    BY <1>2, OpenedDb DEF Start, Inv, OneInv, StoredKept, Stored, Db, disk
  <2>5. map' = map
    BY <1>0, <2>4 DEF StoredKept
  <2>6. Map!Ask
    BY <1>1, <2>1, <2>2, <2>3, <2>5 DEF Map!Ask
  <2> QED
    BY <2>6 DEF Map!Next
<1>3. CASE ~Start(p)
  <2>1. Running(p) /\ UNCHANGED <<runs, cmd>>
    BY <1>3, OnlyStartAsks
  <2>2. last = cmd[p] /\ last' = last
    <3>1. last = cmd[p]
      BY <1>0, <2>1, LatestIs DEF OneInv, TurnInv
    <3>2. Latest' = Latest
      BY <2>1 DEF Latest
    <3> QED
      BY <2>1, <3>1, <3>2
  <2>3. CASE StoredKept
    <3>1. map' = map
      BY <1>0, <2>3 DEF StoredKept
    <3> QED
      BY <2>2, <3>1
  <2>4. CASE AddWrites(p)
    <3>1. cmd[p].id \in Ids /\ map[cmd[p].id] = Blank
      BY <1>0, <2>4, AddStores DEF Whole
    <3>2. PICK r \in Record \ {Blank} :
            /\ r.id = cmd[p].id /\ r.by = cmd[p].by
            /\ \A s \in Slots : Stored(s)' = IF s = cmd[p].id THEN r ELSE Stored(s)
      BY <2>4, AddStores
    <3>3. map' = [map EXCEPT ![cmd[p].id] = Whole(r)]
      <4>1. \A i \in Ids : Stored(i)' = IF i = cmd[p].id THEN r ELSE Stored(i)
        BY <1>0, <3>2
      <4>2. \A i \in Ids : map'[i] = IF i = cmd[p].id THEN Whole(r) ELSE map[i]
        BY <1>0, <4>1
      <4> QED
        BY <4>2
    <3>4. cmd[p].op = "add"
      BY <2>4 DEF AddWrites, Is
    <3>5. CASE r.whole
      <4>1. Whole(r) = r
        BY <3>5 DEF Whole
      <4>2. Map!Add
        BY <2>2, <3>1, <3>2, <3>3, <3>4, <3>5, <4>1 DEF Map!Add
      <4> QED
        BY <4>2 DEF Map!Next
    <3>6. CASE ~r.whole
      <4>1. Whole(r) = Blank
        BY <3>6 DEF Whole
      <4>2. map' = map
        BY <3>1, <3>3, <4>1
      <4> QED
        BY <2>2, <4>2
    <3> QED
      BY <3>5, <3>6
  <2>5. CASE DelWrites(p)
    <3>1. cmd[p].id \in Ids /\ \A s \in Slots : Stored(s)' = IF s = cmd[p].id THEN Blank ELSE Stored(s)
      BY <2>5, DelStores
    <3>2. map' = [map EXCEPT ![cmd[p].id] = Blank]
      <4>1. \A i \in Ids : map'[i] = IF i = cmd[p].id THEN Blank ELSE map[i]
        BY <1>0, <3>1 DEF Whole
      <4> QED
        BY <4>1
    <3>3. cmd[p].op = "del"
      BY <2>5 DEF DelWrites, Is
    <3>4. Map!Delete
      BY <2>2, <3>1, <3>2, <3>3 DEF Map!Delete
    <3> QED
      BY <3>4 DEF Map!Next
  <2>6. CASE Zeroes(p) /\ \A s \in Slots : Stored(s)' = Blank
    <3>1. map' = [i \in Ids |-> Blank]
      BY <1>0, <2>6 DEF Whole
    <3>2. cmd[p].op = "zero"
      BY <2>6 DEF Zeroes, Is
    <3>3. Map!Zero
      BY <2>2, <3>1, <3>2 DEF Map!Zero
    <3> QED
      BY <3>3 DEF Map!Next
  <2> QED
    BY <2>3, <2>4, <2>5, <2>6, StepStores
<1> QED
  BY <1>2, <1>3

\* Commands run one at a time work on a map of the students whose records are
\* whole, whatever files, kills, failures, short writes and compressions stand
\* behind it (sdbsc.c:181-187, 508-584).
THEOREM MapCorrect == ASSUME Exclusive PROVE Spec => ImplementsMap
<1>1. Inv /\ OwnSlot /\ OneInv /\ Inv' /\ OneInv' /\ [Next]_vars
      => [Map!Next]_(<<cmd[Latest], [i \in Ids |-> Whole(Db.slot[i])]>>)
  <2> SUFFICES ASSUME Inv, OwnSlot, OneInv, Inv', OneInv', [Next]_vars
               PROVE  Map!Next \/ UNCHANGED <<cmd[Latest], [i \in Ids |-> Whole(Db.slot[i])]>>
    OBVIOUS
  <2>1. AskTypes'
    BY DEF Inv, TypeOK, AskTypes
  <2>2. CASE UNCHANGED vars
    BY <2>2 DEF vars, disk, proc, Latest, Db
  <2> QED
    BY <2>1, <2>2, MapNext DEF Next
<1> QED
  BY <1>1, MapInit, OneCorrect, PTL DEF Spec, ImplementsMap, Map!Spec
====
