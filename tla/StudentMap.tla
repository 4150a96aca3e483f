---- MODULE StudentMap ----
(***************************************************************************)
(* What sdbsc promises of its database when commands run one at a time,    *)
(* whatever files and system calls stand behind it: a partial map from     *)
(* student ids to records that only the command being run changes.  An add *)
(* stores the record it was given whole and never replaces a student, and  *)
(* no other student is touched by an add or a delete; a compression, a     *)
(* scan, a lookup or a write cut short is not a step of this map.          *)
(***************************************************************************)
EXTENDS Naturals

CONSTANTS Ids, Records, Absent, Commands

VARIABLES
    asked,      \* the command being run: its op, its id and its number, by
    students    \* what is stored under each id

TypeOK == asked \in Commands /\ students \in [Ids -> Records \cup {Absent}]

Init == asked \in Commands /\ asked.by = 0 /\ students = [i \in Ids |-> Absent]

Ask ==
    /\ asked' \in Commands /\ asked'.by = asked.by + 1
    /\ UNCHANGED students

Add ==
    /\ asked.op = "add" /\ asked.id \in Ids
    /\ students[asked.id] = Absent
    /\ \E r \in Records : /\ r.id = asked.id /\ r.by = asked.by
                         /\ students' = [students EXCEPT ![asked.id] = r]
    /\ UNCHANGED asked

Delete ==
    /\ asked.op = "del" /\ asked.id \in Ids
    /\ students' = [students EXCEPT ![asked.id] = Absent]
    /\ UNCHANGED asked

Zero ==
    /\ asked.op = "zero"
    /\ students' = [i \in Ids |-> Absent]
    /\ UNCHANGED asked

Next == Ask \/ Add \/ Delete \/ Zero

Spec == Init /\ [][Next]_<<asked, students>>
====
