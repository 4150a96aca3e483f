---- MODULE RShellProofs ----
(***************************************************************************)
(* The second strengthening of RShell, that a client and the server are in *)
(* lock step and the one outstanding line of a client is in one known      *)
(* place; then the theorems about RShell, for every value of its           *)
(* constants: its safety properties, and that it implements ShellService.  *)
(***************************************************************************)
EXTENDS RShellTypes


----
(* Lock step. *)

LEMMA LockInit == Init => LockInv
  BY DEF Init, LockInv, LockStep, Unsent, Handling

\* A client none of whose own state changes stays in lock step.
LEMMA LockFrame ==
  ASSUME TypeOK, NEW c \in Clients, LockStep(c),
         req'[c] = req[c], resp'[c] = resp[c], conn'[c] = conn[c], cpc'[c] = cpc[c],
         sent'[c] = sent[c], shown'[c] = shown[c], made'[c] = made[c],
         Handling(c)' <=> Handling(c), Handling(c) => cur' = cur
  PROVE  LockStep(c)'
  BY DEF LockStep, Unsent, LineInSocket, LineInHand, LineAnswered, LineDropped, AllText, IsText

\* So does one that was killed: only the emptiness of its stream matters.
LEMMA LockKilled ==
  ASSUME NEW c \in Clients, LockStep(c), cpc[c] = "killed", cpc'[c] = "killed", resp'[c] = resp[c]
  PROVE  LockStep(c)'
  BY DEF LockStep

\* In lock step, a line in the socket or in hand is that of a waiting client,
\* unless its client was killed.
LEMMA AtWork ==
  ASSUME TypeOK, ConnInv, NEW c \in Clients, LockStep(c), req[c] # <<>> \/ Handling(c)
  PROVE  cpc[c] \in {"wait", "killed"}
  BY DEF TypeOK, ClientStates, LockStep, Unsent

LEMMA LockServerEnds ==
  ASSUME TypeOK, ConnInv, LockInv, ServerEnds, UNCHANGED <<client, history>>
  PROVE  LockInv'
  <1> SUFFICES ASSUME NEW c \in Clients, clean'[c] PROVE LockStep(c)'
    BY DEF LockInv
  <1>1. LockStep(c) /\ UNCHANGED <<cpc, sent, shown, made, resp>>
    BY DEF LockInv, ServerEnds, client, history
  <1>2. ~Handling(c)' /\ req'[c] = <<>>
    BY DEF ServerEnds, Handling
  <1>3. /\ conn'[c] = conn[c] \/ conn[c] \in Attached
        /\ conn[c] = "up" => conn'[c] \in {"sfin", "srst"}
        /\ conn[c] \in Attached /\ conn[c] # "up" => conn'[c] = "gone"
    <2>1. conn'[c] = IF c = sess THEN ServerCloses(c)
                     ELSE IF \E i \in 1..Len(backlog) : backlog[i] = c
                          THEN (IF conn[c] = "up" THEN "srst" ELSE "gone")
                          ELSE conn[c]
      BY DEF ServerEnds
    <2>2. c = sess \/ (\E i \in 1..Len(backlog) : backlog[i] = c) <=> conn[c] \in Attached
      BY SessionIsOpen DEF ConnInv
    <2> QED
      BY <2>1, <2>2 DEF ServerCloses, Attached
  <1>4. CASE cpc[c] = "wait"
    <2>1. conn'[c] \in {"sfin", "srst"}
      BY <1>3, <1>4 DEF ConnInv, Attached
    <2>2. LineAnswered(c)' \/ LineDropped(c)'
      BY <1>1, <1>2, <1>4, <2>1
         DEF LockStep, LineInSocket, LineInHand, LineAnswered, LineDropped, AllText, IsText
    <2> QED
      BY <1>1, <1>4, <2>2 DEF LockStep
  <1>5. CASE cpc[c] # "wait"
    BY <1>1, <1>2, <1>3, <1>5 DEF LockStep, Unsent, Attached
  <1> QED
    BY <1>4, <1>5

LEMMA LockSessionEnds ==
  ASSUME TypeOK, ConnInv, LockInv, spc \in {"recv", "close"}, SessionEnds,
         UNCHANGED <<client, history>>
  PROVE  LockInv'
  <1> SUFFICES ASSUME NEW c \in Clients, clean'[c] PROVE LockStep(c)'
    BY DEF LockInv
  <1>1. LockStep(c) /\ UNCHANGED <<cpc, sent, shown, made, resp>>
    BY DEF LockInv, SessionEnds, client, history
  <1>2. ~Handling(c)' /\ ~Handling(c)
    BY DEF SessionEnds, Handling
  <1>3. CASE c # sess
    BY <1>1, <1>2, <1>3, LockFrame DEF TypeOK, SessionEnds
  <1>4. CASE c = sess
    <2>1. /\ conn[c] \in Attached /\ req'[c] = <<>>
          /\ conn'[c] = IF conn[c] # "up" THEN "gone" ELSE IF req[c] = <<>> THEN "sfin" ELSE "srst"
      BY <1>4, SessionIsOpen DEF TypeOK, SessionEnds, ServerCloses
    <2>2. CASE cpc[c] = "wait"
      <3>1. conn'[c] \in {"sfin", "srst"}
        BY <2>1, <2>2 DEF ConnInv, Attached
      <3>2. LineAnswered(c)' \/ LineDropped(c)'
        BY <1>1, <1>2, <2>1, <2>2, <3>1
           DEF LockStep, LineInSocket, LineInHand, LineAnswered, LineDropped, AllText, IsText
      <3> QED
        BY <1>1, <2>2, <3>2 DEF LockStep
    <2>3. CASE cpc[c] # "wait"
      BY <1>1, <1>2, <2>1, <2>3 DEF LockStep, Unsent, Attached
    <2> QED
      BY <2>2, <2>3
  <1> QED
    BY <1>3, <1>4

\* A step of the session that takes a chunk of input, or output, or the marker.
LEMMA LockServer == TypeOK /\ ConnInv /\ LockInv /\ ServerStep => LockInv'
  <1> SUFFICES ASSUME TypeOK, ConnInv, LockInv, ServerStep PROVE LockInv'
    OBVIOUS
  <1>1. ASSUME Boot \/ BootFails \/ Accept PROVE LockInv'
    <2> SUFFICES ASSUME NEW c \in Clients, clean'[c] PROVE LockStep(c)'
      BY DEF LockInv
    <2>1. UNCHANGED <<req, resp, conn, cpc, sent, shown, made, clean>>
      BY <1>1 DEF Boot, BootFails, Accept, network, client, history
    <2>2. ~Handling(c) /\ ~Handling(c)'
      BY <1>1 DEF Boot, BootFails, Accept, Handling
    <2> QED
      BY <2>1, <2>2, LockFrame DEF LockInv
  <1>2. ASSUME RecvLine PROVE LockInv'
    <2> SUFFICES ASSUME NEW c \in Clients, clean'[c] PROVE LockStep(c)'
      BY DEF LockInv
    <2>0. LockStep(c) /\ UNCHANGED <<resp, conn, cpc, sent, shown, made, clean, sess>>
      BY <1>2 DEF RecvLine, client, LockInv
    <2>1. ~Handling(c)
      BY <1>2 DEF RecvLine, Handling
    <2>2. CASE c # sess
      BY <1>2, <2>0, <2>1, <2>2, LockFrame DEF TypeOK, RecvLine, Handling
    <2>3. CASE c = sess
      <3>1. /\ req[c] # <<>> /\ cur' = Head(req[c]) /\ req[c] \in Seq(Line)
            /\ \E n \in 1..Len(req[c]) : req'[c] = SubSeq(req[c], n + 1, Len(req[c]))
        BY <1>2, <2>3 DEF TypeOK, RecvLine
      <3>2. CASE cpc[c] = "killed"
        BY <2>0, <3>2, LockKilled
      <3>3. CASE cpc[c] = "wait"
        <4>1. LineInSocket(c)
          BY <2>0, <3>1, <3>3 DEF LockStep, LineInHand, LineAnswered, LineDropped
        <4>2. req'[c] = <<>> /\ cur'.line = sent[c]
          BY <3>1, <4>1 DEF LineInSocket
        <4>3. Handling(c)'
          <5>0. Head(req[c]) \in Line
            BY <3>1
          <5>1. Head(req[c]).kind \in LineKinds
            BY <5>0 DEF Line
          <5>2. spc' = AfterRecv(Head(req[c]).kind) /\ sess' = c
            BY <1>2, <2>3 DEF RecvLine
          <5> QED BY <5>1, <5>2 DEF AfterRecv, Handling, LineKinds, ExitLines, StopLines, BadLines, Pipelines
        <4>4. LineInHand(c)'
          <5>1. shown[c] \in Nat
            BY DEF TypeOK
          <5>2. resp'[c] = <<>> /\ shown'[c] = made'[c] /\ Len(resp'[c]) = 0 /\ sent'[c] = sent[c]
            BY <2>0, <4>1 DEF LineInSocket
          <5>3. shown'[c] + Len(resp'[c]) = made'[c]
            BY <2>0, <5>1, <5>2
          <5>4. AllText(c)'
            BY <5>2 DEF AllText
          <5> QED BY <4>2, <4>3, <5>2, <5>3, <5>4 DEF LineInHand
        <4> QED
          BY <2>0, <3>3, <4>4 DEF LockStep
      <3> QED
        BY <2>0, <3>1, <3>2, <3>3, AtWork
    <2> QED
      BY <2>2, <2>3
  <1>3. ASSUME ExecOutput \/ SendText PROVE LockInv'
    <2> SUFFICES ASSUME NEW c \in Clients, clean'[c] PROVE LockStep(c)'
      BY DEF LockInv
    <2>1. sess \in Clients /\ spc \in {"exec", "text"}
      BY <1>3, SessionIsClient DEF ExecOutput, SendText, InSession
    <2>2. /\ UNCHANGED <<sess, cur, req, cpc, sent, shown>> /\ spc' \in {"exec", "eof"}
          /\ made' = [made EXCEPT ![sess] = @ + 1]
      BY <1>3 DEF ExecOutput, SendText, server, client
    <2>3. clean[c] /\ \E b \in {"text", "eot"} :
            /\ Delivered(sess, [line |-> cur.line, byte |-> b])
            /\ c = sess => b = "text"
      BY <1>3, <2>1, RShellAssumption DEF ExecOutput, SendText, TypeOK
    <2>4. LockStep(c) /\ made[c] \in Nat /\ shown[c] \in Nat /\ resp[c] \in Seq(Unit)
      BY <2>3 DEF LockInv, TypeOK
    <2>5. Handling(c) <=> c = sess
      BY <2>1 DEF Handling
    <2>6. Handling(c)' <=> c = sess
      BY <2>2 DEF Handling
    <2>7. CASE c # sess
      BY <2>2, <2>3, <2>4, <2>5, <2>6, <2>7, LockFrame DEF TypeOK, Delivered
    <2>8. CASE c = sess
      <3>1. Delivered(c, [line |-> cur.line, byte |-> "text"]) /\ made'[c] = made[c] + 1
        BY <2>2, <2>3, <2>8 DEF TypeOK
      <3>2. CASE cpc[c] = "killed"
        <4>1. conn[c] # "up"
          BY <3>2 DEF ConnInv
        <4> QED BY <2>2, <2>4, <3>1, <3>2, <4>1, LockKilled DEF Delivered
      <3>3. CASE cpc[c] = "wait"
        <4>1. LineInHand(c)
          BY <2>4, <2>5, <2>8, <3>3 DEF LockStep, LineInSocket, LineAnswered, LineDropped
        <4>2. conn[c] = "up"
          BY <2>8, <3>1, <3>3 DEF Delivered, ConnInv
        <4>3. resp'[c] = Append(resp[c], [line |-> cur.line, byte |-> "text"])
          BY <3>1, <4>2 DEF Delivered, TypeOK
        <4>4. /\ Len(resp'[c]) = Len(resp[c]) + 1
              /\ resp'[c][Len(resp[c]) + 1] = [line |-> cur.line, byte |-> "text"]
              /\ \A i \in 1..Len(resp[c]) : resp'[c][i] = resp[c][i]
          BY <2>4, <4>3
        <4>5. Len(resp[c]) \in Nat
          BY <2>4
        <4>6. AllText(c)' /\ \A i \in 1..Len(resp'[c]) : resp'[c][i].line = sent'[c]
          <5>1. cur.line = sent[c] /\ sent'[c] = sent[c]
            BY <2>2, <4>1 DEF LineInHand
          <5>2. \A i \in 1..Len(resp[c]) : resp[c][i].byte = "text" /\ resp[c][i].line = sent[c]
            BY <2>4, <4>1 DEF LineInHand, LockStep, AllText, IsText
          <5>3. \A i \in 1..Len(resp'[c]) : i \in 1..Len(resp[c]) \/ i = Len(resp[c]) + 1
            BY <4>4, <4>5
          <5> QED BY <4>4, <5>1, <5>2, <5>3 DEF AllText, IsText
        <4>7. LineInHand(c)'
          <5>1. shown'[c] + Len(resp'[c]) = made'[c]
            BY <2>2, <2>4, <3>1, <4>1, <4>4, <4>5 DEF LineInHand
          <5>2. cur'.line = sent'[c] /\ req'[c] = <<>>
            BY <2>2, <4>1 DEF LineInHand
          <5> QED BY <2>6, <2>8, <4>6, <5>1, <5>2 DEF LineInHand
        <4> QED
          BY <2>2, <3>3, <4>6, <4>7 DEF LockStep
      <3> QED
        BY <2>4, <2>5, <2>8, <3>2, <3>3, AtWork
    <2> QED
      BY <2>7, <2>8
  <1>4. ASSUME SendEof PROVE LockInv'
    <2> SUFFICES ASSUME NEW c \in Clients, clean'[c] PROVE LockStep(c)'
      BY DEF LockInv
    <2>1. sess \in Clients /\ spc = "eof"
      BY <1>4, SessionIsClient DEF SendEof, InSession
    <2>2. /\ UNCHANGED <<sess, cur, req, cpc, sent, shown, made, clean>>
          /\ spc' \in {"recv", "close"} /\ Delivered(sess, [line |-> cur.line, byte |-> "eot"])
      BY <1>4 DEF SendEof, client
    <2>4. LockStep(c) /\ made[c] \in Nat /\ shown[c] \in Nat /\ resp[c] \in Seq(Unit)
      BY <2>2 DEF LockInv, TypeOK
    <2>5. (Handling(c) <=> c = sess) /\ ~Handling(c)'
      BY <2>1, <2>2 DEF Handling
    <2>7. CASE c # sess
      BY <2>2, <2>4, <2>5, <2>7, LockFrame DEF TypeOK, Delivered
    <2>8. CASE c = sess
      <3>2. CASE cpc[c] = "killed"
        <4>1. conn[c] # "up"
          BY <3>2 DEF ConnInv
        <4> QED BY <2>2, <2>4, <2>8, <3>2, <4>1, LockKilled DEF Delivered
      <3>3. CASE cpc[c] = "wait"
        <4>1. LineInHand(c)
          BY <2>4, <2>5, <2>8, <3>3 DEF LockStep, LineInSocket, LineAnswered, LineDropped
        <4>2. conn[c] = "up"
          BY <2>2, <2>8, <3>3 DEF Delivered, ConnInv
        <4>3. resp'[c] = Append(resp[c], [line |-> cur.line, byte |-> "eot"])
          BY <2>2, <2>8, <4>2 DEF Delivered, TypeOK
        <4>4. /\ Len(resp'[c]) = Len(resp[c]) + 1
              /\ resp'[c][Len(resp[c]) + 1] = [line |-> cur.line, byte |-> "eot"]
              /\ \A i \in 1..Len(resp[c]) : resp'[c][i] = resp[c][i]
          BY <2>4, <4>3
        <4>5. Len(resp[c]) \in Nat
          BY <2>4
        <4>0. \A i \in 1..Len(resp'[c]) : i \in 1..Len(resp[c]) \/ i = Len(resp[c]) + 1
          BY <4>4, <4>5
        <4>6. \A i \in 1..Len(resp'[c]) : resp'[c][i].line = sent'[c]
          <5>1. cur.line = sent[c] /\ sent'[c] = sent[c]
            BY <2>2, <4>1 DEF LineInHand
          <5>2. \A i \in 1..Len(resp[c]) : resp[c][i].line = sent[c]
            BY <2>4 DEF LockStep
          <5> QED BY <4>0, <4>4, <5>1, <5>2
        <4>7. \A i \in 1..Len(resp'[c]) : IsText(c, i)' <=> i # Len(resp'[c])
          BY <4>1, <4>4, <4>5 DEF LineInHand, AllText, IsText
        <4>8. resp'[c] # <<>> /\ shown'[c] + Len(resp'[c]) = made'[c] + 1
          <5>1. shown[c] + Len(resp[c]) = made[c] /\ shown'[c] = shown[c] /\ made'[c] = made[c]
            BY <2>2, <4>1 DEF LineInHand
          <5>2. Len(resp'[c]) # 0
            BY <4>4, <4>5
          <5>3. resp'[c] # <<>>
            BY <5>2
          <5> QED BY <2>4, <4>4, <4>5, <5>1, <5>3
        <4>9. LineAnswered(c)'
          BY <2>2, <2>5, <4>1, <4>7, <4>8 DEF LineInHand, LineAnswered
        <4> QED
          BY <2>2, <3>3, <4>6, <4>9 DEF LockStep
      <3> QED
        BY <2>4, <2>5, <2>8, <3>2, <3>3, AtWork
    <2> QED
      BY <2>7, <2>8
  <1>5. ASSUME ExecOutputFails \/ SendLastEofFails PROVE LockInv'
    <2> SUFFICES ASSUME NEW c \in Clients, clean'[c] PROVE LockStep(c)'
      BY DEF LockInv
    <2>1. sess \in Clients /\ spc \in {"exec", "eof"} /\ conn[sess] = "crst"
      BY <1>5, SessionIsClient DEF ExecOutputFails, SendLastEofFails, SendFails, InSession
    <2>2. /\ UNCHANGED <<sess, cur, req, resp, cpc, sent, shown, made, clean>>
          /\ conn' = [conn EXCEPT ![sess] = "dead"]
      BY <1>5 DEF ExecOutputFails, SendLastEofFails, SendFails, server, client, history
    <2>3. LockStep(c)
      BY <2>2 DEF LockInv
    <2>4. CASE c # sess
      <3>1. ~Handling(c) /\ ~Handling(c)'
        BY <2>2, <2>4 DEF Handling
      <3> QED BY <2>2, <2>3, <2>4, <3>1, LockFrame DEF TypeOK
    <2>5. CASE c = sess
      <3>1. Handling(c)
        BY <2>1, <2>5 DEF Handling
      <3>2. cpc[c] = "killed"
        BY <2>1, <2>3, <2>5, <3>1, AtWork DEF ConnInv
      <3> QED BY <2>2, <2>3, <3>2, LockKilled
    <2> QED
      BY <2>4, <2>5
  <1>6. ASSUME ExecReadsInput PROVE LockInv'
    <2> SUFFICES ASSUME NEW c \in Clients, clean'[c] PROVE LockStep(c)'
      BY DEF LockInv
    <2>1. /\ spc = "exec" /\ req[sess] # <<>> /\ req' = [req EXCEPT ![sess] = <<>>]
          /\ UNCHANGED <<spc, sess, cur, conn, resp, cpc, sent, shown, made, clean>>
      BY <1>6 DEF ExecReadsInput, server, client, history
    <2>2. LockStep(c) /\ (Handling(c)' <=> Handling(c))
      BY <2>1 DEF LockInv, Handling
    <2>3. CASE c # sess
      BY <2>1, <2>2, <2>3, LockFrame DEF TypeOK
    <2>4. CASE c = sess
      <3>1. Handling(c) /\ req[c] # <<>>
        BY <2>1, <2>4 DEF Handling
      <3>2. cpc[c] # "wait"
        BY <2>2, <3>1 DEF LockStep, LineInSocket, LineInHand, LineAnswered, LineDropped
      <3>3. cpc[c] = "killed"
        BY <2>2, <3>1, <3>2, AtWork
      <3> QED BY <2>1, <2>2, <3>3, LockKilled
    <2> QED
      BY <2>3, <2>4
  <1>7. ASSUME ExecDone PROVE LockInv'
    <2> SUFFICES ASSUME NEW c \in Clients, clean'[c] PROVE LockStep(c)'
      BY DEF LockInv
    <2>1. UNCHANGED <<sess, cur, req, resp, conn, cpc, sent, shown, made, clean>>
      BY <1>7 DEF ExecDone, network, client
    <2>2. LockStep(c) /\ (Handling(c)' <=> Handling(c))
      BY <1>7, <2>1 DEF LockInv, ExecDone, Handling
    <2> QED
      BY <2>1, <2>2, LockFrame
  <1>8. ASSUME RecvClosed \/ Exit PROVE LockInv'
    BY <1>8, LockSessionEnds DEF RecvClosed, Exit
  <1>9. ASSUME AcceptFails \/ RecvError \/ SendError \/ ServerKilledBySigPipe \/ StopServer
        PROVE  LockInv'
    BY <1>9, LockServerEnds
       DEF AcceptFails, RecvError, SendError, ServerKilledBySigPipe, StopServer
  <1> QED
    BY <1>1, <1>2, <1>3, <1>4, <1>5, <1>6, <1>7, <1>8, <1>9 DEF ServerStep

----
\* What is left of a sequence whose first n elements were taken.
LEMMA Rest ==
  ASSUME NEW S, NEW s \in Seq(S), NEW n \in 1..Len(s), NEW r, r = SubSeq(s, n + 1, Len(s))
  PROVE  /\ r \in Seq(S) /\ Len(r) = Len(s) - n
         /\ \A i \in 1..Len(r) : i + n \in 1..Len(s) /\ r[i] = s[i + n]
  <1>1. Len(s) \in Nat /\ n \in Nat
    OBVIOUS
  <1>2. Len(r) = Len(s) - n
    BY <1>1
  <1>3. \A i \in 1..(Len(s) - n) : i + n \in 1..Len(s)
    BY <1>1
  <1>4. \A i \in 1..(Len(s) - n) : r[i] = s[i + n]
    BY <1>1, <1>3
  <1> QED
    BY <1>1, <1>2, <1>3, <1>4

\* A chunk received from a clean stream that does not end in the marker leaves
\* the client waiting for the rest of the same response.
LEMMA LockRecvMore ==
  ASSUME TypeOK, ConnInv, NEW c \in Clients, LockStep(c), RecvMore(c)
  PROVE  LockStep(c)'
  <1>1. PICK n \in 1..Len(resp[c]) : RecvChunk(c, n) /\ resp[c][n].byte # "eot"
    BY DEF RecvMore, EndsResponse
  <1>2. /\ cpc[c] = "wait" /\ UNCHANGED <<spc, sess, cur, conn, req, cpc, sent, made>>
    BY <1>1 DEF RecvMore, RecvChunk, client, server
  <1>3. /\ resp[c] \in Seq(Unit) /\ Len(resp[c]) \in Nat /\ shown[c] \in Nat /\ made[c] \in Nat
        /\ n \in Nat /\ n <= Len(resp[c])
    BY DEF TypeOK
  <1>4. resp'[c] = SubSeq(resp[c], n + 1, Len(resp[c]))
    BY <1>1 DEF RecvChunk, TypeOK
  <1>5. shown'[c] = shown[c] + n
    BY <1>1 DEF RecvChunk, EndsResponse, TypeOK
  <1>6. /\ Len(resp'[c]) = Len(resp[c]) - n
        /\ \A i \in 1..Len(resp'[c]) : i + n \in 1..Len(resp[c]) /\ resp'[c][i] = resp[c][i + n]
    <2>1. resp[c] \in Seq(Unit) /\ n \in 1..Len(resp[c])
      BY <1>3
    <2> QED BY ONLY <1>4, <2>1, Rest
  <1>7. Handling(c)' <=> Handling(c)
    BY <1>2 DEF Handling
  <1>8. \A i \in 1..Len(resp'[c]) : resp'[c][i].line = sent'[c]
    BY <1>2, <1>6 DEF LockStep
  <1>9. AllText(c) => AllText(c)'
    BY <1>6 DEF AllText, IsText
  <1>10. LineInHand(c)' \/ LineAnswered(c)' \/ LineDropped(c)'
    <2>1. CASE LineInHand(c)
      <3>1. shown'[c] + Len(resp'[c]) = made'[c]
        BY <1>2, <1>3, <1>5, <1>6, <2>1 DEF LineInHand
      <3> QED BY <1>2, <1>7, <1>9, <2>1, <3>1 DEF LineInHand
    <2>2. CASE LineAnswered(c)
      <3>0. resp[c][n].byte \in {"text", "eot"}
        <4>1. resp[c][n] \in Unit
          BY <1>3
        <4> QED BY <4>1 DEF Unit
      <3>1. n # Len(resp[c])
        BY <1>1, <3>0, <2>2 DEF LineAnswered, IsText
      <3>2. shown'[c] + Len(resp'[c]) = made'[c] + 1
        <4>1. shown[c] + Len(resp[c]) = made[c] + 1 /\ made'[c] = made[c]
          BY <1>2, <2>2 DEF LineAnswered
        <4> QED BY <1>3, <1>5, <1>6, <4>1
      <3>3. Len(resp'[c]) # 0
        BY <1>3, <1>6, <3>1
      <3>4. \A i \in 1..Len(resp'[c]) : IsText(c, i)' <=> i # Len(resp'[c])
        <4> SUFFICES ASSUME NEW i \in 1..Len(resp'[c]) PROVE IsText(c, i)' <=> i # Len(resp'[c])
          OBVIOUS
        <4>1. i + n \in 1..Len(resp[c]) /\ resp'[c][i] = resp[c][i + n]
          BY <1>6
        <4>2. IsText(c, i)' <=> i + n # Len(resp[c])
          BY <2>2, <4>1 DEF LineAnswered, IsText
        <4>3. i \in Int /\ Len(resp'[c]) = Len(resp[c]) - n
          BY <1>3, <1>6
        <4>4. i + n # Len(resp[c]) <=> i # Len(resp'[c])
          BY <1>3, <4>3
        <4> QED BY <4>2, <4>4
      <3>5. resp'[c] # <<>>
        BY <3>3
      <3> QED BY <1>2, <1>7, <2>2, <3>2, <3>4, <3>5 DEF LineAnswered
    <2>3. CASE LineDropped(c)
      BY <1>2, <1>7, <1>9, <2>3 DEF LineDropped
    <2>4. ~LineInSocket(c)
      BY <1>1, <1>3 DEF LineInSocket
    <2> QED
      BY <1>2, <2>1, <2>2, <2>3, <2>4 DEF LockStep
  <1> QED
    BY <1>2, <1>8, <1>10 DEF LockStep

\* A chunk that ends in the marker is the whole rest of the response, and
\* nothing of it is left in the stream.
LEMMA EndIsTheLast ==
  ASSUME TypeOK, NEW c \in Clients, LockStep(c), cpc[c] = "wait",
         NEW n \in 1..Len(resp[c]), EndsResponse(c, n)
  PROVE  LineAnswered(c) /\ n = Len(resp[c])
  <1>1. resp[c] \in Seq(Unit) /\ ~IsText(c, n)
    BY DEF EndsResponse, IsText, TypeOK
  <1>2. ~LineInSocket(c) /\ ~LineInHand(c) /\ ~LineDropped(c)
    BY <1>1 DEF LineInSocket, LineInHand, LineDropped, AllText
  <1> QED
    BY <1>1, <1>2 DEF LockStep, LineAnswered

LEMMA LockRecvEnd ==
  ASSUME TypeOK, ConnInv, NEW c \in Clients, LockStep(c), RecvEnd(c)
  PROVE  LockStep(c)'
  <1>1. PICK n \in 1..Len(resp[c]) : RecvChunk(c, n) /\ EndsResponse(c, n)
    BY DEF RecvEnd
  <1>2. cpc[c] = "wait" /\ cpc'[c] = "prompt" /\ UNCHANGED <<spc, sess, cur, conn, req, sent, made>>
    BY <1>1 DEF RecvEnd, RecvChunk, server, TypeOK
  <1>3. LineAnswered(c) /\ n = Len(resp[c])
    BY <1>1, <1>2, EndIsTheLast
  <1>4. resp[c] \in Seq(Unit) /\ Len(resp[c]) \in Nat /\ shown[c] \in Nat /\ made[c] \in Nat
    BY DEF TypeOK
  <1>5. resp'[c] = SubSeq(resp[c], n + 1, Len(resp[c])) /\ shown'[c] = shown[c] + (n - 1)
    BY <1>1 DEF RecvChunk, TypeOK
  <1>6. resp'[c] = <<>>
    <2>1. Len(resp'[c]) = 0 /\ resp'[c] \in Seq(Unit)
      BY <1>3, <1>4, <1>5, Rest
    <2> QED BY <2>1
  <1>7. shown'[c] = made'[c]
    <2>1. shown[c] + Len(resp[c]) = made[c] + 1 /\ made'[c] = made[c]
      BY <1>2, <1>3 DEF LineAnswered
    <2> QED BY <1>3, <1>4, <1>5, <2>1
  <1>8. req'[c] = <<>> /\ ~Handling(c)'
    BY <1>2, <1>3 DEF LineAnswered, Handling
  <1> QED
    BY <1>2, <1>6, <1>7, <1>8 DEF LockStep, Unsent

LEMMA LockTypeLine ==
  ASSUME TypeOK, ConnInv, NEW c \in Clients, LockStep(c), TypeLine(c)
  PROVE  LockStep(c)'
  <1>1. /\ cpc[c] = "prompt" /\ conn[c] \in {"up", "sfin"} /\ cpc'[c] = "wait"
        /\ sent'[c] = sent[c] + 1 /\ made'[c] = 0 /\ shown'[c] = 0
        /\ UNCHANGED <<spc, sess, cur, conn, resp>>
    BY DEF TypeLine, TypeOK, server
  <1>2. Unsent(c) /\ ~Handling(c)
    BY <1>1 DEF LockStep
  <1>3. resp'[c] = <<>> /\ ~Handling(c)'
    BY <1>1, <1>2 DEF Unsent, Handling
  <1>4. CASE conn[c] = "up"
    <2>1. PICK kind \in Lines :
            req' = [req EXCEPT ![c] = Append(@, [line |-> sent[c] + 1, kind |-> kind])]
      BY <1>4 DEF TypeLine
    <2>2. req'[c] = Append(<<>>, [line |-> sent[c] + 1, kind |-> kind])
      BY <1>2, <2>1 DEF Unsent, TypeOK
    <2>3. Len(req'[c]) = 1 /\ req'[c][1].line = sent'[c]
      BY <1>1, <2>2
    <2> QED
      BY <1>1, <1>3, <1>4, <2>3 DEF LockStep, LineInSocket
  <1>5. CASE conn[c] = "sfin"
    <2>1. req'[c] = <<>>
      BY <1>2, <1>5 DEF TypeLine, Unsent
    <2> QED
      BY <1>1, <1>3, <1>5, <2>1 DEF LockStep, LineDropped, AllText
  <1> QED
    BY <1>1, <1>4, <1>5

\* A client that leaves, by itself or killed, takes its unread output with it.
LEMMA LockLeaves ==
  ASSUME TypeOK, ConnInv, NEW c \in Clients, LockStep(c),
         TypeLineFails(c) \/ RecvNothing(c) \/ EndOfInput(c) \/ Kill(c) \/ RecvEndAndLeave(c)
  PROVE  LockStep(c)'
  <1>1. /\ UNCHANGED <<spc, sess, req, sent>> /\ resp'[c] = <<>>
    BY DEF TypeLineFails, RecvNothing, EndOfInput, Kill, RecvEndAndLeave, ClientCloses, server, TypeOK
  <1>2. Handling(c)' <=> Handling(c)
    BY <1>1 DEF Handling
  <1>3. CASE Kill(c)
    <2>1. cpc'[c] = "killed"
      BY <1>3 DEF Kill, TypeOK
    <2> QED BY <1>1, <2>1 DEF LockStep
  <1>4. CASE TypeLineFails(c) \/ EndOfInput(c)
    <2>1. /\ cpc[c] = "prompt" /\ (cpc'[c] = "done" \/ (cpc'[c] = "failed" /\ conn[c] = "srst"))
      BY <1>4 DEF TypeLineFails, EndOfInput, TypeOK
    <2>0. conn'[c] = IF conn[c] # "up" THEN "gone" ELSE IF resp[c] = <<>> THEN "cfin" ELSE "crst"
      BY <1>4 DEF TypeLineFails, EndOfInput, ClientCloses, TypeOK
    <2>2. req[c] = <<>> /\ resp[c] = <<>> /\ ~Handling(c)
      BY <2>1 DEF LockStep, Unsent
    <2> QED BY <1>1, <1>2, <2>0, <2>1, <2>2 DEF LockStep
  <1>5. CASE RecvNothing(c)
    <2>1. /\ cpc[c] = "wait" /\ resp[c] = <<>> /\ conn[c] \in {"sfin", "srst"}
          /\ cpc'[c] \in {"done", "failed"} /\ conn'[c] = "gone"
      BY <1>5 DEF RecvNothing, ClientCloses, TypeOK
    <2>2. Handling(c) => conn[c] \in Attached
      BY SessionIsOpen DEF Handling
    <2>3. req[c] = <<>> /\ ~Handling(c)
      BY <2>1, <2>2 DEF LockStep, LineInSocket, LineAnswered, LineDropped, LineInHand, Attached
    <2> QED BY <1>1, <1>2, <2>1, <2>3 DEF LockStep
  <1>6. CASE RecvEndAndLeave(c)
    <2>1. PICK n \in 1..Len(resp[c]) :
            /\ EndsResponse(c, n)
            /\ conn' = [conn EXCEPT ![c] = IF @ # "up" THEN "gone"
                                           ELSE IF n = Len(resp[c]) THEN "cfin" ELSE "crst"]
      BY <1>6 DEF RecvEndAndLeave
    <2>2. cpc[c] = "wait" /\ cpc'[c] = "done"
      BY <1>6 DEF RecvEndAndLeave, TypeOK
    <2>3. LineAnswered(c) /\ n = Len(resp[c])
      BY <2>1, <2>2, EndIsTheLast
    <2>4. conn'[c] \in {"gone", "cfin"}
      BY <2>1, <2>3 DEF TypeOK
    <2> QED BY <1>1, <1>2, <2>2, <2>3, <2>4 DEF LockStep, LineAnswered
  <1> QED
    BY <1>3, <1>4, <1>5, <1>6

\* A step of a client touches no other client's line.
LEMMA ClientIsAlone ==
  ASSUME TypeOK, NEW c \in Clients, ClientStep(c), NEW d \in Clients, d # c
  PROVE  /\ req'[d] = req[d] /\ resp'[d] = resp[d] /\ conn'[d] = conn[d] /\ cpc'[d] = cpc[d]
         /\ sent'[d] = sent[d] /\ shown'[d] = shown[d] /\ made'[d] = made[d] /\ clean'[d] = clean[d]
         /\ UNCHANGED <<spc, sess, cur>>
  <1>1. CASE Connect(c) \/ ConnectRefused(c)
    BY <1>1 DEF Connect, ConnectRefused, TypeOK, server, network, history
  <1>2. CASE TypeLine(c)
    BY <1>2 DEF TypeLine, TypeOK, server
  <1>3. CASE TypeLineFails(c) \/ RecvNothing(c) \/ EndOfInput(c) \/ Kill(c)
    BY <1>3 DEF TypeLineFails, RecvNothing, EndOfInput, Kill, ClientCloses, TypeOK, server, history
  <1>4. CASE RecvMore(c)
    BY <1>4 DEF RecvMore, RecvChunk, TypeOK, server, client
  <1>5. CASE RecvEnd(c) \/ RecvEndAndLeave(c)
    BY <1>5 DEF RecvEnd, RecvEndAndLeave, RecvChunk, TypeOK, server, client
  <1> QED
    BY <1>1, <1>2, <1>3, <1>4, <1>5 DEF ClientStep, UserStep, ClientRecv

LEMMA LockClient ==
  ASSUME TypeOK, ConnInv, LockInv, NEW c \in Clients, ClientStep(c)
  PROVE  LockInv'
  <1> SUFFICES ASSUME NEW d \in Clients, clean'[d] PROVE LockStep(d)'
    BY DEF LockInv
  <1>1. CASE d # c
    <2>1. LockStep(d) /\ (Handling(d)' <=> Handling(d))
      BY <1>1, ClientIsAlone DEF LockInv, Handling
    <2> QED BY <1>1, <2>1, ClientIsAlone, LockFrame
  <1>2. CASE d = c
    <2>1. clean'[c] = clean[c]
      BY DEF ClientStep, UserStep, ClientRecv, Connect, ConnectRefused, TypeLine, TypeLineFails,
             RecvMore, RecvEnd, RecvEndAndLeave, RecvNothing, EndOfInput, Kill, history
    <2>2. LockStep(c)
      BY <1>2, <2>1 DEF LockInv
    <2>3. CASE Connect(c) \/ ConnectRefused(c)
      <3>0. cpc[c] = "start" /\ conn[c] = "none"
        BY <2>3 DEF Connect, ConnectRefused, ConnInv
      <3>1. /\ cpc'[c] \in {"prompt", "failed"}
            /\ UNCHANGED <<spc, sess, req, resp, sent, shown, made>>
            /\ cpc'[c] = "failed" => conn'[c] = "none"
        <4>1. CASE Connect(c)
          BY <4>1 DEF Connect, TypeOK, server, history
        <4>2. CASE ConnectRefused(c)
          BY <3>0, <4>2 DEF ConnectRefused, TypeOK, server, network, history
        <4> QED BY <2>3, <4>1, <4>2
      <3>2. Unsent(c) /\ ~Handling(c)
        BY <2>2, <3>0 DEF LockStep
      <3>3. Unsent(c)' /\ ~Handling(c)' /\ resp'[c] = <<>> /\ req'[c] = <<>>
        BY <3>1, <3>2 DEF Unsent, Handling
      <3> QED BY <1>2, <3>1, <3>3 DEF LockStep
    <2> QED
      BY <1>2, <2>2, <2>3, LockTypeLine, LockRecvMore, LockRecvEnd, LockLeaves
         DEF ClientStep, UserStep, ClientRecv
  <1> QED
    BY <1>1, <1>2

LEMMA LockCorrect == Spec => []LockInv
  <1>1. TypeOK /\ ConnInv /\ LockInv /\ [Next]_vars => LockInv'
    <2> SUFFICES ASSUME TypeOK, ConnInv, LockInv, [Next]_vars PROVE LockInv'
      OBVIOUS
    <2>1. CASE UNCHANGED vars
      <3> SUFFICES ASSUME NEW c \in Clients, clean'[c] PROVE LockStep(c)'
        BY DEF LockInv
      <3>1. /\ UNCHANGED <<req, resp, conn, cpc, sent, shown, made, clean, spc, sess, cur>>
        BY <2>1 DEF vars, server, network, client, history
      <3>2. Handling(c)' <=> Handling(c)
        BY <3>1 DEF Handling
      <3> QED BY <3>1, <3>2, LockFrame DEF LockInv
    <2> QED
      BY <2>1, LockServer, LockClient DEF Next
  <1> QED
    BY <1>1, LockInit, TypeCorrect, ConnCorrect, PTL DEF Spec


----
(* The exit code. *)

LEMMA RcInit == Init => RcInv
  BY DEF Init, RcInv, InSession

\* Who is served or queued has started.
LEMMA HasStarted ==
  ASSUME TypeOK, ConnInv, NEW c \in Clients, conn[c] \in Attached
  PROVE  cpc[c] # "start"
  BY DEF ConnInv, Attached

\* A step that changes no exit code and opens no session.
LEMMA RcFrame ==
  ASSUME TypeOK, RcInv, UNCHANGED <<lastRc, ownRc, sess>>, InSession' => InSession,
         backlog' = backlog \/ backlog' = <<>>,
         \A c \in Clients : cpc'[c] = "start" => cpc[c] = "start"
  PROVE  RcInv'
  <1>1. \A i \in 1..Len(backlog') : ownRc'[backlog'[i]] = 0
    BY DEF RcInv
  <1> QED BY <1>1 DEF RcInv

LEMMA RcSessionOver ==
  ASSUME TypeOK, RcInv, UNCHANGED <<lastRc, ownRc, cpc>>, ~InSession',
         backlog' = backlog \/ backlog' = <<>>
  PROVE  RcInv'
  BY DEF RcInv

LEMMA RcServer == TypeOK /\ ConnInv /\ RcInv /\ ServerStep => RcInv'
  <1> SUFFICES ASSUME TypeOK, ConnInv, RcInv, ServerStep PROVE RcInv'
    OBVIOUS
  <1>1. ASSUME Boot \/ BootFails PROVE RcInv'
    BY <1>1, RcSessionOver DEF Boot, BootFails, network, client, history, InSession
  <1>2. ASSUME Accept PROVE RcInv'
    <2>1. /\ backlog \in Seq(Clients) /\ backlog # <<>> /\ sess' = backlog[1] /\ backlog' = Tail(backlog)
          /\ lastRc' = 0 /\ UNCHANGED <<ownRc, cpc>>
      BY <1>2 DEF TypeOK, Accept, client, history
    <2>2. Len(backlog') = Len(backlog) - 1 /\ \A i \in 1..Len(backlog') : backlog'[i] = backlog[i + 1]
      BY <2>1
    <2>3. \A i \in 1..Len(backlog') : ownRc'[backlog'[i]] = 0
      BY <2>1, <2>2 DEF RcInv
    <2>4. ownRc[backlog[1]] = 0
      BY <2>1 DEF RcInv
    <2> QED BY <2>1, <2>3, <2>4 DEF RcInv
  <1>3. ASSUME ExecDone \/ SendEof PROVE RcInv'
    <2>1. /\ InSession /\ InSession' /\ UNCHANGED <<sess, backlog, cpc>>
          /\ \/ \E rc \in Int : lastRc' = rc /\ ownRc' = [ownRc EXCEPT ![sess] = rc]
             \/ UNCHANGED <<lastRc, ownRc>>
      BY <1>3, RShellAssumption DEF ExecDone, SendEof, InSession, network, client, history
    <2>2. sess \in Clients /\ conn[sess] \in Attached
      BY <2>1, SessionIsClient DEF ConnInv
    <2>3. \A c \in Clients : c # sess => ownRc'[c] = ownRc[c]
      BY <2>1 DEF TypeOK
    <2>4. lastRc' = ownRc'[sess]
      BY <2>1, <2>2 DEF TypeOK, RcInv
    <2>5. \A c \in Clients : cpc[c] = "start" => c # sess
      BY <2>2, HasStarted
    <2>6. \A i \in 1..Len(backlog) : backlog[i] \in Clients /\ backlog[i] # sess
      BY QueueOfClients DEF ConnInv
    <2> QED BY <2>1, <2>3, <2>4, <2>5, <2>6 DEF RcInv
  <1>4. ASSUME RecvLine \/ ExecOutput \/ ExecOutputFails \/ ExecReadsInput \/ SendText \/ SendLastEofFails
        PROVE  RcInv'
    <2>1. InSession /\ UNCHANGED <<lastRc, ownRc, sess, backlog, cpc>>
      BY <1>4 DEF RecvLine, ExecOutput, ExecOutputFails, ExecReadsInput, SendText, SendLastEofFails,
                  InSession, server, network, client, history
    <2> QED BY <2>1, RcFrame
  <1>5. ASSUME RecvClosed \/ Exit \/ AcceptFails \/ RecvError \/ SendError
               \/ ServerKilledBySigPipe \/ StopServer
        PROVE  RcInv'
    <2>1. SessionEnds \/ ServerEnds
      BY <1>5 DEF RecvClosed, Exit, AcceptFails, RecvError, SendError, ServerKilledBySigPipe, StopServer
    <2>2. UNCHANGED <<client, history>>
      BY <1>5 DEF RecvClosed, Exit, AcceptFails, RecvError, SendError, ServerKilledBySigPipe, StopServer
    <2> QED
      BY <2>1, <2>2, RcSessionOver DEF SessionEnds, ServerEnds, InSession, client, history
  <1> QED
    BY <1>1, <1>2, <1>3, <1>4, <1>5 DEF ServerStep

LEMMA RcClient ==
  ASSUME TypeOK, RcInv, NEW c \in Clients, ClientStep(c)
  PROVE  RcInv'
  <1>1. UNCHANGED <<lastRc, ownRc, sess, spc>>
    BY DEF ClientStep, UserStep, ClientRecv, Connect, ConnectRefused, TypeLine, TypeLineFails,
           RecvMore, RecvEnd, RecvEndAndLeave, RecvNothing, EndOfInput, Kill, RecvChunk, server, history
  <1>2. cpc'[c] # "start" \/ UNCHANGED cpc
    BY DEF ClientStep, UserStep, ClientRecv, Connect, ConnectRefused, TypeLine, TypeLineFails,
           RecvMore, RecvEnd, RecvEndAndLeave, RecvNothing, EndOfInput, Kill, client, TypeOK
  <1>3. \A d \in Clients : cpc'[d] = "start" => cpc[d] = "start"
    BY <1>2, ClientIsAlone
  <1>4. CASE Connect(c)
    <2>1. /\ backlog' = Append(backlog, c) /\ ownRc[c] = 0 /\ backlog \in Seq(Clients)
      BY <1>4 DEF Connect, RcInv, TypeOK
    <2>2. \A i \in 1..Len(backlog') : ownRc'[backlog'[i]] = 0
      BY <1>1, <2>1 DEF RcInv
    <2> QED BY <1>1, <1>3, <2>2 DEF RcInv, InSession
  <1>5. CASE ~Connect(c)
    <2>1. UNCHANGED backlog
      BY <1>5 DEF ClientStep, UserStep, ClientRecv, ConnectRefused, TypeLine, TypeLineFails,
           RecvMore, RecvEnd, RecvEndAndLeave, RecvNothing, EndOfInput, Kill, network
    <2> QED BY <1>1, <1>3, <2>1, RcFrame DEF InSession
  <1> QED
    BY <1>4, <1>5

\* The number the built-in rc reports is the result of the client's own latest
\* command (rsh_server.c:285, 345-366, 368-383).
THEOREM RcCorrect == Spec => []RcIsOwn
  <1>1. TypeOK /\ ConnInv /\ RcInv /\ [Next]_vars => RcInv'
    <2> SUFFICES ASSUME TypeOK, ConnInv, RcInv, [Next]_vars PROVE RcInv'
      OBVIOUS
    <2>1. CASE UNCHANGED vars
      BY <2>1 DEF RcInv, vars, server, network, client, history, InSession
    <2> QED
      BY <2>1, RcServer, RcClient DEF Next
  <1>2. RcInv => RcIsOwn
    BY DEF RcInv, RcIsOwn
  <1> QED
    BY <1>1, <1>2, RcInit, TypeCorrect, ConnCorrect, PTL DEF Spec

----
(* What follows. *)

\* A client at its prompt has no line under way and no output still to come
\* (rsh_cli.c:64-113, rsh_server.c:293-384).
THEOREM QuietCorrect == Spec => []QuietAtPrompt
  <1>1. LockInv => QuietAtPrompt
    BY DEF LockInv, LockStep, Unsent, QuietAtPrompt
  <1> QED
    BY <1>1, LockCorrect, PTL

\* A client's screen shows all of its line's output and no other's
\* (rsh_cli.c:80-113).
THEOREM ScreenCorrect == Spec => []ScreenIsTheOutput
  <1>1. LockInv => ScreenIsTheOutput
    BY DEF LockInv, LockStep, Unsent, ScreenIsTheOutput
  <1> QED
    BY <1>1, LockCorrect, PTL

\* Whatever the line, the session goes on with it.
LEMMA GoesOn == ASSUME NEW kind \in LineKinds PROVE AfterRecv(kind) \in {"text", "exec", "eof"}
  BY DEF AfterRecv, LineKinds, ExitLines, StopLines, BadLines, Pipelines

\* The server goes down for a stop, a fault before any session, or a client
\* that was killed or ran a program that writes the marker, and for nothing
\* else (rsh_server.c:211-237, 295-307).
THEOREM EndsCorrect == Spec => EndsOnlyWithCause
  <1> DEFINE Cause == \/ spc \in {"boot", "accept"} /\ Faults # {}
                      \/ spc = "close" /\ cur.kind \in StopLines
                      \/ InSession /\ (cpc[sess] = "killed" \/ ~clean[sess])
  <1>1. TypeOK /\ ConnInv /\ LockInv /\ [Next]_vars => [spc' = "down" => Cause]_spc
    <2> SUFFICES ASSUME TypeOK, ConnInv, LockInv, Next, spc' = "down", spc' # spc PROVE Cause
      BY DEF vars, server
    <2>1. CASE \E c \in Clients : ClientStep(c)
      BY <2>1 DEF ClientStep, UserStep, ClientRecv, Connect, ConnectRefused, TypeLine,
           TypeLineFails, RecvMore, RecvEnd, RecvEndAndLeave, RecvNothing, EndOfInput, Kill,
           server
    <2>0. CASE RecvLine
      <3>1. req[sess] \in Seq(Line) /\ req[sess] # <<>>
        BY <2>0, SessionIsClient DEF TypeOK, RecvLine, InSession
      <3>2. Head(req[sess]) \in Line
        BY <3>1
      <3>3. Head(req[sess]).kind \in LineKinds /\ spc' = AfterRecv(Head(req[sess]).kind)
        BY <2>0, <3>2 DEF RecvLine, Line
      <3> QED BY <3>3, GoesOn
    <2>2. CASE Boot \/ Accept \/ RecvClosed \/ ExecOutput \/ ExecOutputFails
               \/ ExecReadsInput \/ ExecDone \/ SendText \/ SendEof \/ SendLastEofFails \/ Exit
      BY <2>2
         DEF Boot, Accept, RecvLine, RecvClosed, ExecOutput, ExecOutputFails, ExecReadsInput,
             ExecDone, SendText, SendEof, SendLastEofFails, Exit, SessionEnds, server
    <2>3. CASE BootFails \/ AcceptFails \/ StopServer
      BY <2>3 DEF BootFails, AcceptFails, StopServer
    <2>4. CASE RecvError \/ SendError \/ ServerKilledBySigPipe
      <3>1. InSession /\ sess \in Clients /\ conn[sess] \in {"crst", "late", "dead"}
        BY <2>4, SessionIsClient DEF RecvError, SendError, ServerKilledBySigPipe, SigPipe, InSession
      <3>2. conn[sess] = "crst" \/ Handling(sess)
        BY <2>4 DEF RecvError, SendError, ServerKilledBySigPipe, Handling
      <3>3. cpc[sess] \notin {"start", "prompt", "wait"}
        BY <3>1 DEF ConnInv
      <3>4. clean[sess] => cpc[sess] = "killed"
        <4> SUFFICES ASSUME clean[sess] PROVE cpc[sess] = "killed"
          OBVIOUS
        <4>1. LockStep(sess)
          BY <3>1 DEF LockInv
        <4>2. cpc[sess] \in ClientStates
          BY <3>1 DEF TypeOK
        <4> QED BY <3>1, <3>2, <3>3, <4>1, <4>2 DEF LockStep, ClientStates
      <3> QED BY <3>1, <3>4
    <2> QED
      BY <2>0, <2>1, <2>2, <2>3, <2>4 DEF Next, ServerStep
  <1> QED
    BY <1>1, TypeCorrect, ConnCorrect, LockCorrect, PTL DEF Spec, EndsOnlyWithCause

----
(* The service. *)

LEMMA CountInit == Init => CountInv
  BY DEF Init, CountInv, Counted, MarkerSent, Handling

\* A step that answers, types and takes up nothing, and sends no marker but
\* that of the line in hand.
LEMMA CountFrame ==
  ASSUME TypeOK, NEW c \in Clients, Counted(c),
         taken'[c] = taken[c], sent'[c] = sent[c], answered'[c] = answered[c], 
         cpc'[c] = cpc[c] \/ cpc'[c] \notin {"start", "prompt", "wait"},
         req'[c] = <<>> \/ req'[c] = req[c],
         Handling(c)' => Handling(c), MarkerSent(c)' => MarkerSent(c) \/ Handling(c)
  PROVE  Counted(c)'
  <1>1. Len(req[c]) \in Nat /\ taken[c] \in Nat /\ sent[c] \in Nat
    BY DEF TypeOK
  <1>2. taken'[c] + Len(req'[c]) <= sent'[c]
    BY <1>1 DEF Counted
  <1> QED
    BY <1>2 DEF Counted

LEMMA CountServer == TypeOK /\ ConnInv /\ CountInv /\ ServerStep => CountInv'
  <1> SUFFICES ASSUME TypeOK, ConnInv, CountInv, ServerStep, NEW c \in Clients, clean'[c]
               PROVE  Counted(c)'
    BY DEF CountInv
  <1>0. Counted(c)
    <2>1. clean[c]
      <3>1. CASE ExecOutput
        <4>1. PICK b \in OutBytes : clean' = [clean EXCEPT ![sess] = @ /\ b # "eot"]
          BY <3>1 DEF ExecOutput
        <4> QED BY <4>1, Zenon DEF TypeOK
      <3>2. CASE ~ExecOutput
        BY <3>2 DEF ServerStep, Boot, BootFails, Accept, AcceptFails, RecvLine, RecvClosed,
             RecvError, ExecOutputFails, ExecReadsInput, ExecDone, SendText, SendEof,
             SendLastEofFails, SendError, ServerKilledBySigPipe, Exit, StopServer, history
      <3> QED BY <3>1, <3>2
    <2> QED BY <2>1 DEF CountInv
  <1>1. UNCHANGED <<cpc, sent, answered>>
    BY DEF ServerStep, Boot, BootFails, Accept, AcceptFails, RecvLine, RecvClosed,
             RecvError, ExecOutput, ExecOutputFails, ExecReadsInput, ExecDone, SendText, SendEof,
             SendLastEofFails, SendError, ServerKilledBySigPipe, Exit, StopServer, history, client
  <1>2. ASSUME RecvLine PROVE Counted(c)'
    <2>1. CASE c # sess
      <3>1. req'[c] = req[c] /\ taken'[c] = taken[c] /\ resp'[c] = resp[c] /\ ~Handling(c)'
        BY <1>2, <2>1 DEF RecvLine, TypeOK, Handling
      <3> QED BY <1>0, <1>1, <2>1, <3>1, CountFrame DEF MarkerSent, IsText
    <2>2. CASE c = sess
      <3>1. PICK n \in 1..Len(req[c]) : req'[c] = SubSeq(req[c], n + 1, Len(req[c]))
        BY <1>2, <2>2 DEF RecvLine, TypeOK
      <3>2. taken'[c] = taken[c] + 1 /\ resp' = resp
        BY <1>2, <2>2 DEF RecvLine, TypeOK
      <3>3. req[c] \in Seq(Line) /\ taken[c] \in Nat /\ sent[c] \in Nat /\ answered[c] \in Nat
        BY DEF TypeOK
      <3>4. Len(req'[c]) = Len(req[c]) - n
        BY <3>1, <3>3, Rest
      <3>5. Len(req[c]) \in Nat /\ n \in Nat /\ n >= 1
        BY <3>3
      <3>6. taken'[c] + Len(req'[c]) <= sent'[c] /\ answered'[c] < taken'[c]
        BY <1>0, <1>1, <3>2, <3>3, <3>4, <3>5 DEF Counted
      <3>7. answered'[c] <= taken'[c]
        BY <3>2, <3>3, <3>6, <1>1
      <3> QED BY <1>0, <1>1, <3>6, <3>7 DEF Counted
    <2> QED BY <2>1, <2>2
  <1>3. ASSUME ExecOutput \/ SendText \/ SendEof PROVE Counted(c)'
    <2>1. sess \in Clients /\ spc \in {"exec", "text", "eof"} /\ sess' = sess /\ req' = req /\ taken' = taken
      BY <1>3, SessionIsClient DEF ExecOutput, SendText, SendEof, InSession, server
    <2>2. Handling(c)' => Handling(c)
      BY <2>1 DEF Handling
    <2>3. PICK u : Delivered(sess, u)
      BY <1>3 DEF ExecOutput, SendText, SendEof
    <2>4. CASE c # sess
      <3>1. resp'[c] = resp[c]
        BY <2>3, <2>4 DEF Delivered, TypeOK
      <3> QED BY <1>0, <1>1, <2>1, <2>2, <3>1, CountFrame DEF MarkerSent, IsText
    <2>5. CASE c = sess
      <3>1. Handling(c)
        BY <2>1, <2>5 DEF Handling
      <3> QED BY <1>0, <1>1, <2>1, <2>2, <3>1, CountFrame
    <2> QED BY <2>4, <2>5
  <1>4. ASSUME Boot \/ BootFails \/ Accept \/ ExecOutputFails \/ ExecDone \/ SendLastEofFails
               \/ ExecReadsInput
        PROVE  Counted(c)'
    <2>1. UNCHANGED <<resp, taken>>
      BY <1>4 DEF Boot, BootFails, Accept, ExecOutputFails, ExecDone, SendLastEofFails,
                  ExecReadsInput, SendFails, network, history
    <2>2. req'[c] = req[c] \/ req'[c] = <<>>
      BY <1>4 DEF Boot, BootFails, Accept, ExecOutputFails, ExecDone, SendLastEofFails,
                  ExecReadsInput, network, TypeOK
    <2>3. Handling(c)' => Handling(c)
      BY <1>4 DEF Boot, BootFails, Accept, ExecOutputFails, ExecDone, SendLastEofFails,
                  ExecReadsInput, server, Handling
    <2> QED BY <1>0, <1>1, <2>1, <2>2, <2>3, CountFrame DEF MarkerSent, IsText
  <1>5. ASSUME RecvClosed \/ Exit \/ AcceptFails \/ RecvError \/ SendError
               \/ ServerKilledBySigPipe \/ StopServer
        PROVE  Counted(c)'
    <2>1. SessionEnds \/ ServerEnds
      BY <1>5 DEF RecvClosed, Exit, AcceptFails, RecvError, SendError, ServerKilledBySigPipe, StopServer
    <2>2. UNCHANGED history
      BY <1>5 DEF RecvClosed, Exit, AcceptFails, RecvError, SendError, ServerKilledBySigPipe, StopServer
    <2>3. /\ UNCHANGED <<resp, taken>> /\ ~Handling(c)'
          /\ req'[c] = req[c] \/ req'[c] = <<>>
      BY <2>1, <2>2 DEF SessionEnds, ServerEnds, Handling, history, TypeOK
    <2> QED BY <1>0, <1>1, <2>3, CountFrame DEF MarkerSent, IsText
  <1> QED
    BY <1>2, <1>3, <1>4, <1>5 DEF ServerStep

LEMMA CountClient ==
  ASSUME TypeOK, LockInv, CountInv, NEW c \in Clients, ClientStep(c)
  PROVE  CountInv'
  <1>1. UNCHANGED <<taken, clean>>
    BY DEF ClientStep, UserStep, ClientRecv, Connect, ConnectRefused, TypeLine, TypeLineFails,
           RecvMore, RecvEnd, RecvEndAndLeave, RecvNothing, EndOfInput, Kill, history
  <1> SUFFICES ASSUME NEW d \in Clients, clean'[d] PROVE Counted(d)'
    BY DEF CountInv
  <1>2. Counted(d) /\ LockStep(d)
    BY <1>1 DEF CountInv, LockInv
  <1>3. CASE d # c
    <2>1. answered'[d] = answered[d]
      BY <1>3 DEF ClientStep, UserStep, ClientRecv, Connect, ConnectRefused, TypeLine, TypeLineFails,
           RecvMore, RecvEnd, RecvEndAndLeave, RecvNothing, EndOfInput, Kill, history, TypeOK
    <2> QED
      BY <1>1, <1>2, <1>3, <2>1, ClientIsAlone, CountFrame DEF Handling, MarkerSent, IsText
  <1>4. CASE d = c
    <2>0. /\ UNCHANGED <<spc, sess>> /\ (Handling(c)' <=> Handling(c))
          /\ taken'[c] = taken[c] /\ Counted(c) /\ LockStep(c)
      <3>1. UNCHANGED <<spc, sess>>
        BY DEF ClientStep, UserStep, ClientRecv, Connect, ConnectRefused, TypeLine, TypeLineFails,
           RecvMore, RecvEnd, RecvEndAndLeave, RecvNothing, EndOfInput, Kill, RecvChunk, server
      <3> QED BY <1>1, <1>2, <1>4, <3>1 DEF Handling
    <2>1. /\ taken[c] \in Nat /\ sent[c] \in Nat /\ answered[c] \in Nat /\ Len(req[c]) \in Nat
          /\ req[c] \in Seq(Line) /\ resp[c] \in Seq(Unit)
      BY DEF TypeOK
    <2>2. ASSUME TypeLine(c) PROVE Counted(c)'
      <3>1. /\ cpc[c] = "prompt" /\ cpc'[c] = "wait" /\ sent'[c] = sent[c] + 1
            /\ answered'[c] = answered[c] /\ resp' = resp
        BY <2>2 DEF TypeLine, TypeOK
      <3>2. Len(req'[c]) <= Len(req[c]) + 1 /\ Len(req'[c]) \in Nat
        <4>1. \/ req'[c] = req[c] 
              \/ \E x : req'[c] = Append(req[c], x)
          BY <2>2 DEF TypeLine, TypeOK
        <4> QED BY <2>1, <4>1
      <3>3. taken'[c] + Len(req'[c]) <= sent'[c]
        BY <2>0, <2>1, <3>1, <3>2 DEF Counted
      <3>4. ~Handling(c)' /\ ~MarkerSent(c)'
        BY <2>0, <3>1 DEF LockStep, Unsent, MarkerSent
      <3> QED BY <2>0, <2>1, <3>1, <3>3, <3>4 DEF Counted
    <2>3. ASSUME RecvEnd(c) \/ RecvEndAndLeave(c) PROVE Counted(c)'
      <3>1. /\ cpc[c] = "wait" /\ cpc'[c] \in {"prompt", "done"} /\ sent'[c] = sent[c]
            /\ answered'[c] = answered[c] + 1 /\ req' = req
        BY <2>3 DEF RecvEnd, RecvEndAndLeave, RecvChunk, TypeOK
      <3>2. PICK n \in 1..Len(resp[c]) :
              EndsResponse(c, n) /\ (RecvEndAndLeave(c) \/ RecvChunk(c, n))
        BY <2>3 DEF RecvEnd, RecvEndAndLeave
      <3>3. LineAnswered(c) /\ n = Len(resp[c])
        BY <2>0, <3>1, <3>2, EndIsTheLast
      <3>4. ~Handling(c)' /\ MarkerSent(c)
        BY <2>0, <2>1, <3>2, <3>3 DEF LineAnswered, MarkerSent, EndsResponse, IsText
      <3>5. resp'[c] = <<>>
        <4>1. CASE RecvEndAndLeave(c)
          BY <4>1 DEF RecvEndAndLeave, TypeOK
        <4>2. CASE RecvChunk(c, n)
          <5>1. resp'[c] = SubSeq(resp[c], n + 1, Len(resp[c]))
            BY <4>2 DEF RecvChunk, TypeOK
          <5>2. Len(resp'[c]) = 0 /\ resp'[c] \in Seq(Unit)
            BY <2>1, <3>3, <5>1, Rest
          <5> QED BY <5>2
        <4> QED BY <3>2, <4>1, <4>2
      <3>6. ~MarkerSent(c)'
        BY <3>5 DEF MarkerSent
      <3>7. answered'[c] <= taken'[c]
        BY <2>0, <2>1, <3>1, <3>4 DEF Counted
      <3> QED BY <2>0, <2>1, <3>1, <3>4, <3>6, <3>7 DEF Counted
    <2>4. ASSUME RecvMore(c) PROVE Counted(c)'
      <3>1. UNCHANGED <<cpc, sent, answered, req>>
        BY <2>4 DEF RecvMore, client
      <3>2. PICK n \in 1..Len(resp[c]) : resp'[c] = SubSeq(resp[c], n + 1, Len(resp[c]))
        BY <2>4 DEF RecvMore, RecvChunk, TypeOK
      <3>3. MarkerSent(c)' => MarkerSent(c)
        BY <2>1, <3>2, Rest DEF MarkerSent, IsText
      <3> QED BY <2>0, <3>1, <3>3, CountFrame
    <2>5. ASSUME Connect(c) \/ ConnectRefused(c) PROVE Counted(c)'
      <3>1. UNCHANGED <<sent, answered, req, resp>> /\ cpc[c] = "start" /\ cpc'[c] \in {"prompt", "failed"}
        BY <2>5 DEF Connect, ConnectRefused, history, network, TypeOK
      <3> QED BY <2>0, <3>1 DEF Counted, MarkerSent, IsText
    <2>6. ASSUME TypeLineFails(c) \/ RecvNothing(c) \/ EndOfInput(c) \/ Kill(c) PROVE Counted(c)'
      <3>1. /\ UNCHANGED <<sent, answered, req>> /\ resp'[c] = <<>>
            /\ cpc'[c] \in {"done", "failed", "killed"}
        BY <2>6 DEF TypeLineFails, RecvNothing, EndOfInput, Kill, ClientCloses, history, TypeOK
      <3>2. ~MarkerSent(c)'
        BY <3>1 DEF MarkerSent
      <3> QED BY <2>0, <3>1, <3>2, CountFrame
    <2> QED
      BY <1>4, <2>2, <2>3, <2>4, <2>5, <2>6 DEF ClientStep, UserStep, ClientRecv
  <1> QED
    BY <1>3, <1>4

LEMMA CountCorrect == Spec => []CountInv
  <1>1. TypeOK /\ ConnInv /\ LockInv /\ CountInv /\ [Next]_vars => CountInv'
    <2> SUFFICES ASSUME TypeOK, ConnInv, LockInv, CountInv, [Next]_vars PROVE CountInv'
      OBVIOUS
    <2>1. CASE UNCHANGED vars
      BY <2>1 DEF CountInv, Counted, MarkerSent, IsText, Handling, vars, server, network, client, history
    <2> QED
      BY <2>1, CountServer, CountClient DEF Next
  <1> QED
    BY <1>1, CountInit, TypeCorrect, ConnCorrect, LockCorrect, PTL DEF Spec

----
\* Programs that never write the marker leave every client clean.
CleanInv == \A c \in Clients : clean[c]

LEMMA CleanCorrect == ASSUME "eot" \notin OutBytes PROVE Spec => []CleanInv
  <1>1. Init => CleanInv
    BY DEF Init, CleanInv
  <1>2. TypeOK /\ CleanInv /\ [Next]_vars => CleanInv'
    <2> SUFFICES ASSUME TypeOK, CleanInv, [Next]_vars PROVE CleanInv'
      OBVIOUS
    <2>1. CASE ExecOutput
      <3>1. PICK b \in OutBytes : clean' = [clean EXCEPT ![sess] = @ /\ b # "eot"]
        BY <2>1 DEF ExecOutput
      <3> QED BY <3>1, Zenon DEF TypeOK, CleanInv
    <2>2. CASE ServerStep /\ ~ExecOutput
      BY <2>2 DEF ServerStep, Boot, BootFails, Accept, AcceptFails, RecvLine, RecvClosed,
             RecvError, ExecOutputFails, ExecReadsInput, ExecDone, SendText, SendEof,
             SendLastEofFails, SendError, ServerKilledBySigPipe, Exit, StopServer, history, CleanInv
    <2>3. CASE \E c \in Clients : ClientStep(c)
      BY <2>3 DEF ClientStep, UserStep, ClientRecv, Connect, ConnectRefused, TypeLine, TypeLineFails,
           RecvMore, RecvEnd, RecvEndAndLeave, RecvNothing, EndOfInput, Kill, history, CleanInv
    <2>4. CASE UNCHANGED vars
      BY <2>4 DEF vars, history, CleanInv
    <2> QED
      BY <2>1, <2>2, <2>3, <2>4 DEF Next
  <1> QED
    BY <1>1, <1>2, TypeCorrect, PTL DEF Spec

LEMMA ServiceServer ==
  ASSUME TypeOK, ConnInv, LockInv, CountInv, CleanInv, ServerStep
  PROVE  Service!Next \/ UNCHANGED Service!vars
  <1> USE DEF Service!vars, Service!lines
  <1>1. ASSUME SessionEnds, UNCHANGED <<sent, taken, answered>>, InSession
        PROVE  Service!Release
    <2>1. sess # Nobody /\ sess' = Nobody /\ spc # "down" /\ spc' # "down" /\ backlog' = backlog
      BY <1>1, RShellAssumption, SessionIsClient DEF SessionEnds, InSession
    <2> QED BY <1>1, <2>1 DEF Service!Release
  <1>2. ASSUME ServerEnds, UNCHANGED <<sent, taken, answered>>, spc # "down"
        PROVE  Service!End
    BY <1>2 DEF ServerEnds, Service!End
  <1>3. CASE Boot \/ ExecOutput \/ ExecOutputFails \/ ExecReadsInput \/ ExecDone \/ SendText
             \/ SendEof \/ SendLastEofFails
    BY <1>3 DEF Boot, ExecOutput, ExecOutputFails, ExecReadsInput, ExecDone, SendText, SendEof,
                SendLastEofFails, server, network, client, history
  <1>4. CASE BootFails
    <2>1. backlog = <<>> /\ sess = Nobody /\ spc = "boot" /\ spc' = "down"
      BY <1>4 DEF BootFails, ConnInv, TypeOK, InSession
    <2> QED BY <1>4, <2>1 DEF BootFails, network, client, history, Service!End, Service!Next
  <1>5. CASE Accept
    <2>1. sess = Nobody
      BY <1>5 DEF Accept, TypeOK, InSession
    <2> QED BY <1>5, <2>1 DEF Accept, client, history, Service!Serve, Service!Next
  <1>6. CASE RecvLine
    <2>1. sess \in Clients /\ sess # Nobody
      BY <1>6, SessionIsClient, RShellAssumption DEF RecvLine, InSession
    <2>2. taken[sess] < sent[sess]
      <3>1. Counted(sess) /\ Len(req[sess]) \in Nat /\ Len(req[sess]) # 0
            /\ taken[sess] \in Nat /\ sent[sess] \in Nat
        BY <1>6, <2>1 DEF CountInv, CleanInv, TypeOK, RecvLine
      <3> QED BY <3>1 DEF Counted
    <2>3. spc # "down" /\ spc' # "down"
      <3>1. Head(req[sess]) \in Line
        BY <1>6, <2>1 DEF TypeOK, RecvLine
      <3>2. Head(req[sess]).kind \in LineKinds
        BY <3>1 DEF Line
      <3> QED BY <1>6, <3>2, GoesOn DEF RecvLine
    <2>4. /\ taken' = [taken EXCEPT ![sess] = @ + 1]
          /\ UNCHANGED <<sess, backlog, sent, answered>>
      BY <1>6 DEF RecvLine, client
    <2> QED BY <2>1, <2>2, <2>3, <2>4 DEF Service!Begin, Service!Next
  <1>7. CASE RecvClosed \/ Exit
    BY <1>1, <1>7 DEF RecvClosed, Exit, InSession, client, history, Service!Next
  <1>8. CASE AcceptFails \/ RecvError \/ SendError \/ ServerKilledBySigPipe \/ StopServer
    BY <1>2, <1>8 DEF AcceptFails, RecvError, SendError, ServerKilledBySigPipe, StopServer,
                      client, history, Service!Next
  <1> QED
    BY <1>3, <1>4, <1>5, <1>6, <1>7, <1>8 DEF ServerStep

LEMMA ServiceClient ==
  ASSUME TypeOK, ConnInv, LockInv, CountInv, CleanInv, NEW c \in Clients, ClientStep(c)
  PROVE  Service!Next \/ UNCHANGED Service!vars
  <1> USE DEF Service!vars, Service!lines
  <1>0. LockStep(c) /\ Counted(c)
    BY DEF LockInv, CountInv, CleanInv
  <1>1. CASE Connect(c)
    <2>1. /\ spc # "down" /\ spc' = spc /\ backlog' = Append(backlog, c)
          /\ UNCHANGED <<sess, sent, taken, answered>>
      BY <1>1 DEF Connect, server, history
    <2>2. Service!Arrive(c)
      BY <2>1 DEF Service!Arrive
    <2> QED BY <2>2 DEF Service!Next
  <1>2. CASE TypeLine(c)
    <2>1. sent[c] = answered[c]
      BY <1>0, <1>2 DEF TypeLine, Counted
    <2>2. /\ sent' = [sent EXCEPT ![c] = @ + 1]
          /\ UNCHANGED <<spc, sess, backlog, taken, answered>>
      BY <1>2 DEF TypeLine, server
    <2>3. Service!Ask(c)
      BY <2>1, <2>2 DEF Service!Ask
    <2> QED BY <2>3 DEF Service!Next
  <1>3. CASE RecvEnd(c) \/ RecvEndAndLeave(c)
    <2>1. cpc[c] = "wait" /\ \E n \in 1..Len(resp[c]) : EndsResponse(c, n)
      BY <1>3 DEF RecvEnd, RecvEndAndLeave, RecvChunk
    <2>2. MarkerSent(c)
      BY <2>1 DEF MarkerSent, EndsResponse, IsText
    <2>3. answered[c] < taken[c]
      BY <1>0, <2>2 DEF Counted
    <2>4. /\ answered' = [answered EXCEPT ![c] = @ + 1]
          /\ UNCHANGED <<spc, sess, backlog, taken, sent>>
      BY <1>3 DEF RecvEnd, RecvEndAndLeave, server
    <2>5. Service!Answer(c)
      BY <2>3, <2>4 DEF Service!Answer
    <2> QED BY <2>5 DEF Service!Next
  <1>4. CASE ConnectRefused(c) \/ TypeLineFails(c) \/ RecvMore(c) \/ RecvNothing(c)
             \/ EndOfInput(c) \/ Kill(c)
    BY <1>4 DEF ConnectRefused, TypeLineFails, RecvMore, RecvNothing, EndOfInput, Kill,
                server, network, client, history
  <1> QED
    BY <1>1, <1>2, <1>3, <1>4 DEF ClientStep, UserStep, ClientRecv

\* As long as no program writes the marker byte, the sockets, chunks and
\* markers of rsh_server.c and rsh_cli.c implement the abstract service:
\* sessions in order of arrival, one line at a time, answered once taken up.
THEOREM ServiceCorrect == ASSUME "eot" \notin OutBytes PROVE Spec => ImplementsService
  <1>1. Init => Service!Init
    BY DEF Init, Service!Init
  <1>2. /\ TypeOK /\ ConnInv /\ LockInv /\ CountInv /\ CleanInv /\ [Next]_vars
        => [Service!Next]_(Service!vars)
    <2> SUFFICES ASSUME TypeOK, ConnInv, LockInv, CountInv, CleanInv, [Next]_vars
                 PROVE  Service!Next \/ UNCHANGED Service!vars
      OBVIOUS
    <2>1. CASE UNCHANGED vars
      BY <2>1 DEF vars, server, network, client, history, Service!vars, Service!lines
    <2> QED
      BY <2>1, ServiceServer, ServiceClient DEF Next
  <1> QED
    BY <1>1, <1>2, TypeCorrect, ConnCorrect, LockCorrect, CountCorrect, CleanCorrect, PTL
       DEF Spec, ImplementsService, Service!Spec

====
