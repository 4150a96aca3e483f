---- MODULE RShellTypes ----
(***************************************************************************)
(* Type correctness of RShell, and the first strengthening: which end of   *)
(* each connection is open, and who is served or queued.                   *)
(***************************************************************************)
EXTENDS RShell, TLAPS

----
(* Types. *)

LEMMA TypeInit == Init => TypeOK
  <1> SUFFICES ASSUME Init PROVE TypeOK OBVIOUS
  <1> USE RShellAssumption DEF Init
  <1>1. spc \in ServerStates /\ sess \in IF InSession THEN Clients ELSE {Nobody}
    BY DEF ServerStates, InSession
  <1>2. cur \in Line
    BY DEF Line, NoLine, LineKinds, BadLines
  <1>3. lastRc \in Int /\ cwd \in {"start", "elsewhere"} /\ backlog \in Seq(Clients)
    OBVIOUS
  <1>4. conn \in [Clients -> ConnStates] /\ cpc \in [Clients -> ClientStates]
    BY DEF ConnStates, ClientStates
  <1>5. req \in [Clients -> Seq(Line)] /\ resp \in [Clients -> Seq(Unit)]
    OBVIOUS
  <1>6. typed \in [Clients -> LineKinds]
    BY DEF LineKinds, BadLines
  <1>7. /\ sent \in [Clients -> Nat] /\ taken \in [Clients -> Nat]
        /\ answered \in [Clients -> Nat] /\ made \in [Clients -> Nat]
        /\ shown \in [Clients -> Nat] /\ ownRc \in [Clients -> Int]
        /\ clean \in [Clients -> BOOLEAN]
    OBVIOUS
  <1> QED
    BY <1>1, <1>2, <1>3, <1>4, <1>5, <1>6, <1>7 DEF TypeOK

LEMMA CountersStay ==
  ASSUME NEW f \in [Clients -> Nat], NEW c \in Clients, NEW n \in Nat
  PROVE  [f EXCEPT ![c] = @ + n] \in [Clients -> Nat]
  OBVIOUS

LEMMA SessionIsClient == TypeOK /\ InSession => sess \in Clients
  BY DEF TypeOK

LEMMA DeliveredType ==
  ASSUME TypeOK, NEW c \in Clients, NEW u \in Unit, Delivered(c, u)
  PROVE  conn' \in [Clients -> ConnStates] /\ resp' \in [Clients -> Seq(Unit)]
  <1>1. conn' \in [Clients -> ConnStates]
    BY DEF TypeOK, Delivered, ConnStates
  <1>2. resp' \in [Clients -> Seq(Unit)]
    <2>1. resp[c] \in Seq(Unit) /\ Append(resp[c], u) \in Seq(Unit)
      BY DEF TypeOK
    <2> QED
      BY <2>1 DEF TypeOK, Delivered
  <1> QED
    BY <1>1, <1>2

LEMMA SendFailsType ==
  ASSUME TypeOK, NEW c \in Clients, SendFails(c)
  PROVE  conn' \in [Clients -> ConnStates] /\ resp' \in [Clients -> Seq(Unit)]
  BY DEF TypeOK, SendFails, ConnStates

LEMMA ClientClosesType ==
  ASSUME TypeOK, NEW c \in Clients, ClientCloses(c)
  PROVE  conn' \in [Clients -> ConnStates] /\ resp' \in [Clients -> Seq(Unit)]
  BY DEF TypeOK, ClientCloses, ConnStates

LEMMA ServerEndsType ==
  ASSUME TypeOK, ServerEnds, UNCHANGED <<client, history>>
  PROVE  TypeOK'
  <1>1. conn' \in [Clients -> ConnStates]
    BY DEF TypeOK, ServerEnds, ServerCloses, ConnStates
  <1>2. /\ req' \in [Clients -> Seq(Line)] /\ backlog' \in Seq(Clients)
        /\ spc' \in ServerStates /\ sess' \in IF InSession' THEN Clients ELSE {Nobody}
    BY DEF TypeOK, ServerEnds, ServerStates, InSession
  <1>3. UNCHANGED <<cur, lastRc, cwd, resp, cpc, typed, sent,
                    taken, answered, made, shown, ownRc, clean>>
    BY DEF ServerEnds, client, history
  <1> QED
    BY <1>1, <1>2, <1>3 DEF TypeOK

LEMMA SessionEndsType ==
  ASSUME TypeOK, InSession, SessionEnds, UNCHANGED <<client, history>>
  PROVE  TypeOK'
  <1>1. conn' \in [Clients -> ConnStates] /\ req' \in [Clients -> Seq(Line)]
    BY SessionIsClient DEF TypeOK, SessionEnds, ServerCloses, ConnStates
  <1>2. spc' \in ServerStates /\ sess' \in IF InSession' THEN Clients ELSE {Nobody}
    BY DEF TypeOK, SessionEnds, ServerStates, InSession
  <1>3. UNCHANGED <<cur, lastRc, cwd, backlog, resp, cpc, typed, sent,
                    taken, answered, made, shown, ownRc, clean>>
    BY DEF SessionEnds, client, history
  <1> QED
    BY <1>1, <1>2, <1>3 DEF TypeOK

LEMMA TypeServer == TypeOK /\ ServerStep => TypeOK'
  <1> SUFFICES ASSUME TypeOK, ServerStep PROVE TypeOK'
    OBVIOUS
  <1> DEFINE ServerOK == /\ spc' \in ServerStates
                         /\ sess' \in IF InSession' THEN Clients ELSE {Nobody}
  <1>1. ASSUME Boot \/ BootFails PROVE TypeOK'
    <2>1. ServerOK BY <1>1 DEF TypeOK, Boot, BootFails, ServerStates, InSession
    <2>2. UNCHANGED <<cur, lastRc, cwd, network, client, history>>
      BY <1>1 DEF Boot, BootFails
    <2> QED BY <2>1, <2>2 DEF TypeOK, network, client, history
  <1>2. ASSUME Accept PROVE TypeOK'
    <2>1. ServerOK /\ lastRc' \in Int /\ backlog' \in Seq(Clients)
      BY <1>2 DEF TypeOK, Accept, ServerStates, InSession
    <2>2. UNCHANGED <<cur, cwd, conn, req, resp, client, history>>
      BY <1>2 DEF Accept
    <2> QED BY <2>1, <2>2 DEF TypeOK, client, history
  <1>3. ASSUME RecvLine PROVE TypeOK'
    <2>0. sess \in Clients /\ Head(req[sess]) \in Line /\ req[sess] \in Seq(Line)
      BY <1>3, SessionIsClient DEF TypeOK, RecvLine, InSession
    <2>1. cur' \in Line /\ spc' \in {"text", "exec", "eof"} /\ cwd' \in {"start", "elsewhere"}
      BY <1>3, <2>0 DEF TypeOK, RecvLine, AfterRecv, DirAfter, Line, LineKinds
    <2>2. ServerOK
      BY <1>3, <2>0, <2>1 DEF TypeOK, RecvLine, ServerStates, InSession
    <2>3. req' \in [Clients -> Seq(Line)] /\ taken' \in [Clients -> Nat]
      BY <1>3, <2>0 DEF TypeOK, RecvLine
    <2>4. UNCHANGED <<lastRc, backlog, conn, resp, client, answered, made, shown, ownRc, clean>>
      BY <1>3 DEF RecvLine
    <2> QED BY <2>1, <2>2, <2>3, <2>4 DEF TypeOK, client
  <1>4. ASSUME ExecOutput PROVE TypeOK'
    <2>0. sess \in Clients /\ cur.line \in Nat
      BY <1>4, SessionIsClient DEF TypeOK, ExecOutput, InSession, Line
    <2>1. PICK b \in OutBytes : Delivered(sess, [line |-> cur.line, byte |-> b])
      BY <1>4 DEF ExecOutput
    <2>2. [line |-> cur.line, byte |-> b] \in Unit
      BY <2>0, RShellAssumption DEF Unit
    <2>3. conn' \in [Clients -> ConnStates] /\ resp' \in [Clients -> Seq(Unit)]
      BY <2>0, <2>1, <2>2, DeliveredType
    <2>4. made' \in [Clients -> Nat]
      BY <1>4, <2>0 DEF TypeOK, ExecOutput
    <2>6. clean' \in [Clients -> BOOLEAN]
      <3>1. \E x : clean' = [clean EXCEPT ![sess] = clean[sess] /\ x # "eot"]
        BY <1>4 DEF ExecOutput
      <3> QED BY <3>1, Zenon DEF TypeOK
    <2>5. UNCHANGED <<spc, sess, cur, lastRc, cwd, backlog, req, client, taken,
                      answered, shown, ownRc>>
      BY <1>4 DEF ExecOutput, server
    <2> QED BY <2>3, <2>4, <2>5, <2>6 DEF TypeOK, client, InSession
  <1>5. ASSUME ExecOutputFails PROVE TypeOK'
    <2>1. conn' \in [Clients -> ConnStates] /\ resp' \in [Clients -> Seq(Unit)]
      BY <1>5, SessionIsClient, SendFailsType DEF ExecOutputFails, InSession
    <2>2. UNCHANGED <<spc, sess, cur, lastRc, cwd, backlog, req, client, history>>
      BY <1>5 DEF ExecOutputFails, server
    <2> QED BY <2>1, <2>2 DEF TypeOK, client, history, InSession
  <1>6. ASSUME ExecReadsInput PROVE TypeOK'
    <2>1. req' \in [Clients -> Seq(Line)]
      <3>1. req \in [Clients -> Seq(Line)] /\ <<>> \in Seq(Line)
        BY DEF TypeOK
      <3> QED BY <1>6, <3>1 DEF ExecReadsInput
    <2>2. UNCHANGED <<spc, sess, cur, lastRc, cwd, backlog, conn, resp, client, history>>
      BY <1>6 DEF ExecReadsInput, server
    <2> QED BY <2>1, <2>2 DEF TypeOK, client, history, InSession
  <1>7. ASSUME ExecDone PROVE TypeOK'
    <2>1. ServerOK /\ lastRc' \in Int /\ ownRc' \in [Clients -> Int]
      BY <1>7, SessionIsClient, RShellAssumption DEF TypeOK, ExecDone, ServerStates, InSession
    <2>2. UNCHANGED <<cur, cwd, network, client, taken, answered, made, shown, clean>>
      BY <1>7 DEF ExecDone
    <2> QED BY <2>1, <2>2 DEF TypeOK, client, network
  <1>8. ASSUME SendText PROVE TypeOK'
    <2>0. sess \in Clients /\ [line |-> cur.line, byte |-> "text"] \in Unit
      BY <1>8, SessionIsClient DEF TypeOK, SendText, InSession, Line, Unit
    <2>1. conn' \in [Clients -> ConnStates] /\ resp' \in [Clients -> Seq(Unit)]
      BY <1>8, <2>0, DeliveredType DEF SendText
    <2>2. ServerOK /\ made' \in [Clients -> Nat]
      BY <1>8, <2>0 DEF TypeOK, SendText, ServerStates, InSession
    <2>3. UNCHANGED <<cur, lastRc, cwd, backlog, req, client, taken, answered, shown,
                      ownRc, clean>>
      BY <1>8 DEF SendText
    <2> QED BY <2>1, <2>2, <2>3 DEF TypeOK, client
  <1>9. ASSUME SendEof PROVE TypeOK'
    <2>0. sess \in Clients /\ [line |-> cur.line, byte |-> "eot"] \in Unit
      BY <1>9, SessionIsClient DEF TypeOK, SendEof, InSession, Line, Unit
    <2>1. conn' \in [Clients -> ConnStates] /\ resp' \in [Clients -> Seq(Unit)]
      BY <1>9, <2>0, DeliveredType DEF SendEof
    <2>2. ServerOK /\ lastRc' \in Int /\ ownRc' \in [Clients -> Int]
      BY <1>9, <2>0 DEF TypeOK, SendEof, ServerStates, InSession
    <2>3. UNCHANGED <<cur, cwd, backlog, req, client, taken, answered, made, shown, clean>>
      BY <1>9 DEF SendEof
    <2> QED BY <2>1, <2>2, <2>3 DEF TypeOK, client
  <1>10. ASSUME SendLastEofFails PROVE TypeOK'
    <2>1. conn' \in [Clients -> ConnStates] /\ resp' \in [Clients -> Seq(Unit)]
      BY <1>10, SessionIsClient, SendFailsType DEF SendLastEofFails, InSession
    <2>2. ServerOK
      BY <1>10 DEF TypeOK, SendLastEofFails, ServerStates, InSession
    <2>3. UNCHANGED <<cur, lastRc, cwd, backlog, req, client, history>>
      BY <1>10 DEF SendLastEofFails
    <2> QED BY <2>1, <2>2, <2>3 DEF TypeOK, client, history
  <1>11. ASSUME RecvClosed \/ Exit PROVE TypeOK'
    BY <1>11, SessionEndsType DEF RecvClosed, Exit, InSession
  <1>12. ASSUME AcceptFails \/ RecvError \/ SendError \/ ServerKilledBySigPipe \/ StopServer
         PROVE TypeOK'
    BY <1>12, ServerEndsType
       DEF AcceptFails, RecvError, SendError, ServerKilledBySigPipe, StopServer
  <1> QED
    BY <1>1, <1>2, <1>3, <1>4, <1>5, <1>6, <1>7, <1>8, <1>9, <1>10, <1>11, <1>12
       DEF ServerStep

LEMMA TypeClient ==
  ASSUME TypeOK, NEW c \in Clients, ClientStep(c)
  PROVE  TypeOK'
  <1> DEFINE NetOK == conn' \in [Clients -> ConnStates] /\ resp' \in [Clients -> Seq(Unit)]
  <1>1. ASSUME Connect(c) PROVE TypeOK'
    <2>1. cpc' \in [Clients -> ClientStates] /\ conn' \in [Clients -> ConnStates]
      BY <1>1 DEF TypeOK, Connect, ClientStates, ConnStates
    <2>3. backlog' \in Seq(Clients)
      BY <1>1 DEF TypeOK, Connect
    <2>2. UNCHANGED <<spc, sess, cur, lastRc, cwd, req, resp, typed, sent, history>>
      BY <1>1 DEF Connect, server
    <2> QED BY <2>1, <2>2, <2>3 DEF TypeOK, history, InSession
  <1>2. ASSUME ConnectRefused(c) PROVE TypeOK'
    <2>1. cpc' \in [Clients -> ClientStates]
      BY <1>2 DEF TypeOK, ConnectRefused, ClientStates
    <2>2. UNCHANGED <<spc, sess, cur, lastRc, cwd, network, typed, sent, history>>
      BY <1>2 DEF ConnectRefused, server
    <2> QED BY <2>1, <2>2 DEF TypeOK, network, history, InSession
  <1>3. ASSUME TypeLine(c) PROVE TypeOK'
    <2>1. PICK kind \in Lines :
             /\ typed' = [typed EXCEPT ![c] = kind]
             /\ req' = IF conn[c] = "up"
                       THEN [req EXCEPT ![c] = Append(@, [line |-> sent[c] + 1, kind |-> kind])]
                       ELSE req
      BY <1>3 DEF TypeLine
    <2>2. [line |-> sent[c] + 1, kind |-> kind] \in Line
      BY RShellAssumption DEF TypeOK, Line
    <2>3. req' \in [Clients -> Seq(Line)]
      BY <2>1, <2>2 DEF TypeOK
    <2>4. typed' \in [Clients -> LineKinds]
      BY <2>1, RShellAssumption DEF TypeOK
    <2>5. cpc' \in [Clients -> ClientStates]
      BY <1>3 DEF TypeOK, TypeLine, ClientStates
    <2>8. sent \in [Clients -> Nat] /\ sent' = [sent EXCEPT ![c] = @ + 1]
      BY <1>3 DEF TypeOK, TypeLine
    <2>9. sent' \in [Clients -> Nat]
      BY <2>8, CountersStay
    <2>7. made' \in [Clients -> Nat] /\ shown' \in [Clients -> Nat]
      BY <1>3 DEF TypeOK, TypeLine
    <2>6. UNCHANGED <<spc, sess, cur, lastRc, cwd, backlog, conn, resp, taken,
                      answered, ownRc, clean>>
      BY <1>3 DEF TypeLine, server
    <2> QED BY <2>3, <2>4, <2>5, <2>6, <2>7, <2>9 DEF TypeOK, InSession
  <1>4. ASSUME TypeLineFails(c) \/ RecvNothing(c) \/ EndOfInput(c) \/ Kill(c) PROVE TypeOK'
    <2>1. cpc' \in [Clients -> ClientStates]
      BY <1>4 DEF TypeOK, TypeLineFails, RecvNothing, EndOfInput, Kill, ClientStates
    <2>2. NetOK
      BY <1>4, ClientClosesType DEF TypeLineFails, RecvNothing, EndOfInput, Kill
    <2>3. UNCHANGED <<spc, sess, cur, lastRc, cwd, backlog, req, typed, sent, history>>
      BY <1>4 DEF TypeLineFails, RecvNothing, EndOfInput, Kill, server
    <2> QED BY <2>1, <2>2, <2>3 DEF TypeOK, history, InSession
  <1>5. ASSUME NEW n \in 1..Len(resp[c]), RecvChunk(c, n)
        PROVE  shown' \in [Clients -> Nat] /\ resp' \in [Clients -> Seq(Unit)]
    <2>1. /\ shown \in [Clients -> Nat] /\ n \in Nat /\ n - 1 \in Nat
          /\ resp \in [Clients -> Seq(Unit)]
      BY DEF TypeOK
    <2>2. shown' \in [Clients -> Nat]
      BY <1>5, <2>1 DEF RecvChunk
    <2>3. SubSeq(resp[c], n + 1, Len(resp[c])) \in Seq(Unit)
      BY <2>1
    <2> QED BY <1>5, <2>1, <2>2, <2>3 DEF RecvChunk
  <1>6. ASSUME RecvMore(c) PROVE TypeOK'
    <2>1. shown' \in [Clients -> Nat] /\ resp' \in [Clients -> Seq(Unit)]
      BY <1>5, <1>6 DEF RecvMore
    <2>2. UNCHANGED <<spc, sess, cur, lastRc, cwd, backlog, conn, req, client, taken,
                      answered, made, ownRc, clean>>
      BY <1>6 DEF RecvMore, server
    <2> QED BY <2>1, <2>2 DEF TypeOK, client, InSession
  <1>7. ASSUME RecvEnd(c) PROVE TypeOK'
    <2>1. shown' \in [Clients -> Nat] /\ resp' \in [Clients -> Seq(Unit)]
      BY <1>5, <1>7 DEF RecvEnd
    <2>2. cpc' \in [Clients -> ClientStates]
      BY <1>7 DEF TypeOK, RecvEnd, ClientStates
    <2>5. answered \in [Clients -> Nat] /\ answered' = [answered EXCEPT ![c] = @ + 1]
      BY <1>7 DEF TypeOK, RecvEnd
    <2>4. answered' \in [Clients -> Nat]
      BY <2>5, CountersStay
    <2>3. UNCHANGED <<spc, sess, cur, lastRc, cwd, backlog, conn, req, typed, sent,
                      taken, made, ownRc, clean>>
      BY <1>7 DEF RecvEnd, server
    <2> QED BY <2>1, <2>2, <2>3, <2>4 DEF TypeOK, InSession
  <1>8. ASSUME RecvEndAndLeave(c) PROVE TypeOK'
    <2>1. PICK n \in 1..Len(resp[c]) :
             /\ shown' = [shown EXCEPT ![c] = @ + n - 1]
             /\ conn' = [conn EXCEPT ![c] = IF @ # "up" THEN "gone"
                                            ELSE IF n = Len(resp[c]) THEN "cfin" ELSE "crst"]
      BY <1>8 DEF RecvEndAndLeave
    <2>2. shown' \in [Clients -> Nat]
      <3>1. n \in Nat /\ n > 0 /\ shown \in [Clients -> Nat]
        BY DEF TypeOK
      <3> QED BY <2>1, <3>1
    <2>5. conn' \in [Clients -> ConnStates]
      BY <2>1 DEF TypeOK, ConnStates
    <2>3. cpc' \in [Clients -> ClientStates]
      BY <1>8 DEF TypeOK, RecvEndAndLeave, ClientStates
    <2>8. answered \in [Clients -> Nat] /\ answered' = [answered EXCEPT ![c] = @ + 1]
      BY <1>8 DEF TypeOK, RecvEndAndLeave
    <2>6. answered' \in [Clients -> Nat]
      BY <2>8, CountersStay
    <2>7. resp' \in [Clients -> Seq(Unit)]
      <3>1. resp \in [Clients -> Seq(Unit)] /\ <<>> \in Seq(Unit)
        BY DEF TypeOK
      <3> QED BY <1>8, <3>1 DEF RecvEndAndLeave
    <2>4. UNCHANGED <<spc, sess, cur, lastRc, cwd, backlog, req, typed, sent,
                      taken, made, ownRc, clean>>
      BY <1>8 DEF RecvEndAndLeave, server
    <2> QED BY <2>2, <2>3, <2>4, <2>5, <2>6, <2>7 DEF TypeOK, InSession
  <1> QED
    BY <1>1, <1>2, <1>3, <1>4, <1>6, <1>7, <1>8 DEF ClientStep, UserStep, ClientRecv

\* Every variable of the server, the network and the clients keeps its shape,
\* and the server holds a client's socket exactly while it is in a session
\* (rsh_server.c:211-237 and 280-388).
THEOREM TypeCorrect == Spec => []TypeOK
  <1>1. Init => TypeOK
    BY TypeInit
  <1>2. TypeOK /\ [Next]_vars => TypeOK'
    <2> SUFFICES ASSUME TypeOK, [Next]_vars PROVE TypeOK'
      OBVIOUS
    <2>1. CASE UNCHANGED vars
      BY <2>1 DEF TypeOK, vars, server, network, client, history, InSession
    <2> QED
      BY <2>1, TypeServer, TypeClient DEF Next
  <1> QED
    BY <1>1, <1>2, PTL DEF Spec

----
(* The connections. *)

LEMMA SessionIsOpen == TypeOK /\ ConnInv /\ sess \in Clients => InSession /\ conn[sess] \in Attached
  BY RShellAssumption DEF TypeOK, ConnInv

LEMMA QueueOfClients == TypeOK => backlog \in Seq(Clients) /\ \A i \in 1..Len(backlog) : backlog[i] \in Clients
  BY DEF TypeOK

LEMMA ConnInit == Init => ConnInv
  BY DEF Init, ConnInv, InSession, Attached

\* A step of the session that moves its connection among the states in which
\* the server still has its end.
LEMMA ConnWithinSession ==
  ASSUME TypeOK, ConnInv, InSession, InSession', UNCHANGED <<sess, backlog, cpc>>,
         \/ UNCHANGED conn
         \/ conn[sess] # "up" /\ \E s \in {"late", "dead"} : conn' = [conn EXCEPT ![sess] = s]
  PROVE  ConnInv'
  <1>1. sess \in Clients /\ conn[sess] \in Attached
    BY SessionIsClient DEF ConnInv
  <1>2. \A c \in Clients : /\ conn'[c] = conn[c] \/ (c = sess /\ conn[c] \notin {"up", "sfin", "srst", "none"}
                                                       /\ conn'[c] \in {"late", "dead"})
    BY <1>1 DEF TypeOK, Attached
  <1>3. \A c \in Clients :
         /\ cpc'[c] = "start" => conn'[c] = "none"
         /\ cpc'[c] \in {"prompt", "wait"} <=> conn'[c] \in {"up", "sfin", "srst"}
    BY <1>2 DEF ConnInv
  <1>4. \A i \in 1..Len(backlog) : backlog[i] \in Clients
    BY QueueOfClients
  <1> QED
    BY <1>1, <1>2, <1>3, <1>4 DEF ConnInv, Attached, InSession

LEMMA ConnServerEnds ==
  ASSUME TypeOK, ConnInv, ServerEnds, UNCHANGED cpc
  PROVE  ConnInv'
  <1>1. ~InSession' /\ backlog' = <<>>
    BY DEF ServerEnds, InSession
  <1>2. \A c \in Clients : conn[c] = "none" => conn'[c] = "none"
    <2> SUFFICES ASSUME NEW c \in Clients, conn[c] = "none" PROVE conn'[c] = "none"
      OBVIOUS
    <2>1. c # sess
      BY SessionIsOpen DEF Attached
    <2>2. ~ \E i \in 1..Len(backlog) : backlog[i] = c
      BY DEF ConnInv, Attached
    <2> QED BY <2>1, <2>2 DEF ServerEnds
  <1>3. \A c \in Clients : conn[c] \in {"up", "sfin", "srst"} <=> conn'[c] \in {"up", "sfin", "srst"}
    <2> SUFFICES ASSUME NEW c \in Clients
                 PROVE  conn[c] \in {"up", "sfin", "srst"} <=> conn'[c] \in {"up", "sfin", "srst"}
      OBVIOUS
    <2>1. CASE c = sess
      <3>1. conn[c] \in Attached
        BY <2>1, SessionIsOpen
      <3> QED BY <2>1, <3>1 DEF ServerEnds, ServerCloses, Attached
    <2>2. CASE c # sess /\ \E i \in 1..Len(backlog) : backlog[i] = c
      <3>1. conn[c] \in Attached
        BY <2>2 DEF ConnInv
      <3> QED BY <2>2, <3>1 DEF ServerEnds, Attached
    <2>3. CASE c # sess /\ ~ \E i \in 1..Len(backlog) : backlog[i] = c
      BY <2>3 DEF ServerEnds
    <2> QED BY <2>1, <2>2, <2>3
  <1>4. \A c \in Clients : conn'[c] \notin Attached
    BY DEF TypeOK, ConnInv, ServerEnds, ServerCloses, Attached
  <1> QED
    BY <1>1, <1>2, <1>3, <1>4 DEF ConnInv

LEMMA ConnSessionEnds ==
  ASSUME TypeOK, ConnInv, InSession, SessionEnds, UNCHANGED cpc
  PROVE  ConnInv'
  <1>1. sess \in Clients /\ conn[sess] \in Attached
    BY SessionIsClient DEF ConnInv
  <1>2. \A c \in Clients : c # sess => conn'[c] = conn[c]
    BY DEF TypeOK, SessionEnds
  <1>3. conn'[sess] = IF conn[sess] # "up" THEN "gone" ELSE IF req[sess] = <<>> THEN "sfin" ELSE "srst"
    BY <1>1 DEF TypeOK, SessionEnds, ServerCloses
  <1>4. \A c \in Clients :
         /\ cpc'[c] = "start" => conn'[c] = "none"
         /\ cpc'[c] \in {"prompt", "wait"} <=> conn'[c] \in {"up", "sfin", "srst"}
    BY <1>1, <1>2, <1>3 DEF ConnInv, Attached
  <1>5. \A i \in 1..Len(backlog) : backlog[i] \in Clients /\ backlog[i] # sess
    BY QueueOfClients DEF ConnInv
  <1>6. sess' \notin Clients /\ backlog' = backlog /\ spc' = "accept" /\ ~InSession'
    BY RShellAssumption DEF SessionEnds, InSession
  <1>7. \A c \in Clients : conn'[c] \in Attached =>
          c # sess /\ \E i \in 1..Len(backlog') : backlog'[i] = c
    BY <1>2, <1>3, <1>6 DEF ConnInv, Attached
  <1> QED
    BY <1>2, <1>4, <1>5, <1>6, <1>7 DEF ConnInv

LEMMA ConnServer == TypeOK /\ ConnInv /\ ServerStep => ConnInv'
  <1> SUFFICES ASSUME TypeOK, ConnInv, ServerStep PROVE ConnInv'
    OBVIOUS
  <1>1. ASSUME Boot \/ BootFails PROVE ConnInv'
    BY <1>1 DEF ConnInv, Boot, BootFails, network, client, InSession
  <1>2. ASSUME Accept PROVE ConnInv'
    <2>1. /\ backlog \in Seq(Clients) /\ backlog # <<>> /\ sess' = backlog[1] /\ backlog' = Tail(backlog)
          /\ spc' = "recv" /\ UNCHANGED <<conn, cpc>>
      BY <1>2 DEF TypeOK, Accept, client
    <2>2. Len(backlog') = Len(backlog) - 1 /\ \A i \in 1..Len(backlog') : backlog'[i] = backlog[i + 1]
      BY <2>1
    <2>3. \A i \in 1..Len(backlog') : conn'[backlog'[i]] \in Attached /\ backlog'[i] # sess'
      BY <2>1, <2>2 DEF ConnInv
    <2>4. \A i, j \in 1..Len(backlog') : backlog'[i] = backlog'[j] => i = j
      BY <2>1, <2>2 DEF ConnInv
    <2>5. conn'[sess'] \in Attached
      BY <2>1 DEF ConnInv
    <2>6. \A c \in Clients : conn'[c] \in Attached =>
            c = sess' \/ \E i \in 1..Len(backlog') : backlog'[i] = c
      <3> SUFFICES ASSUME NEW c \in Clients, conn'[c] \in Attached, c # sess'
                   PROVE  \E i \in 1..Len(backlog') : backlog'[i] = c
        OBVIOUS
      <3>1. c # sess
        BY <1>2, SessionIsOpen DEF Accept, InSession
      <3>2. PICK j \in 1..Len(backlog) : backlog[j] = c
        BY <2>1, <3>1 DEF ConnInv
      <3>3. j # 1 /\ j - 1 \in 1..Len(backlog')
        BY <2>1, <2>2, <3>2
      <3>4. backlog'[j - 1] = backlog[j]
        <4>1. j \in Nat /\ (j - 1) + 1 = j
          OBVIOUS
        <4> QED BY <2>2, <3>3, <4>1
      <3> QED BY <3>2, <3>3, <3>4
    <2> QED
      BY <2>1, <2>3, <2>4, <2>5, <2>6 DEF ConnInv
  <1>3. ASSUME RecvLine \/ ExecReadsInput \/ ExecDone PROVE ConnInv'
    <2>1. InSession /\ InSession'
      BY <1>3, TypeServer DEF TypeOK, RecvLine, AfterRecv, ExecReadsInput, ExecDone, InSession, server, Line, LineKinds
    <2>2. UNCHANGED <<sess, backlog, cpc, conn>>
      BY <1>3 DEF RecvLine, ExecReadsInput, ExecDone, server, client, network
    <2> QED BY <2>1, <2>2, ConnWithinSession
  <1>4. ASSUME ExecOutput \/ SendText \/ SendEof PROVE ConnInv'
    <2>1. InSession /\ InSession' /\ UNCHANGED <<sess, backlog, cpc>>
      BY <1>4 DEF ExecOutput, SendText, SendEof, server, client, InSession
    <2>2. \E u : Delivered(sess, u)
      BY <1>4 DEF ExecOutput, SendText, SendEof
    <2> QED BY <2>1, <2>2, ConnWithinSession DEF Delivered
  <1>5. ASSUME ExecOutputFails \/ SendLastEofFails PROVE ConnInv'
    <2>1. InSession /\ InSession' /\ UNCHANGED <<sess, backlog, cpc>>
      BY <1>5 DEF ExecOutputFails, SendLastEofFails, server, client, InSession
    <2> QED BY <1>5, <2>1, ConnWithinSession DEF ExecOutputFails, SendLastEofFails, SendFails
  <1>6. ASSUME RecvClosed \/ Exit PROVE ConnInv'
    BY <1>6, ConnSessionEnds DEF RecvClosed, Exit, InSession, client
  <1>7. ASSUME AcceptFails \/ RecvError \/ SendError \/ ServerKilledBySigPipe \/ StopServer
        PROVE  ConnInv'
    BY <1>7, ConnServerEnds
       DEF AcceptFails, RecvError, SendError, ServerKilledBySigPipe, StopServer, client
  <1> QED
    BY <1>1, <1>2, <1>3, <1>4, <1>5, <1>6, <1>7 DEF ServerStep

\* A step of a client that moves its own end, between states of which the
\* server's end has the same view.
LEMMA ConnAtClient ==
  ASSUME TypeOK, ConnInv, NEW c \in Clients, UNCHANGED <<spc, sess, backlog>>,
         \A d \in Clients : d # c => conn'[d] = conn[d] /\ cpc'[d] = cpc[d],
         conn[c] \in Attached <=> conn'[c] \in Attached,
         cpc'[c] # "start",
         cpc'[c] \in {"prompt", "wait"} <=> conn'[c] \in {"up", "sfin", "srst"}
  PROVE  ConnInv'
  <1>1. \A i \in 1..Len(backlog) : backlog[i] \in Clients
    BY QueueOfClients
  <1>2. InSession => sess \in Clients
    BY SessionIsClient
  <1> QED
    BY <1>1, <1>2 DEF ConnInv, InSession

LEMMA ConnClient ==
  ASSUME TypeOK, ConnInv, NEW c \in Clients, ClientStep(c)
  PROVE  ConnInv'
  <1>1. ASSUME Connect(c) PROVE ConnInv'
    <2>1. /\ cpc[c] = "start" /\ conn[c] = "none" /\ spc \notin {"boot", "down"}
          /\ conn' = [conn EXCEPT ![c] = "up"] /\ cpc' = [cpc EXCEPT ![c] = "prompt"]
          /\ backlog' = Append(backlog, c) /\ UNCHANGED <<spc, sess>>
      BY <1>1 DEF Connect, ConnInv, server
    <2>2. /\ Len(backlog') = Len(backlog) + 1 /\ backlog'[Len(backlog) + 1] = c
          /\ \A i \in 1..Len(backlog) : backlog'[i] = backlog[i] /\ backlog[i] \in Clients
      BY <2>1 DEF TypeOK
    <2>3. \A i \in 1..Len(backlog) : backlog[i] # c
      BY <2>1 DEF ConnInv, Attached
    <2>4. InSession => sess # c /\ sess \in Clients
      BY <2>1, SessionIsClient DEF ConnInv, Attached
    <2>5. sess # c
      BY <2>4, RShellAssumption DEF TypeOK
    <2>6. conn'[c] = "up" /\ cpc'[c] = "prompt"
          /\ \A d \in Clients : d # c => conn'[d] = conn[d] /\ cpc'[d] = cpc[d]
      BY <2>1 DEF TypeOK
    <2>7. \A i \in 1..Len(backlog') : conn'[backlog'[i]] \in Attached /\ backlog'[i] # sess'
      <3> SUFFICES ASSUME NEW i \in 1..Len(backlog')
                   PROVE  conn'[backlog'[i]] \in Attached /\ backlog'[i] # sess'
        OBVIOUS
      <3>1. Len(backlog) \in Nat
        BY QueueOfClients
      <3>2. CASE i = Len(backlog) + 1
        BY <2>1, <2>2, <2>5, <2>6, <3>2 DEF Attached
      <3>3. CASE i \in 1..Len(backlog)
        BY <2>1, <2>2, <2>3, <2>6, <3>3 DEF ConnInv
      <3> QED BY <2>2, <3>1, <3>2, <3>3
    <2>8. \A i, j \in 1..Len(backlog') : backlog'[i] = backlog'[j] => i = j
      <3>1. Len(backlog) \in Nat
        BY QueueOfClients
      <3>2. \A i, j \in 1..Len(backlog) : backlog[i] = backlog[j] => i = j
        BY DEF ConnInv
      <3> QED BY <2>2, <2>3, <3>1, <3>2
    <2>9. InSession' => conn'[sess'] \in Attached
      BY <2>1, <2>4, <2>6 DEF ConnInv, InSession
    <2>10. \A d \in Clients : conn'[d] \in Attached =>
             d = sess' \/ \E i \in 1..Len(backlog') : backlog'[i] = d
      <3> SUFFICES ASSUME NEW d \in Clients, conn'[d] \in Attached, d # sess'
                   PROVE  \E i \in 1..Len(backlog') : backlog'[i] = d
        OBVIOUS
      <3>0. Len(backlog) \in Nat
        BY QueueOfClients
      <3>1. CASE d = c
        BY <2>2, <3>0, <3>1
      <3>2. CASE d # c
        <4>1. PICK j \in 1..Len(backlog) : backlog[j] = d
          BY <2>1, <2>6, <3>2 DEF ConnInv
        <4> QED BY <2>2, <3>0, <4>1
      <3> QED BY <3>1, <3>2
    <2> QED
      BY <2>1, <2>6, <2>7, <2>8, <2>9, <2>10 DEF ConnInv
  <1>2. ASSUME ConnectRefused(c) PROVE ConnInv'
    <2>1. /\ conn' = conn /\ conn[c] = "none" /\ cpc' = [cpc EXCEPT ![c] = "failed"]
          /\ UNCHANGED <<spc, sess, backlog>>
      BY <1>2 DEF ConnectRefused, ConnInv, network, server
    <2> QED BY <2>1, ConnAtClient DEF TypeOK
  <1>3. ASSUME TypeLine(c) \/ RecvMore(c) \/ RecvEnd(c) PROVE ConnInv'
    <2>1. /\ cpc[c] \in {"prompt", "wait"} /\ UNCHANGED <<conn, spc, sess, backlog>>
          /\ cpc'[c] \in {"prompt", "wait"} /\ \A d \in Clients : d # c => cpc'[d] = cpc[d]
      BY <1>3 DEF TypeOK, TypeLine, RecvMore, RecvEnd, RecvChunk, server, client
    <2> QED BY <2>1, ConnAtClient DEF ConnInv
  <1>4. ASSUME TypeLineFails(c) \/ RecvNothing(c) \/ EndOfInput(c) \/ Kill(c) \/ RecvEndAndLeave(c)
        PROVE  ConnInv'
    <2>1. /\ cpc[c] \in {"prompt", "wait"} /\ UNCHANGED <<spc, sess, backlog>>
          /\ cpc'[c] \in {"done", "failed", "killed"}
          /\ \A d \in Clients : d # c => cpc'[d] = cpc[d] /\ conn'[d] = conn[d]
      BY <1>4 DEF TypeOK, TypeLineFails, RecvNothing, EndOfInput, Kill, RecvEndAndLeave,
                  ClientCloses, server
    <2>2. conn'[c] \in {"gone", "cfin", "crst"} /\ (conn[c] = "up" <=> conn'[c] # "gone")
      BY <1>4 DEF TypeOK, TypeLineFails, RecvNothing, EndOfInput, Kill, RecvEndAndLeave,
                  ClientCloses
    <2> QED BY <2>1, <2>2, ConnAtClient DEF ConnInv, Attached
  <1> QED
    BY <1>1, <1>2, <1>3, <1>4 DEF ClientStep, UserStep, ClientRecv

LEMMA ConnCorrect == Spec => []ConnInv
  <1>1. TypeOK /\ ConnInv /\ [Next]_vars => ConnInv'
    <2> SUFFICES ASSUME TypeOK, ConnInv, [Next]_vars PROVE ConnInv'
      OBVIOUS
    <2>1. CASE UNCHANGED vars
      BY <2>1 DEF ConnInv, vars, server, network, client, InSession
    <2> QED
      BY <2>1, ConnServer, ConnClient DEF Next
  <1> QED
    BY <1>1, ConnInit, TypeCorrect, PTL DEF Spec

====
