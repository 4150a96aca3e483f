---- MODULE RShell ----
(***************************************************************************)
(* The remote shell of 6-RShell: one server process (rsh_server.c) that    *)
(* serves its clients (rsh_cli.c) one session at a time over TCP.          *)
(*                                                                         *)
(* A client sends a command line and reads until a chunk ends in the byte  *)
(* 0x04; the server takes ONE recv as one command, runs it with the        *)
(* children's output going straight to the socket, and sends 0x04.         *)
(*                                                                         *)
(* Abstraction: a command line is its kind (what the parser and the table  *)
(* of built-ins make of it), output is a sequence of units tagged with the *)
(* number of the line that produced them, a pipeline is the set of exit    *)
(* codes it may end with.  The kernel's side of a connection is explicit,  *)
(* because recv and send return what it says.                              *)
(***************************************************************************)
EXTENDS Naturals, Integers, Sequences

CONSTANTS
    Clients,     \* client processes, each started at most once
    Nobody,      \* the session of a server between two clients
    Lines,       \* the kinds of line users may type, a subset of LineKinds
    MaxLines,    \* bound: lines typed per client
    MaxOut,      \* bound: units of output per pipeline
    OutBytes,    \* what a program may write: {"text"} or {"text", "eot"}
    Codes,       \* what rsh_execute_pipeline may return
    Backlog,     \* connections the kernel queues for accept (listen(, 20))
    MayKill,     \* clients that may be killed while connected
    Faults       \* system calls that may fail: a subset of {"boot", "accept", "malloc"}

\* What the server makes of a line.  "exit " and "stop-server " carry a blank
\* or a pipe that the parser drops and the client's strcmp does not.
ExitLines == {"exit", "exit "}
StopLines == {"stop-server", "stop-server "}
BadLines  == {"blank", "too many pipes", "too many args"}
Pipelines == {"run", "reader"}   \* a "reader" reads its standard input to the end
LineKinds == ExitLines \cup StopLines \cup BadLines \cup Pipelines \cup {"rc", "cd"}

ASSUME RShellAssumption ==
    /\ Nobody \notin Clients
    /\ Lines \subseteq LineKinds
    /\ MaxLines \in Nat /\ MaxOut \in Nat /\ Backlog \in Nat \ {0}
    /\ OutBytes \subseteq {"text", "eot"}
    /\ Codes \subseteq Int
    /\ MayKill \subseteq Clients
    /\ Faults \subseteq {"boot", "accept", "malloc"}

VARIABLES
    spc,       \* where the server is
    sess,      \* the client whose socket the server holds, or Nobody
    cur,       \* the line in hand: [line, kind]
    lastRc,    \* exec_client_requests' last_rc
    cwd,       \* the server's working directory
    backlog,   \* connections not yet accepted
    conn,      \* per client: the state of its connection, see ConnStates
    req,       \* per client: lines sent and not yet received by the server
    resp,      \* per client: units sent and not yet received by the client
    cpc,       \* per client: where it is
    typed,     \* per client: the line it last typed (cmd_buff)
    sent,      \* per client: lines typed so far
    \* history: no action reads it but for the bound on output
    taken,     \* per client: lines the server has taken up
    answered,  \* per client: lines whose response loop ended with 0x04
    made,      \* per client: units of output made for its latest line
    shown,     \* per client: units displayed since it typed its latest line
    ownRc,     \* per client: what its latest finished command returned
    clean      \* per client: no program it ran has written the marker byte

server  == <<spc, sess, cur, lastRc, cwd>>
network == <<backlog, conn, req, resp>>
client  == <<cpc, typed, sent>>
history == <<taken, answered, made, shown, ownRc, clean>>
vars    == <<server, network, client, history>>

ServerStates == {"boot", "accept", "recv", "exec", "text", "eof", "close", "down"}
ClientStates == {"start", "prompt", "wait", "done", "failed", "killed"}

\* none: not connected           up:   both ends open
\* cfin: client closed           crst: client reset, its ECONNRESET not yet seen
\* late: data went to a closed client, whose RST is on its way or here
\* dead: ECONNRESET was reported once, a further send raises SIGPIPE
\* sfin: server closed           srst: server closed with unread data (RST)
\* gone: both ends closed
ConnStates == {"none", "up", "cfin", "crst", "late", "dead", "sfin", "srst", "gone"}

Unit == [line : Nat, byte : {"text", "eot"}]
Line == [line : Nat, kind : LineKinds]
NoLine == [line |-> 0, kind |-> "blank"]

Init ==
    /\ spc = "boot" /\ sess = Nobody /\ cur = NoLine /\ lastRc = 0 /\ cwd = "start"
    /\ backlog = <<>>
    /\ conn = [c \in Clients |-> "none"]
    /\ req = [c \in Clients |-> <<>>] /\ resp = [c \in Clients |-> <<>>]
    /\ cpc = [c \in Clients |-> "start"]
    /\ typed = [c \in Clients |-> "blank"] /\ sent = [c \in Clients |-> 0]
    /\ taken = [c \in Clients |-> 0] /\ answered = [c \in Clients |-> 0]
    /\ made = [c \in Clients |-> 0] /\ shown = [c \in Clients |-> 0]
    /\ ownRc = [c \in Clients |-> 0] /\ clean = [c \in Clients |-> TRUE]

----
(* The network, seen from either end. *)

\* The client's end closes.  Unread data in its receive buffer turns the FIN
\* into a RST.
ClientCloses(c) ==
    /\ conn' = [conn EXCEPT ![c] = IF @ # "up" THEN "gone"
                                   ELSE IF resp[c] = <<>> THEN "cfin" ELSE "crst"]
    /\ resp' = [resp EXCEPT ![c] = <<>>]

\* What a connection becomes when the server's end of it is closed.
ServerCloses(c) ==
    IF conn[c] # "up" THEN "gone" ELSE IF req[c] = <<>> THEN "sfin" ELSE "srst"

\* send() succeeds: the client gets the unit, or its kernel will answer RST.
Delivered(c, u) ==
    \/ /\ conn[c] = "up"
       /\ resp' = [resp EXCEPT ![c] = Append(@, u)]
       /\ UNCHANGED conn
    \/ /\ conn[c] \in {"cfin", "late"}
       /\ conn' = [conn EXCEPT ![c] = "late"]
       /\ UNCHANGED resp

\* send() returns -1 (ECONNRESET).
SendFails(c) ==
    /\ conn[c] = "crst"
    /\ conn' = [conn EXCEPT ![c] = "dead"]
    /\ UNCHANGED resp

\* send() raises SIGPIPE, which no handler catches.
SigPipe(c) == conn[c] \in {"late", "dead"}

\* The server process ends: its socket and its listening socket are closed,
\* and the connections it never accepted are reset.
ServerEnds ==
    /\ spc' = "down" /\ sess' = Nobody /\ backlog' = <<>>
    /\ conn' = [c \in Clients |->
                  IF c = sess THEN ServerCloses(c)
                  ELSE IF \E i \in 1..Len(backlog) : backlog[i] = c
                       THEN (IF conn[c] = "up" THEN "srst" ELSE "gone")
                       ELSE conn[c]]
    /\ req' = [c \in Clients |-> <<>>]
    /\ UNCHANGED <<cur, lastRc, cwd, resp>>

\* Mutant: the descriptor of the closed session is kept.
SessionEndsKeepsSess ==
    /\ spc' = "accept"
    /\ conn' = [conn EXCEPT ![sess] = ServerCloses(sess)]
    /\ req' = [req EXCEPT ![sess] = <<>>]
    /\ UNCHANGED <<sess, cur, lastRc, cwd, backlog, resp>>

\* close(cli_socket) and back to accept.
SessionEnds ==
    /\ spc' = "accept" /\ sess' = Nobody
    /\ conn' = [conn EXCEPT ![sess] = ServerCloses(sess)]
    /\ req' = [req EXCEPT ![sess] = <<>>]
    /\ UNCHANGED <<cur, lastRc, cwd, backlog, resp>>

----
(* The server. *)

Boot ==
    /\ spc = "boot" /\ spc' = "accept"
    /\ UNCHANGED <<sess, cur, lastRc, cwd, network, client, history>>

BootFails ==
    /\ spc = "boot" /\ "boot" \in Faults /\ spc' = "down"
    /\ UNCHANGED <<sess, cur, lastRc, cwd, network, client, history>>

\* Mutant: last_rc is not reset for a new session.
AcceptKeepsRc ==
    /\ spc = "accept" /\ backlog # <<>>
    /\ sess' = Head(backlog) /\ backlog' = Tail(backlog)
    /\ spc' = "recv"
    /\ UNCHANGED <<cur, lastRc, cwd, conn, req, resp, client, history>>

Accept ==
    /\ spc = "accept" /\ backlog # <<>>
    /\ sess' = Head(backlog) /\ backlog' = Tail(backlog)
    /\ spc' = "recv" /\ lastRc' = 0
    /\ UNCHANGED <<cur, cwd, conn, req, resp, client, history>>

\* accept() fails, or it succeeds and malloc fails in exec_client_requests:
\* both error codes are negative and end the server.
AcceptFails ==
    /\ spc = "accept" /\ backlog # <<>>
    /\ Faults \cap {"accept", "malloc"} # {}
    /\ ServerEnds
    /\ UNCHANGED <<client, history>>

\* Mutant: cd is not answered.
AfterRecvSilentCd(kind) ==
    CASE kind \in BadLines \cup {"rc"}      -> "text"
      [] kind \in Pipelines                 -> "exec"
      [] kind \in ExitLines \cup StopLines  -> "eof"
      [] kind = "cd"                        -> "recv"

\* Where the server goes with a line of this kind.
AfterRecv(kind) ==
    CASE kind \in BadLines \cup {"rc"}                -> "text"
      [] kind \in Pipelines                           -> "exec"
      [] kind \in ExitLines \cup StopLines \cup {"cd"} -> "eof"

\* cd changes the one working directory of the server, if chdir succeeds.
DirAfter(kind) == IF kind = "cd" THEN {cwd, "elsewhere"} ELSE {cwd}

\* One recv, whatever it returns, is one command: build_cmd_list stops at the
\* first NUL, so lines that arrived in the same chunk are lost.
RecvLine ==
    /\ spc = "recv" /\ req[sess] # <<>>
    /\ \E n \in 1..Len(req[sess]) :
         req' = [req EXCEPT ![sess] = SubSeq(@, n + 1, Len(@))]
    /\ LET line == Head(req[sess]) IN
         /\ cur' = line
         /\ spc' = AfterRecv(line.kind)
         /\ cwd' \in DirAfter(line.kind)
    /\ taken' = [taken EXCEPT ![sess] = @ + 1]
    /\ UNCHANGED <<sess, lastRc, backlog, conn, resp, client, answered, made, shown, ownRc, clean>>

\* Mutant: recv returning 0 is taken for an error.
RecvClosedEnds ==
    /\ spc = "recv" /\ req[sess] = <<>> /\ conn[sess] \in {"cfin", "late", "dead"}
    /\ ServerEnds
    /\ UNCHANGED <<client, history>>

\* recv returns 0: the client is gone, serve the next one.
RecvClosed ==
    /\ spc = "recv" /\ req[sess] = <<>> /\ conn[sess] \in {"cfin", "late", "dead"}
    /\ SessionEnds
    /\ UNCHANGED <<client, history>>

\* recv returns -1: ERR_RDSH_COMMUNICATION, which ends the server as well.
RecvError ==
    /\ spc = "recv" /\ req[sess] = <<>> /\ conn[sess] = "crst"
    /\ ServerEnds
    /\ UNCHANGED <<client, history>>

\* A child of the pipeline writes to the socket.
ExecOutput ==
    /\ spc = "exec" /\ made[sess] < MaxOut
    /\ \E b \in OutBytes :
         /\ Delivered(sess, [line |-> cur.line, byte |-> b])
         /\ clean' = [clean EXCEPT ![sess] = @ /\ b # "eot"]
    /\ made' = [made EXCEPT ![sess] = @ + 1]
    /\ UNCHANGED <<server, backlog, req, client, taken, answered, shown, ownRc>>

\* A child's write meets the reset; the child, not the server, gets the error.
ExecOutputFails ==
    /\ spc = "exec" /\ SendFails(sess)
    /\ UNCHANGED <<server, backlog, req, client, history>>

\* The first child's standard input is the socket too: it takes what is there.
ExecReadsInput ==
    /\ spc = "exec" /\ cur.kind = "reader" /\ req[sess] # <<>>
    /\ req' = [req EXCEPT ![sess] = <<>>]
    /\ UNCHANGED <<server, backlog, conn, resp, client, history>>

\* All children are waited for.  A reader ends when its input does.
ExecDone ==
    /\ spc = "exec"
    /\ cur.kind = "reader" => conn[sess] # "up" /\ req[sess] = <<>>
    /\ \E rc \in Codes : lastRc' = rc /\ ownRc' = [ownRc EXCEPT ![sess] = rc]
    /\ spc' = "eof"
    /\ UNCHANGED <<sess, cur, cwd, network, client, taken, answered, made, shown, clean>>

\* send_message_string, its first half: the warning or the answer to rc.
SendText ==
    /\ spc = "text"
    /\ Delivered(sess, [line |-> cur.line, byte |-> "text"])
    /\ made' = [made EXCEPT ![sess] = @ + 1]
    /\ spc' = "eof"
    /\ UNCHANGED <<sess, cur, lastRc, cwd, backlog, req, client, taken, answered, shown, ownRc, clean>>

\* send_message_eof, and where its caller goes on OK.
SendEof ==
    /\ spc = "eof"
    /\ Delivered(sess, [line |-> cur.line, byte |-> "eot"])
    /\ spc' = IF cur.kind \in ExitLines \cup StopLines THEN "close" ELSE "recv"
    /\ IF cur.kind = "cd"
       THEN lastRc' = 0 /\ ownRc' = [ownRc EXCEPT ![sess] = 0]
       ELSE UNCHANGED <<lastRc, ownRc>>
    /\ UNCHANGED <<sess, cur, cwd, backlog, req, client, taken, answered, made, shown, clean>>

\* exit and stop-server do not look at what send_message_eof returned.
SendLastEofFails ==
    /\ spc = "eof" /\ cur.kind \in ExitLines \cup StopLines
    /\ SendFails(sess)
    /\ spc' = "close"
    /\ UNCHANGED <<sess, cur, lastRc, cwd, backlog, req, client, history>>

\* Any other failed send is ERR_RDSH_COMMUNICATION: the server ends.
SendError ==
    /\ \/ spc = "text"
       \/ spc = "eof" /\ cur.kind \notin ExitLines \cup StopLines
    /\ conn[sess] = "crst"
    /\ ServerEnds
    /\ UNCHANGED <<client, history>>

\* SIGPIPE in the server process itself.
ServerKilledBySigPipe ==
    /\ spc \in {"text", "eof"} /\ SigPipe(sess)
    /\ ServerEnds
    /\ UNCHANGED <<client, history>>

Exit ==
    /\ spc = "close" /\ cur.kind \in ExitLines
    /\ SessionEnds
    /\ UNCHANGED <<client, history>>

StopServer ==
    /\ spc = "close" /\ cur.kind \in StopLines
    /\ ServerEnds
    /\ UNCHANGED <<client, history>>

----
(* A client. *)

\* The kernel completes the connection; the server accepts it when it can.
Connect(c) ==
    /\ cpc[c] = "start" /\ spc \notin {"boot", "down"} /\ Len(backlog) < Backlog
    /\ cpc' = [cpc EXCEPT ![c] = "prompt"]
    /\ conn' = [conn EXCEPT ![c] = "up"]
    /\ backlog' = Append(backlog, c)
    /\ UNCHANGED <<server, req, resp, typed, sent, history>>

ConnectRefused(c) ==
    /\ cpc[c] = "start" /\ spc \in {"boot", "down"}
    /\ cpc' = [cpc EXCEPT ![c] = "failed"]
    /\ UNCHANGED <<server, network, typed, sent, history>>

\* fgets and send.  A send into an end the server closed succeeds, into one it
\* reset does not.
TypeLine(c) ==
    /\ cpc[c] = "prompt" /\ sent[c] < MaxLines /\ conn[c] \in {"up", "sfin"}
    /\ \E kind \in Lines :
         /\ typed' = [typed EXCEPT ![c] = kind]
         /\ req' = IF conn[c] = "up"
                   THEN [req EXCEPT ![c] = Append(@, [line |-> sent[c] + 1, kind |-> kind])]
                   ELSE req
    /\ sent' = [sent EXCEPT ![c] = @ + 1]
    /\ cpc' = [cpc EXCEPT ![c] = "wait"]
    /\ made' = [made EXCEPT ![c] = 0] /\ shown' = [shown EXCEPT ![c] = 0]
    /\ UNCHANGED <<server, backlog, conn, resp, taken, answered, ownRc, clean>>

TypeLineFails(c) ==
    /\ cpc[c] = "prompt" /\ conn[c] = "srst"
    /\ cpc' = [cpc EXCEPT ![c] = "failed"]
    /\ ClientCloses(c)
    /\ UNCHANGED <<server, backlog, req, typed, sent, history>>

\* Mutant: one recv is taken for a whole response.
AnyChunkEnds(c, n) == n \in 1..Len(resp[c])

\* recv returns the first n units.  The response is over iff the LAST of them
\* is the marker; a marker anywhere else is displayed, as '?'.
EndsResponse(c, n) == resp[c][n].byte = "eot"

\* Mutant: the last byte of every chunk is cut, marker or not.
RecvChunkCut(c, n) ==
    /\ cpc[c] = "wait" /\ n <= Len(resp[c])
    /\ shown' = [shown EXCEPT ![c] = @ + n - 1]
    /\ resp' = [resp EXCEPT ![c] = SubSeq(@, n + 1, Len(@))]

RecvChunk(c, n) ==
    /\ cpc[c] = "wait" /\ n <= Len(resp[c])
    /\ shown' = [shown EXCEPT ![c] = @ + IF EndsResponse(c, n) THEN n - 1 ELSE n]
    /\ resp' = [resp EXCEPT ![c] = SubSeq(@, n + 1, Len(@))]

RecvMore(c) ==
    /\ \E n \in 1..Len(resp[c]) : RecvChunk(c, n) /\ ~EndsResponse(c, n)
    /\ UNCHANGED <<server, backlog, conn, req, client, taken, answered, made, ownRc, clean>>

RecvEnd(c) ==
    /\ typed[c] \notin {"exit", "stop-server"}
    /\ \E n \in 1..Len(resp[c]) : RecvChunk(c, n) /\ EndsResponse(c, n)
    /\ cpc' = [cpc EXCEPT ![c] = "prompt"]
    /\ answered' = [answered EXCEPT ![c] = @ + 1]
    /\ UNCHANGED <<server, backlog, conn, req, typed, sent, taken, made, ownRc, clean>>

\* The same after a line that is exactly "exit" or "stop-server": the client
\* closes its socket and ends.
RecvEndAndLeave(c) ==
    /\ typed[c] \in {"exit", "stop-server"} /\ cpc[c] = "wait"
    /\ \E n \in 1..Len(resp[c]) :
         /\ EndsResponse(c, n)
         /\ shown' = [shown EXCEPT ![c] = @ + n - 1]
         /\ conn' = [conn EXCEPT ![c] = IF @ # "up" THEN "gone"
                                        ELSE IF n = Len(resp[c]) THEN "cfin" ELSE "crst"]
    /\ resp' = [resp EXCEPT ![c] = <<>>]
    /\ cpc' = [cpc EXCEPT ![c] = "done"]
    /\ answered' = [answered EXCEPT ![c] = @ + 1]
    /\ UNCHANGED <<server, backlog, req, typed, sent, taken, made, ownRc, clean>>

\* recv returns 0 ("server appeared to terminate") or -1.
RecvNothing(c) ==
    /\ cpc[c] = "wait" /\ resp[c] = <<>> /\ conn[c] \in {"sfin", "srst"}
    /\ cpc' = [cpc EXCEPT ![c] = IF conn[c] = "sfin" THEN "done" ELSE "failed"]
    /\ ClientCloses(c)
    /\ UNCHANGED <<server, backlog, req, typed, sent, history>>

\* fgets returns NULL: the user ended the input.
EndOfInput(c) ==
    /\ cpc[c] = "prompt"
    /\ cpc' = [cpc EXCEPT ![c] = "done"]
    /\ ClientCloses(c)
    /\ UNCHANGED <<server, backlog, req, typed, sent, history>>

\* The client process is killed; its kernel closes the socket.
Kill(c) ==
    /\ c \in MayKill /\ cpc[c] \in {"prompt", "wait"}
    /\ cpc' = [cpc EXCEPT ![c] = "killed"]
    /\ ClientCloses(c)
    /\ UNCHANGED <<server, backlog, req, typed, sent, history>>

----
ServerStep ==
    \/ Boot \/ BootFails \/ Accept \/ AcceptFails
    \/ RecvLine \/ RecvClosed \/ RecvError
    \/ ExecOutput \/ ExecOutputFails \/ ExecReadsInput \/ ExecDone
    \/ SendText \/ SendEof \/ SendLastEofFails \/ SendError
    \/ ServerKilledBySigPipe \/ Exit \/ StopServer

ClientRecv(c) == RecvMore(c) \/ RecvEnd(c) \/ RecvEndAndLeave(c) \/ RecvNothing(c)

UserStep(c) == TypeLine(c) \/ TypeLineFails(c) \/ EndOfInput(c)

ClientStep(c) ==
    Connect(c) \/ ConnectRefused(c) \/ UserStep(c) \/ ClientRecv(c) \/ Kill(c)

Next == ServerStep \/ \E c \in Clients : ClientStep(c)

Spec == Init /\ [][Next]_vars

----
(* Properties. *)

\* The server has a session in hand exactly in the states of exec_client_requests.
InSession == spc \in {"recv", "exec", "text", "eof", "close"}

\* Every variable keeps its shape, and a session is open exactly while the
\* server is inside exec_client_requests.
TypeOK ==
    /\ spc \in ServerStates
    /\ sess \in IF InSession THEN Clients ELSE {Nobody}
    /\ cur \in Line
    /\ lastRc \in Int
    /\ cwd \in {"start", "elsewhere"}
    /\ backlog \in Seq(Clients)
    /\ conn \in [Clients -> ConnStates]
    /\ req \in [Clients -> Seq(Line)]
    /\ resp \in [Clients -> Seq(Unit)]
    /\ cpc \in [Clients -> ClientStates]
    /\ typed \in [Clients -> LineKinds]
    /\ sent \in [Clients -> Nat]
    /\ taken \in [Clients -> Nat] /\ answered \in [Clients -> Nat]
    /\ made \in [Clients -> Nat] /\ shown \in [Clients -> Nat]
    /\ ownRc \in [Clients -> Int] /\ clean \in [Clients -> BOOLEAN]

\* The server is working on a line of client c.
Handling(c) == sess = c /\ spc \in {"exec", "text", "eof"}

\* The connections the server's kernel still holds an open end of.
Attached == {"up", "cfin", "crst", "late", "dead"}

\* Strengthening, first layer: which end of a connection is open follows from
\* where its client is; the session's and the queued connections are open at
\* the server, and no client is queued twice or while it is being served.
ConnInv ==
    /\ \A c \in Clients :
         /\ cpc[c] = "start" => conn[c] = "none"
         /\ cpc[c] \in {"prompt", "wait"} <=> conn[c] \in {"up", "sfin", "srst"}
         /\ conn[c] \in Attached => c = sess \/ \E i \in 1..Len(backlog) : backlog[i] = c
    /\ InSession => conn[sess] \in Attached
    /\ \A i \in 1..Len(backlog) :
         /\ conn[backlog[i]] \in Attached /\ backlog[i] # sess
         /\ \A j \in 1..Len(backlog) : backlog[i] = backlog[j] => i = j
    /\ spc \in {"boot", "down"} => backlog = <<>>

\* Strengthening, second layer: where the one outstanding line of a client is.
\* It is in the socket, or in the server's hands, or answered up to the marker,
\* and the marker is the last unit of the stream.
IsText(c, i) == resp[c][i].byte = "text"
AllText(c)   == \A i \in 1..Len(resp[c]) : IsText(c, i)

Unsent(c) == req[c] = <<>> /\ resp[c] = <<>> /\ shown[c] = made[c]

LineInSocket(c) ==
    /\ conn[c] = "up" /\ Len(req[c]) = 1 /\ req[c][1].line = sent[c]
    /\ ~Handling(c) /\ resp[c] = <<>> /\ shown[c] = made[c]

LineInHand(c) ==
    /\ Handling(c) /\ cur.line = sent[c] /\ req[c] = <<>>
    /\ AllText(c) /\ shown[c] + Len(resp[c]) = made[c]

LineAnswered(c) ==
    /\ req[c] = <<>> /\ ~Handling(c) /\ resp[c] # <<>>
    /\ \A i \in 1..Len(resp[c]) : IsText(c, i) <=> i # Len(resp[c])
    /\ shown[c] + Len(resp[c]) = made[c] + 1

LineDropped(c) ==
    /\ conn[c] \in {"sfin", "srst"} /\ req[c] = <<>> /\ ~Handling(c)
    /\ AllText(c)

LockStep(c) ==
    /\ cpc[c] \in {"start", "prompt"} => Unsent(c) /\ ~Handling(c)
    /\ cpc[c] = "wait" => LineInSocket(c) \/ LineInHand(c) \/ LineAnswered(c) \/ LineDropped(c)
    /\ cpc[c] = "done" => req[c] = <<>> /\ ~Handling(c) /\ conn[c] \in {"cfin", "gone"}
    /\ cpc[c] = "failed" => req[c] = <<>> /\ ~Handling(c) /\ conn[c] \in {"none", "gone"}
    /\ \A i \in 1..Len(resp[c]) : resp[c][i].line = sent[c]
    /\ cpc[c] \notin {"prompt", "wait"} => resp[c] = <<>>

LockInv == \A c \in Clients : clean[c] => LockStep(c)

\* Strengthening, third layer: who has not been served yet has no exit code.
RcInv ==
    /\ InSession => lastRc = ownRc[sess]
    /\ \A c \in Clients : cpc[c] = "start" => ownRc[c] = 0
    /\ \A i \in 1..Len(backlog) : ownRc[backlog[i]] = 0

\* Strengthening, fourth layer: how many lines were typed, taken up and answered.
MarkerSent(c) == \E i \in 1..Len(resp[c]) : ~IsText(c, i)

Counted(c) ==
    /\ taken[c] + Len(req[c]) <= sent[c]
    /\ answered[c] <= taken[c]
    /\ Handling(c) \/ MarkerSent(c) => answered[c] < taken[c]
    /\ cpc[c] \in {"start", "prompt"} => answered[c] = sent[c]
    /\ cpc[c] = "wait" => answered[c] + 1 = sent[c]

CountInv == \A c \in Clients : clean[c] => Counted(c)

\* The protocol stays in lock step: a client at its prompt has no line under
\* way and no output still to come, so whatever it reads next belongs to the
\* line it types next (rsh_cli.c:64-113 against rsh_server.c:293-384).  Only a
\* program that writes the marker byte itself can break this, and only for the
\* client that ran it.
QuietAtPrompt ==
    \A c \in Clients : cpc[c] = "prompt" /\ clean[c] =>
        req[c] = <<>> /\ resp[c] = <<>> /\ ~Handling(c)

\* What a client displayed when it prompts again after an answered line is all
\* of that line's output and nothing else: no unit of it is lost to, or taken
\* for, another line's response.
ScreenIsTheOutput ==
    \A c \in Clients : clean[c] =>
        /\ cpc[c] = "prompt" => shown[c] = made[c]
        /\ \A i \in 1..Len(resp[c]) : resp[c][i].line = sent[c]

\* The number the built-in rc reports is what the same client's latest command
\* returned, 0 before its first: never an earlier session's.
RcIsOwn == InSession => lastRc = ownRc[sess]

\* The server ends only because a session asked it to stop, or because the
\* client it was serving had been killed or left with output unread after a
\* program wrote the marker byte: no other client's death or departure, queued
\* or served before, and no orderly end of a session, can end it.
EndsOnlyWithCause ==
    [][spc' = "down" => \/ spc \in {"boot", "accept"} /\ Faults # {}
                        \/ spc = "close" /\ cur.kind \in StopLines
                        \/ InSession /\ (cpc[sess] = "killed" \/ ~clean[sess])]_spc

\* rshlib.h:184-185, readme.md:265-266: recv returning 0 or less means that the
\* client disconnected and its session is over, not that the server is.
SurvivesDisconnect == [][spc = "recv" => spc' # "down"]_spc

\* The counters and queues of the sockets implement the abstract service.
Service == INSTANCE ShellService WITH
    up <- spc # "down", queue <- backlog, serving <- sess,
    asked <- sent, begun <- taken

ImplementsService == Service!Spec

\* Programs end, processes run, and a user at the prompt types or leaves.
FairSpec ==
    /\ Spec
    /\ WF_vars(ServerStep)
    /\ \A c \in Clients : WF_vars(ClientRecv(c)) /\ WF_vars(UserStep(c))

\* A line that was sent is answered, or the client learns that it will not be:
\* nobody waits for ever, neither in its session nor in the queue for one, but
\* while a command reads its standard input, the socket of a client that waits
\* for the end of that command (rsh_server.c:528, 576): both then wait for ever.
StuckReading == spc = "exec" /\ cur.kind = "reader" /\ conn[sess] = "up"

WaitEndsUnlessReading ==
    \A c \in Clients : cpc[c] = "wait" ~> cpc[c] # "wait" \/ StuckReading

====
