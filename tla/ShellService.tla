---- MODULE ShellService ----
(***************************************************************************)
(* What the remote shell promises, without sockets, chunks or markers:     *)
(* clients are served one at a time in the order they connected, a client  *)
(* has at most one line outstanding, every line is taken up at most once   *)
(* and in order, and a line counts as answered only after it was taken up. *)
(***************************************************************************)
EXTENDS Naturals, Sequences

CONSTANTS Clients, Nobody

VARIABLES
    up,        \* has the service not ended?
    queue,     \* clients waiting for their session
    serving,   \* whose session it is, or Nobody
    asked,     \* per client: lines asked
    begun,     \* per client: lines taken up by the service
    answered   \* per client: lines answered

lines == <<asked, begun, answered>>
vars  == <<up, queue, serving, lines>>

Init ==
    /\ up = TRUE /\ queue = <<>> /\ serving = Nobody
    /\ asked = [c \in Clients |-> 0]
    /\ begun = [c \in Clients |-> 0]
    /\ answered = [c \in Clients |-> 0]

Arrive(c) ==
    /\ up
    /\ queue' = Append(queue, c)
    /\ UNCHANGED <<up, serving, lines>>

Serve ==
    /\ up /\ serving = Nobody /\ queue # <<>>
    /\ serving' = Head(queue) /\ queue' = Tail(queue)
    /\ UNCHANGED <<up, lines>>

Release ==
    /\ serving # Nobody /\ serving' = Nobody
    /\ UNCHANGED <<up, queue, lines>>

End ==
    /\ up /\ up' = FALSE /\ serving' = Nobody /\ queue' = <<>>
    /\ UNCHANGED lines

\* The next line, once the previous one has been answered.
Ask(c) ==
    /\ asked[c] = answered[c]
    /\ asked' = [asked EXCEPT ![c] = @ + 1]
    /\ UNCHANGED <<up, queue, serving, begun, answered>>

Begin ==
    /\ serving # Nobody /\ begun[serving] < asked[serving]
    /\ begun' = [begun EXCEPT ![serving] = @ + 1]
    /\ UNCHANGED <<up, queue, serving, asked, answered>>

Answer(c) ==
    /\ answered[c] < begun[c]
    /\ answered' = [answered EXCEPT ![c] = @ + 1]
    /\ UNCHANGED <<up, queue, serving, asked, begun>>

Next ==
    \/ Serve \/ Release \/ End \/ Begin
    \/ \E c \in Clients : Arrive(c) \/ Ask(c) \/ Answer(c)

Spec == Init /\ [][Next]_vars
====
