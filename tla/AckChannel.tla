----------------------------- MODULE AckChannel -----------------------------
(***************************************************************************)
(* What a client may rely on when it talks to the backup server, without   *)
(* buffers, sockets and event loop: the messages of a connection are       *)
(* handled one at a time in the order they were sent, a message that asks  *)
(* for an answer gets exactly one, and the answers come back in that       *)
(* order.  A connection that ends takes the unhandled messages and a       *)
(* suffix of the undelivered answers with it.                              *)
(*                                                                         *)
(* Server implements this specification; Pipeline and Transfer rest on it. *)
(***************************************************************************)
EXTENDS Integers, Sequences

CONSTANTS
    Peers,  \* the clients
    Msgs    \* what they may send

VARIABLES
    log,      \* the messages each peer has sent
    todo,     \* the places in log of those that are not handled yet
    greeted,  \* a HELLO has been accepted on the open connection
    answers,  \* answers on their way, [msg |-> place in log, ok |-> BOOLEAN]
    got,      \* answers the peer has received
    open      \* the connection exists

vars == <<log, todo, greeted, answers, got, open>>

Init ==
    /\ log = [p \in Peers |-> <<>>]
    /\ todo = [p \in Peers |-> <<>>]
    /\ greeted = [p \in Peers |-> FALSE]
    /\ answers = [p \in Peers |-> <<>>]
    /\ got = [p \in Peers |-> <<>>]
    /\ open = [p \in Peers |-> TRUE]

PrefixesOf(s) == {SubSeq(s, 1, n) : n \in 0 .. Len(s)}

(* The verdicts the answer to message m may carry; none means no answer. *)
Verdicts(m, greet) ==
    CASE m.kind = "block" /\ greet     -> BOOLEAN
      [] m.kind = "badblock" /\ greet  -> {FALSE}
      [] m.kind = "hello" /\ ~greet    -> {TRUE}
      [] m.kind = "badhello" /\ ~greet -> {FALSE}
      [] m.kind = "bye"                -> {TRUE}
      [] OTHER                         -> {}

(* The messages after which the server gives up the connection. *)
Ends(m, greet) ==
    \/ m.kind \in {"bye", "oversize"}
    \/ ~greet /\ m.kind \in {"badhello", "block", "badblock"}

(* Connections S end, where p's answers were ans. *)
Leave(S, ans) ==
    /\ open' = [p \in Peers |-> open[p] /\ p \notin S]
    /\ \A p \in Peers \ S : answers'[p] = ans[p]
    /\ \A p \in S : answers'[p] \in PrefixesOf(ans[p])
    /\ DOMAIN answers' = Peers

Send(p) ==
    /\ open[p]
    /\ \E m \in Msgs : log' = [log EXCEPT ![p] = Append(@, m)]
    /\ todo' = [todo EXCEPT ![p] = Append(@, Len(log[p]) + 1)]
    /\ UNCHANGED <<greeted, answers, got, open>>

Handle(p, S) ==
    /\ open[p] /\ todo[p] # <<>>
    /\ LET k == Head(todo[p])
           m == log[p][k]
           V == Verdicts(m, greeted[p])
           ans == {[answers EXCEPT ![p] = Append(@, [msg |-> k, ok |-> v])] : v \in V}
       IN  /\ Ends(m, greeted[p]) => p \in S
           /\ \E a \in (IF V = {} THEN {answers} ELSE ans) : Leave(S, a)
           /\ greeted' = [q \in Peers |-> q \notin S /\
                             (greeted[q] \/ (q = p /\ m.kind = "hello"))]
    /\ todo' = [q \in Peers |-> IF q \in S THEN <<>>
                                ELSE IF q = p THEN Tail(todo[q]) ELSE todo[q]]
    /\ UNCHANGED <<log, got>>

Deliver(p) ==
    /\ answers[p] # <<>>
    /\ got' = [got EXCEPT ![p] = Append(@, Head(answers[p]))]
    /\ answers' = [answers EXCEPT ![p] = Tail(@)]
    /\ UNCHANGED <<log, todo, greeted, open>>

End(S) ==
    /\ \A p \in S : open[p]
    /\ Leave(S, answers)
    /\ todo' = [p \in Peers |-> IF p \in S THEN <<>> ELSE todo[p]]
    /\ greeted' = [p \in Peers |-> p \notin S /\ greeted[p]]
    /\ UNCHANGED <<log, got>>

Next ==
    \/ \E p \in Peers : Send(p) \/ Deliver(p)
    \/ \E p \in Peers, S \in SUBSET Peers : Handle(p, S)
    \/ \E S \in SUBSET Peers : End(S)

Spec == Init /\ [][Next]_vars
=============================================================================
