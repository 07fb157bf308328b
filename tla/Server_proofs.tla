---------------------------- MODULE Server_proofs ----------------------------
(***************************************************************************)
(* Proofs about Server, for any number of clients, blocks and messages and *)
(* for buffers of any size: the receive buffer never fills up, what was    *)
(* acknowledged is in the image, and the server implements AckChannel.     *)
(***************************************************************************)
EXTENDS Server, TLAPS

-----------------------------------------------------------------------------
(* The inductive invariant. *)

\* What one entry of conns_ may hold, whatever the peer has sent.
Conns ==
    [st : {"none", "open", "gone"}, hello : BOOLEAN, recv : Seq(Nat \X Nat),
     send : Answers, armed : BOOLEAN]

Resting == [at : {"wait", "exited", "crashed", "hung"}]
Busy == [at : {"read", "process", "out"}, p : Peers,
         onward : {"start", "read", "out"}, out : BOOLEAN]

\* The kinds of the variables.
Kinds ==
    /\ th \in Resting \cup Busy
    /\ running \in BOOLEAN /\ synced \in BOOLEAN /\ power \in BOOLEAN
    /\ conn \in [Peers -> Conns]
    /\ up \in [Peers -> Seq(Nat \X Nat)]
    /\ down \in [Peers -> Answers] /\ got \in [Peers -> Answers]
    /\ log \in [Peers -> Seq(Msgs)]
    /\ peer \in [Peers -> {"new", "open", "closed", "reset"}]
    /\ cache \in [Blocks -> {"old", "new", "torn"}]
    /\ disk \in [Blocks -> {"old", "new", "torn"}]
    /\ torn \subseteq Blocks

\* The connection in hand is open, and ProcessMessages knows where to return to.
HandInv ==
    Handling => /\ conn[th.p].st = "open"
                /\ th.at = "process" => th.onward \in {"read", "out"}

\* The receive buffer has room whenever ProcessMessages is not at work on it.
SpaceInv ==
    Alive => \A p \in Peers : \/ Len(conn[p].recv) < RecvCap
                              \/ th.at = "process" /\ th.p = p

\* The image is synced only at the end, and power fails only once.
SyncInv ==
    /\ synced => disk = cache /\ th.at = "exited"
    /\ ~power => ~Alive

\* Only an open connection has content, and it fits the receive buffer.
BufferInv(p) ==
    /\ conn[p].st # "open" => conn[p] \in {NoConn, Gone}
    /\ Len(conn[p].recv) <= RecvCap

\* The unit that follows unit u of the messages l.
Successor(l, u) ==
    IF u[2] < Units(l[u[1]]) THEN <<u[1], u[2] + 1>> ELSE <<u[1] + 1, 1>>

\* s is the units of the last messages of l, whole and in order.
InSequence(s, l) ==
    /\ \A i \in 1 .. Len(s) : /\ s[i][1] \in 1 .. Len(l)
                              /\ s[i][2] \in 1 .. Units(l[s[i][1]])
    /\ s # <<>> => /\ s[1][2] = 1
                   /\ s[Len(s)][1] = Len(l) /\ s[Len(s)][2] = Units(l[Len(l)])
    /\ \A i \in 1 .. Len(s) - 1 : s[i + 1] = Successor(l, s[i])

\* What a peer has sent and the server has not handled arrives whole and in
\* order; nothing is on its way to a connection that has ended.
StreamInv(p) ==
    /\ InSequence(Stream(p), log[p])
    /\ conn[p].st = "gone" => up[p] = <<>>

\* The answers that keep their promise.
Kept(p) ==
    {a \in [msg : 1 .. Len(log[p]), ok : BOOLEAN] :
        LET m == log[p][a.msg]
        IN  a.ok /\ m.kind = "block" /\ m.b \notin torn /\ (power \/ synced)
            => cache[m.b] = "new"}

\* Every answer in the send buffer, in the socket or at the peer is kept, and
\* the socket takes no more than it holds.
AnswerInv(p) ==
    /\ conn[p].send \in Seq(Kept(p))
    /\ down[p] \in Seq(Kept(p)) /\ Len(down[p]) <= SockCap
    /\ got[p] \in Seq(Kept(p))

PeerInv(p) == BufferInv(p) /\ StreamInv(p) /\ AnswerInv(p)

IInv ==
    /\ Kinds /\ HandInv /\ SpaceInv /\ SyncInv
    /\ \A p \in Peers : PeerInv(p)

-----------------------------------------------------------------------------
(* Facts about sequences. *)

\* A sequence over a set is one over any larger set.
LEMMA SeqMono ==
    ASSUME NEW S, NEW T, S \subseteq T, NEW s \in Seq(S)
    PROVE  s \in Seq(T)
    OBVIOUS

\* The two parts a sequence is cut into.
LEMMA Cut ==
    ASSUME NEW S, NEW s \in Seq(S), NEW n \in 0 .. Len(s)
    PROVE  /\ SubSeq(s, 1, n) \in Seq(S) /\ Len(SubSeq(s, 1, n)) = n
           /\ \A i \in 1 .. n : SubSeq(s, 1, n)[i] = s[i]
           /\ SubSeq(s, n + 1, Len(s)) \in Seq(S)
           /\ Len(SubSeq(s, n + 1, Len(s))) = Len(s) - n
           /\ \A i \in 1 .. Len(s) - n : SubSeq(s, n + 1, Len(s))[i] = s[n + i]
    OBVIOUS

\* Two sequences, one after the other.
LEMMA Joined ==
    ASSUME NEW S, NEW s \in Seq(S), NEW t \in Seq(S)
    PROVE  /\ s \o t \in Seq(S) /\ Len(s \o t) = Len(s) + Len(t)
           /\ \A i \in 1 .. Len(s) : (s \o t)[i] = s[i]
           /\ \A i \in 1 .. Len(t) : (s \o t)[Len(s) + i] = t[i]
           /\ \A i \in 1 .. Len(s) + Len(t) :
                 (s \o t)[i] = IF i <= Len(s) THEN s[i] ELSE t[i - Len(s)]
    OBVIOUS

\* Sequences of one length with the same elements are the same.
LEMMA SameSeq ==
    ASSUME NEW S, NEW s \in Seq(S), NEW t \in Seq(S), Len(s) = Len(t),
           \A i \in 1 .. Len(s) : s[i] = t[i]
    PROVE  s = t
    OBVIOUS

\* f and r are the two parts of t.
Parts(t, f, r) ==
    /\ Len(t) = Len(f) + Len(r)
    /\ \A i \in 1 .. Len(f) : f[i] = t[i]
    /\ \A i \in 1 .. Len(r) : r[i] = t[Len(f) + i]

\* Two sequences are the parts of what they join to.
LEMMA PartsOfJoined ==
    ASSUME NEW S, NEW s \in Seq(S), NEW t \in Seq(S), NEW u, u = s \o t
    PROVE  u \in Seq(S) /\ Parts(u, s, t)
<1>1. /\ u \in Seq(S) /\ Len(u) = Len(s) + Len(t)
      /\ \A i \in 1 .. Len(s) : u[i] = s[i]
      /\ \A i \in 1 .. Len(t) : u[Len(s) + i] = t[i]
    BY Joined
<1> QED
    BY <1>1, Zenon DEF Parts

\* A sequence in two parts after another one.
LEMMA JoinedParts ==
    ASSUME NEW S, NEW s \in Seq(S), NEW t \in Seq(S), NEW f \in Seq(S), NEW r \in Seq(S),
           Parts(t, f, r)
    PROVE  (s \o f) \o r = s \o t
<1> DEFINE n == Len(f)  a == s \o f  l == a \o r  u == s \o t
<1>1. /\ f \in Seq(S) /\ n \in Nat /\ Len(f) = n /\ \A i \in 1 .. n : f[i] = t[i]
      /\ r \in Seq(S) /\ Len(r) = Len(t) - n /\ \A i \in 1 .. Len(t) - n : r[i] = t[n + i]
    BY DEF Parts
<1>2. /\ a \in Seq(S) /\ Len(a) = Len(s) + Len(f)
      /\ \A i \in 1 .. Len(s) + Len(f) :
            a[i] = IF i <= Len(s) THEN s[i] ELSE f[i - Len(s)]
    OBVIOUS
<1>a. a \in Seq(S)
    OBVIOUS
<1> HIDE DEF a
<1>3. /\ l \in Seq(S) /\ Len(l) = Len(a) + Len(r)
      /\ \A i \in 1 .. Len(a) + Len(r) :
            l[i] = IF i <= Len(a) THEN a[i] ELSE r[i - Len(a)]
    BY <1>a
<1>4. /\ u \in Seq(S) /\ Len(u) = Len(s) + Len(t)
      /\ \A i \in 1 .. Len(s) + Len(t) :
            u[i] = IF i <= Len(s) THEN s[i] ELSE t[i - Len(s)]
    OBVIOUS
<1> HIDE DEF l, u
<1>5. Len(l) = Len(u)
    BY <1>1, <1>2, <1>3, <1>4
<1>6. ASSUME NEW i \in 1 .. Len(l) PROVE l[i] = u[i]
    <2>1. CASE i <= Len(s)
        <3>1. l[i] = a[i] /\ u[i] = s[i]
            BY <2>1, <1>1, <1>2, <1>3, <1>4, <1>5
        <3>2. i \in 1 .. Len(s) + Len(f)
            BY <2>1, <1>1
        <3> QED
            BY <2>1, <3>1, <3>2, <1>2
    <2>2. CASE Len(s) < i /\ i <= Len(s) + n
        <3>1. i - Len(s) \in 1 .. n
            BY <2>2, <1>1, <1>3
        <3>2. l[i] = a[i] /\ a[i] = f[i - Len(s)] /\ u[i] = t[i - Len(s)]
            BY <2>2, <1>1, <1>2, <1>3, <1>4, <1>5
        <3> QED
            BY <3>1, <3>2, <1>1
    <2>3. CASE Len(s) + n < i
        <3> DEFINE j == i - Len(a)
        <3>1. j \in 1 .. Len(t) - n /\ n + j = i - Len(s)
            BY <2>3, <1>1, <1>2, <1>3
        <3>2. l[i] = r[j] /\ u[i] = t[i - Len(s)]
            BY <2>3, <1>1, <1>2, <1>3, <1>4, <1>5
        <3> HIDE DEF j
        <3> QED
            BY <3>1, <3>2, <1>1
    <2> QED
        BY <2>1, <2>2, <2>3
<1>7. l = u
    BY <1>3, <1>4, <1>5, <1>6, SameSeq
<1> QED
    BY <1>7 DEF l, u, a

\* f and r join s one after the other, or together as t.
Regrouped(s, f, r, t) == (s \o f) \o r = s \o t

\* The same as a relation of the four sequences.
LEMMA JoinedAgain ==
    ASSUME NEW S, NEW s \in Seq(S), NEW f \in Seq(S), NEW r \in Seq(S), NEW t \in Seq(S),
           Parts(t, f, r)
    PROVE  Regrouped(s, f, r, t)
    BY JoinedParts, Zenon DEF Regrouped

\* What moves from the front of one sequence to the end of another stays where
\* it was in the two together.
LEMMA Moved ==
    ASSUME NEW S, NEW s \in Seq(S), NEW t \in Seq(S), NEW n \in 0 .. Len(t)
    PROVE  (s \o SubSeq(t, 1, n)) \o SubSeq(t, n + 1, Len(t)) = s \o t
<1> DEFINE f == SubSeq(t, 1, n)  r == SubSeq(t, n + 1, Len(t))
<1>1. /\ f \in Seq(S) /\ Len(f) = n /\ \A i \in 1 .. n : f[i] = t[i]
      /\ r \in Seq(S) /\ Len(r) = Len(t) - n /\ \A i \in 1 .. Len(t) - n : r[i] = t[n + i]
    BY Cut
<1> HIDE DEF f, r
<1>2. Parts(t, f, r)
    BY <1>1 DEF Parts
<1>3. f \in Seq(S) /\ r \in Seq(S)
    BY <1>1
<1>4. Regrouped(s, f, r, t)
    BY <1>2, <1>3, JoinedAgain, Zenon
<1> QED
    BY <1>4 DEF Regrouped, f, r

\* The smaller of two numbers.
LEMMA MinOfTwo ==
    ASSUME NEW x \in Int, NEW y \in Int
    PROVE  /\ Min({x, y}) \in {x, y}
           /\ Min({x, y}) <= x /\ Min({x, y}) <= y
    BY DEF Min

\* A message takes one to three units, and one of illegal size more than the
\* buffer holds.
LEMMA UnitsFacts ==
    ASSUME NEW m \in Msgs
    PROVE  /\ Units(m) \in Nat /\ Units(m) >= 1 /\ Units(m) <= RecvCap + 1
           /\ m.kind # "oversize" => Units(m) <= 3
           /\ m.kind = "junk" => Units(m) = 1
           /\ m.kind = "other" => Units(m) = 1
           /\ m.kind = "oversize" => Units(m) >= 2
<1>1. m.kind \in {"hello", "badhello", "block", "badblock", "oversize", "junk", "other", "bye"}
    BY DEF Msgs
<1>2. /\ m.kind \in {"hello", "badhello"} => Units(m) = 2
      /\ m.kind \in {"block", "badblock"} => Units(m) = 3
      /\ m.kind = "oversize" => Units(m) = RecvCap + 1
      /\ m.kind \in {"junk", "other", "bye"} => Units(m) = 1
    BY <1>1, Zenon DEF Units
<1> QED
    BY <1>1, <1>2, ServerAssumption

-----------------------------------------------------------------------------
(* The stream of units. *)

\* The units of message m, the n-th its peer sends.
UnitsSent(m, n) == [j \in 1 .. Units(m) |-> <<n, j>>]

\* The numbers of the messages of l whose units s consists of.
Numbers(s, l) ==
    IF s = <<>> THEN <<>>
    ELSE LET k == s[1][1]
         IN  [i \in 1 .. Len(l) - k + 1 |-> k + i - 1]

\* A function on an initial segment of the naturals is a sequence.
LEMMA FunctionIsSeq ==
    ASSUME NEW S, NEW n \in Nat, NEW f \in [1 .. n -> S]
    PROVE  f \in Seq(S) /\ Len(f) = n /\ DOMAIN f = 1 .. n
    OBVIOUS

\* What UnitsSent is.
LEMMA UnitsSentFacts ==
    ASSUME NEW m \in Msgs, NEW n \in Nat
    PROVE  /\ UnitsSent(m, n) \in Seq(Nat \X Nat)
           /\ Len(UnitsSent(m, n)) = Units(m)
           /\ \A j \in 1 .. Units(m) : UnitsSent(m, n)[j] = <<n, j>>
<1>1. Units(m) \in Nat
    BY UnitsFacts
<1>2. UnitsSent(m, n) \in [1 .. Units(m) -> Nat \X Nat]
    BY <1>1 DEF UnitsSent
<1>3. \A j \in 1 .. Units(m) : UnitsSent(m, n)[j] = <<n, j>>
    BY <1>1 DEF UnitsSent
<1> QED
    BY <1>1, <1>2, <1>3, FunctionIsSeq

\* One more message.
LEMMA Longer ==
    ASSUME NEW l \in Seq(Msgs), NEW m \in Msgs
    PROVE  /\ Append(l, m) \in Seq(Msgs) /\ Len(Append(l, m)) = Len(l) + 1
           /\ \A k \in 1 .. Len(l) : Append(l, m)[k] = l[k]
           /\ Append(l, m)[Len(l) + 1] = m
    OBVIOUS

\* The first unit of a stream belongs to a message.
LEMMA FirstUnit ==
    ASSUME NEW s \in Seq(Nat \X Nat), NEW l \in Seq(Msgs), InSequence(s, l), s # <<>>
    PROVE  /\ Len(s) >= 1 /\ s[1][1] \in 1 .. Len(l) /\ s[1][2] = 1
           /\ l[s[1][1]] \in Msgs
<1>1. Len(s) \in Nat /\ Len(s) >= 1
    OBVIOUS
<1>2. s[1][1] \in 1 .. Len(l) /\ s[1][2] = 1
    BY <1>1 DEF InSequence
<1> QED
    BY <1>1, <1>2

\* A message sent keeps the stream in sequence.
LEMMA SentInSequence ==
    ASSUME NEW s \in Seq(Nat \X Nat), NEW l \in Seq(Msgs), NEW m \in Msgs,
           InSequence(s, l)
    PROVE  InSequence(s \o UnitsSent(m, Len(l) + 1), Append(l, m))
<1> DEFINE L == Len(l)  n == Units(m)  u == UnitsSent(m, L + 1)
           t == s \o u  k == Append(l, m)
<1>L. L \in Nat /\ L + 1 \in Nat
    OBVIOUS
<1>n. n \in Nat /\ n >= 1
    BY UnitsFacts
<1>u. u \in Seq(Nat \X Nat) /\ Len(u) = n /\ \A j \in 1 .. n : u[j] = <<L + 1, j>>
    BY <1>L, UnitsSentFacts
<1>1. /\ L \in Nat /\ n \in Nat /\ n >= 1
      /\ u \in Seq(Nat \X Nat) /\ Len(u) = n /\ \A j \in 1 .. n : u[j] = <<L + 1, j>>
    BY <1>L, <1>n, <1>u
<1>v. u \in Seq(Nat \X Nat)
    BY <1>u
<1>2. /\ Len(k) = L + 1 /\ k[L + 1] = m /\ \A i \in 1 .. L : k[i] = l[i]
    BY Longer
<1> HIDE DEF u
<1>t. t \in Seq(Nat \X Nat)
    BY <1>1
<1>3. /\ Len(t) = Len(s) + Len(u)
      /\ \A i \in 1 .. Len(s) : t[i] = s[i]
      /\ \A i \in 1 .. Len(u) : t[Len(s) + i] = u[i]
    BY <1>v, Joined
<1>S. Len(s) \in Nat
    OBVIOUS
<1>4. \A i \in 1 .. Len(s) : /\ s[i][1] \in 1 .. L
                             /\ s[i][2] \in 1 .. Units(l[s[i][1]])
    BY DEF InSequence
<1>5. s # <<>> => /\ s[1][2] = 1 /\ s[Len(s)][1] = L /\ s[Len(s)][2] = Units(l[L])
    BY DEF InSequence
<1>6. \A i \in 1 .. Len(s) - 1 : s[i + 1] = Successor(l, s[i])
    BY DEF InSequence
<1> HIDE DEF t, k, n, L
<1>7. ASSUME NEW i \in 1 .. Len(s)
      PROVE  /\ t[i] = s[i] /\ t[i][1] \in 1 .. L /\ k[t[i][1]] = l[s[i][1]]
    BY <1>2, <1>3, <1>4, <1>S
<1>8. ASSUME NEW i \in 1 .. Len(t), i > Len(s)
      PROVE  t[i] = <<L + 1, i - Len(s)>> /\ i - Len(s) \in 1 .. n
    <2> DEFINE j == i - Len(s)
    <2>1. j \in 1 .. n /\ i = Len(s) + j
        BY <1>8, <1>3, <1>1, <1>S
    <2>2. t[Len(s) + j] = u[j] /\ u[j] = <<L + 1, j>>
        BY <2>1, <1>3, <1>1
    <2> QED
        BY <2>1, <2>2
<1>k. Units(k[L + 1]) = n
    BY <1>2 DEF n
<1>9. ASSUME NEW i \in 1 .. Len(t)
      PROVE  t[i][1] \in 1 .. Len(k) /\ t[i][2] \in 1 .. Units(k[t[i][1]])
    <2>1. CASE i <= Len(s)
        <3>1. i \in 1 .. Len(s)
            BY <2>1, <1>S
        <3>2. t[i] = s[i] /\ t[i][1] \in 1 .. L /\ k[t[i][1]] = l[s[i][1]]
            BY <3>1, <1>7
        <3>3. s[i][2] \in 1 .. Units(l[s[i][1]])
            BY <3>1, <1>4
        <3> QED
            BY <3>2, <3>3, <1>2, <1>1
    <2>2. CASE i > Len(s)
        <3>1. t[i] = <<L + 1, i - Len(s)>> /\ i - Len(s) \in 1 .. n
            BY <2>2, <1>8
        <3> QED
            BY <3>1, <1>1, <1>2, <1>k
    <2> QED
        BY <2>1, <2>2, <1>S
<1>10. t[1][2] = 1 /\ t[Len(t)][1] = Len(k) /\ t[Len(t)][2] = Units(k[Len(k)])
    <2>1. Len(t) \in 1 .. Len(t) /\ Len(t) > Len(s) /\ Len(t) - Len(s) = n
        BY <1>1, <1>3, <1>S
    <2>2. t[Len(t)] = <<L + 1, n>>
        BY <2>1, <1>8
    <2>3. t[1][2] = 1
        <3>1. CASE s = <<>>
            <4>1. Len(s) = 0
                BY <3>1
            <4>2. t[1] = <<L + 1, 1 - Len(s)>>
                BY <4>1, <2>1, <1>8
            <4> QED
                BY <4>1, <4>2
        <3>2. CASE s # <<>>
            <4>1. 1 \in 1 .. Len(s)
                BY <3>2
            <4> QED
                BY <4>1, <1>7, <1>5, <3>2
        <3> QED
            BY <3>1, <3>2
    <2> QED
        BY <2>2, <2>3, <1>2, <1>k
<1>11. ASSUME NEW i \in 1 .. Len(t) - 1
       PROVE  t[i + 1] = Successor(k, t[i])
    <2>1. i \in 1 .. Len(t) /\ i + 1 \in 1 .. Len(t)
        BY <1>1, <1>3, <1>S
    <2>2. CASE i < Len(s)
        <3>1. i \in 1 .. Len(s) /\ i + 1 \in 1 .. Len(s) /\ i \in 1 .. Len(s) - 1
            BY <2>2, <1>S
        <3>2. t[i] = s[i] /\ t[i + 1] = s[i + 1] /\ k[t[i][1]] = l[s[i][1]]
            BY <3>1, <1>7
        <3>3. s[i + 1] = Successor(l, s[i])
            BY <3>1, <1>6
        <3> QED
            BY <3>2, <3>3, Zenon DEF Successor
    <2>3. CASE i = Len(s)
        <3>1. i \in 1 .. Len(s) /\ s # <<>>
            BY <2>3, <1>S
        <3>2. t[i] = s[i] /\ k[t[i][1]] = l[s[i][1]]
            BY <3>1, <1>7
        <3>3. s[i][1] = L /\ s[i][2] = Units(l[L])
            BY <3>1, <2>3, <1>5
        <3>4. t[i + 1] = <<L + 1, (i + 1) - Len(s)>>
            BY <2>1, <2>3, <1>8, <1>S
        <3>5. t[i + 1] = <<L + 1, 1>>
            BY <3>4, <2>3, <1>S
        <3>6. ~(t[i][2] < Units(k[t[i][1]])) /\ t[i][1] = L
            <4>0. L \in 1 .. L
                BY <3>1, <3>3, <1>4
            <4>1. l[L] \in Msgs
                BY <4>0 DEF L
            <4>2. Units(l[L]) \in Nat
                BY <4>1, UnitsFacts
            <4> QED
                BY <3>2, <3>3, <4>2
        <3> QED
            BY <3>5, <3>6 DEF Successor
    <2>4. CASE i > Len(s)
        <3>1. /\ t[i] = <<L + 1, i - Len(s)>>
              /\ t[i + 1] = <<L + 1, (i + 1) - Len(s)>> /\ (i + 1) - Len(s) \in 1 .. n
            BY <2>1, <2>4, <1>8, <1>S
        <3>2. t[i][2] < Units(k[t[i][1]])
            BY <3>1, <1>k, <1>S, <1>1
        <3> QED
            BY <3>1, <3>2, <1>S DEF Successor
    <2> QED
        BY <2>2, <2>3, <2>4, <1>S
<1> QED
    BY <1>9, <1>10, <1>11 DEF InSequence, t, u, k, L

\* The units a handled message takes with it are all its own, and the stream
\* goes on with the next message.
LEMMA HandledInSequence ==
    ASSUME NEW s \in Seq(Nat \X Nat), NEW l \in Seq(Msgs), InSequence(s, l), s # <<>>,
           Units(l[s[1][1]]) <= 3, Units(l[s[1][1]]) <= Len(s)
    PROVE  LET t == SubSeq(s, Units(l[s[1][1]]) + 1, Len(s))
           IN  /\ t \in Seq(Nat \X Nat) /\ InSequence(t, l)
               /\ t = <<>> => s[1][1] = Len(l)
               /\ t # <<>> => t[1][1] = s[1][1] + 1
<1> DEFINE k == s[1][1]  n == Units(l[k])  t == SubSeq(s, n + 1, Len(s))
<1>1. Len(s) \in Nat /\ Len(s) >= 1 /\ k \in 1 .. Len(l) /\ s[1][2] = 1 /\ l[k] \in Msgs
    BY FirstUnit
<1>2. n \in Nat /\ n >= 1
    BY <1>1, UnitsFacts
<1>3. n <= 3 /\ n <= Len(s)
    OBVIOUS
<1>n. n \in 0 .. Len(s)
    BY <1>1, <1>2, <1>3
<1>4. /\ t \in Seq(Nat \X Nat) /\ Len(t) = Len(s) - n
      /\ \A i \in 1 .. Len(s) - n : t[i] = s[n + i]
    BY <1>n, Cut
<1>5. \A i \in 1 .. Len(s) : /\ s[i] \in Nat \X Nat
                             /\ s[i][1] \in 1 .. Len(l)
                             /\ s[i][2] \in 1 .. Units(l[s[i][1]])
    BY DEF InSequence
<1>6. s[Len(s)][1] = Len(l) /\ s[Len(s)][2] = Units(l[Len(l)])
    BY DEF InSequence
<1>7. \A i \in 1 .. Len(s) - 1 : s[i + 1] = Successor(l, s[i])
    BY DEF InSequence
<1> HIDE DEF k, n, t
<1>8. /\ s[1][1] = k /\ s[1][2] = 1
      /\ n >= 2 => s[2][1] = k /\ s[2][2] = 2
      /\ n >= 3 => s[3][1] = k /\ s[3][2] = 3
    <2>1. s[1][1] = k /\ s[1][2] = 1
        BY <1>1 DEF k
    <2>2. ASSUME n >= 2 PROVE s[2][1] = k /\ s[2][2] = 2
        <3>1. s[1 + 1] = Successor(l, s[1])
            BY <2>2, <1>7, <1>1, <1>2, <1>3
        <3>2. Successor(l, s[1]) = <<k, 1 + 1>>
            BY <2>1, <2>2, <1>2 DEF Successor, n
        <3> QED
            BY <3>1, <3>2
    <2>3. ASSUME n >= 3 PROVE s[3][1] = k /\ s[3][2] = 3
        <3>0. n >= 2
            BY <2>3, <1>2
        <3>1. s[2 + 1] = Successor(l, s[2])
            BY <2>3, <1>7, <1>1, <1>2, <1>3
        <3>2. Successor(l, s[2]) = <<k, 2 + 1>>
            BY <2>2, <3>0, <2>3, <1>2 DEF Successor, n
        <3> QED
            BY <3>1, <3>2
    <2> QED
        BY <2>1, <2>2, <2>3
<1>9. s[n][1] = k /\ s[n][2] = n
    <2>1. n = 1 \/ n = 2 \/ n = 3
        BY <1>2, <1>3
    <2> QED
        BY <2>1, <1>8
<1>10. ASSUME Len(s) > n PROVE s[n + 1] = <<k + 1, 1>>
    <2>1. s[n + 1] = Successor(l, s[n])
        BY <1>10, <1>7, <1>1, <1>2
    <2>2. Successor(l, s[n]) = <<k + 1, 1>>
        BY <1>9, <1>2 DEF Successor, n
    <2> QED
        BY <2>1, <2>2
<1>11. t = <<>> => k = Len(l)
    <2> SUFFICES ASSUME t = <<>> PROVE k = Len(l)
        OBVIOUS
    <2>1. Len(s) = n
        <3>1. Len(t) = 0
            OBVIOUS
        <3> QED
            BY <3>1, <1>4, <1>1, <1>2
    <2> QED
        BY <2>1, <1>6, <1>9
<1>12. ASSUME t # <<>>
       PROVE  /\ Len(s) > n /\ t[1] = s[n + 1]
              /\ t[Len(t)] = s[Len(s)]
    <2>1. Len(t) > 0 /\ Len(t) \in Nat
        BY <1>12, <1>4
    <2>2. Len(s) > n
        BY <2>1, <1>4, <1>1, <1>2
    <2>3. 1 \in 1 .. Len(s) - n /\ Len(t) \in 1 .. Len(s) - n /\ n + Len(t) = Len(s)
        BY <2>1, <2>2, <1>4, <1>1, <1>2
    <2> QED
        BY <2>2, <2>3, <1>4
<1>13. t # <<>> => /\ t[1][1] = k + 1 /\ t[1][2] = 1
                   /\ t[Len(t)][1] = Len(l) /\ t[Len(t)][2] = Units(l[Len(l)])
    BY <1>12, <1>10, <1>6
<1>14. ASSUME NEW i \in 1 .. Len(t)
       PROVE  t[i][1] \in 1 .. Len(l) /\ t[i][2] \in 1 .. Units(l[t[i][1]])
    <2>1. i \in 1 .. Len(s) - n /\ n + i \in 1 .. Len(s)
        BY <1>4, <1>1, <1>2
    <2>2. t[i] = s[n + i]
        BY <2>1, <1>4
    <2> QED
        BY <2>1, <2>2, <1>5
<1>15. ASSUME NEW i \in 1 .. Len(t) - 1
       PROVE  t[i + 1] = Successor(l, t[i])
    <2>1. /\ i \in 1 .. Len(s) - n /\ i + 1 \in 1 .. Len(s) - n
          /\ n + i \in 1 .. Len(s) - 1 /\ n + (i + 1) = (n + i) + 1
        BY <1>4, <1>1, <1>2
    <2>2. t[i] = s[n + i] /\ t[i + 1] = s[n + (i + 1)]
        BY <2>1, <1>4
    <2>3. s[(n + i) + 1] = Successor(l, s[n + i])
        BY <2>1, <1>7
    <2> QED
        BY <2>1, <2>2, <2>3, Zenon
<1>16. InSequence(t, l)
    BY <1>13, <1>14, <1>15 DEF InSequence
<1> QED
    BY <1>4, <1>11, <1>13, <1>16 DEF t, n, k

\* The numbers of a stream: an interval up to the last message.
LEMMA NumbersFacts ==
    ASSUME NEW s \in Seq(Nat \X Nat), NEW l \in Seq(Msgs), InSequence(s, l), s # <<>>
    PROVE  /\ Numbers(s, l) \in Seq(Nat)
           /\ Len(Numbers(s, l)) = Len(l) - s[1][1] + 1
           /\ Len(l) - s[1][1] + 1 \in Nat \ {0}
           /\ \A i \in 1 .. Len(l) - s[1][1] + 1 : Numbers(s, l)[i] = s[1][1] + i - 1
<1> DEFINE k == s[1][1]  n == Len(l) - k + 1  f == [i \in 1 .. n |-> k + i - 1]
<1>1. k \in 1 .. Len(l)
    BY FirstUnit
<1>2. n \in Nat /\ n \in Nat \ {0}
    BY <1>1
<1>3. Numbers(s, l) = f
    BY DEF Numbers
<1>4. ASSUME NEW i \in 1 .. n PROVE k + i - 1 \in Nat
    BY <1>1, <1>2
<1>5. f \in [1 .. n -> Nat]
    BY <1>4
<1>6. f \in Seq(Nat) /\ Len(f) = n
    BY <1>2, <1>5, FunctionIsSeq
<1>7. \A i \in 1 .. n : f[i] = k + i - 1
    OBVIOUS
<1> HIDE DEF f
<1> QED
    BY <1>2, <1>3, <1>6, <1>7

\* A message sent is one more message to handle.
LEMMA NumbersSent ==
    ASSUME NEW s \in Seq(Nat \X Nat), NEW l \in Seq(Msgs), NEW m \in Msgs,
           InSequence(s, l)
    PROVE  Numbers(s \o UnitsSent(m, Len(l) + 1), Append(l, m))
               = Append(Numbers(s, l), Len(l) + 1)
<1> DEFINE L == Len(l)  u == UnitsSent(m, L + 1)  t == s \o u  k == Append(l, m)
           x == Numbers(s, l)  y == Numbers(t, k)
<1>L. L \in Nat /\ L + 1 \in Nat
    OBVIOUS
<1>n. Units(m) \in Nat /\ Units(m) >= 1
    BY UnitsFacts
<1>v. u \in Seq(Nat \X Nat) /\ Len(u) = Units(m)
    BY <1>L, UnitsSentFacts
<1>w. \A j \in 1 .. Units(m) : u[j] = <<L + 1, j>>
    BY <1>L, UnitsSentFacts
<1>u. u \in Seq(Nat \X Nat) /\ Len(u) = Units(m) /\ u[1] = <<L + 1, 1>>
    BY <1>n, <1>v, <1>w
<1>1. InSequence(t, k)
    BY SentInSequence
<1>2. k \in Seq(Msgs) /\ Len(k) = L + 1
    BY Longer
<1> HIDE DEF u, k
<1>3. /\ t \in Seq(Nat \X Nat) /\ Len(t) = Len(s) + Len(u)
      /\ Len(s) > 0 => t[1] = s[1]
      /\ Len(s) = 0 => t[1] = u[1]
    <2>1. u \in Seq(Nat \X Nat) /\ Len(u) >= 1
        BY <1>n, <1>u
    <2> QED
        BY <2>1
<1>4. Len(s) \in Nat /\ (Len(s) = 0 <=> s = <<>>)
    OBVIOUS
<1>5. Len(t) \in Nat /\ Len(t) > 0 /\ t # <<>>
    BY <1>3, <1>4, <1>u, <1>n
<1> HIDE DEF t
<1>6. /\ y \in Seq(Nat) /\ Len(y) = Len(k) - t[1][1] + 1
      /\ \A i \in 1 .. Len(k) - t[1][1] + 1 : y[i] = t[1][1] + i - 1
    <2>1. t \in Seq(Nat \X Nat) /\ k \in Seq(Msgs) /\ InSequence(t, k) /\ t # <<>>
        BY <1>1, <1>2, <1>3, <1>5
    <2> QED
        BY <2>1, NumbersFacts
<1>7. CASE s = <<>>
    <2>1. x = <<>>
        BY <1>7 DEF Numbers
    <2>2. t[1][1] = L + 1
        BY <1>7, <1>3, <1>4, <1>u
    <2>3. Len(y) = 1 /\ y[1] = L + 1
        BY <2>2, <1>2, <1>6, <1>L
    <2> HIDE DEF x, y
    <2>4. y = Append(x, L + 1)
        BY <2>1, <2>3, <1>2, <1>6, <1>L
    <2> QED
        BY <2>4 DEF x, y, t, u, k
<1>8. CASE s # <<>>
    <2> DEFINE a == s[1][1]
    <2>1. t[1][1] = a
        BY <1>8, <1>3, <1>4
    <2>2. a \in 1 .. L
        BY <1>8, FirstUnit
    <2>3. /\ x \in Seq(Nat) /\ Len(x) = L - a + 1
          /\ \A i \in 1 .. L - a + 1 : x[i] = a + i - 1
        BY <1>8, NumbersFacts
    <2> HIDE DEF x, y, a
    <2> DEFINE z == Append(x, L + 1)
    <2>x. x \in Seq(Nat)
        BY <2>3
    <2>4. /\ z \in Seq(Nat) /\ Len(z) = Len(x) + 1
          /\ \A i \in 1 .. Len(x) : z[i] = x[i]
          /\ z[Len(x) + 1] = L + 1
        BY <2>x, <1>L
    <2> HIDE DEF z
    <2>5. Len(z) = Len(y)
        BY <2>1, <2>2, <2>3, <2>4, <1>2, <1>6, <1>L
    <2>l. Len(x) = L - a + 1 /\ Len(y) = L - a + 1 + 1
        BY <2>1, <2>2, <2>3, <2>4, <2>5, <1>L
    <2>6. ASSUME NEW i \in 1 .. Len(y) PROVE y[i] = z[i]
        <3>1. y[i] = a + i - 1
            BY <2>1, <1>2, <1>6
        <3>2. CASE i <= L - a + 1
            <4>1. i \in 1 .. L - a + 1 /\ i \in 1 .. Len(x)
                BY <3>2, <2>2, <2>3, <2>5, <2>4, <1>L
            <4> QED
                BY <4>1, <3>1, <2>3, <2>4
        <3>3. CASE i > L - a + 1
            <4>0. i \in Int /\ i <= L - a + 1 + 1 /\ L - a + 1 \in Int
                BY <2>2, <2>l, <1>L
            <4>3. i = L - a + 1 + 1
                BY <3>3, <4>0
            <4>1. i = L - a + 1 + 1 /\ i = Len(x) + 1
                BY <4>3, <2>l
            <4>2. a + i - 1 = L + 1
                BY <4>1, <2>2, <1>L
            <4> QED
                BY <4>1, <4>2, <3>1, <2>4
        <3> QED
            BY <3>2, <3>3, <2>2, <1>L
    <2>7. y = z
        BY <2>4, <2>5, <2>6, <1>2, <1>6, SameSeq
    <2> QED
        BY <2>7 DEF x, y, z, t, u, k
<1> QED
    BY <1>7, <1>8

\* A message handled is one message less.
LEMMA NumbersHandled ==
    ASSUME NEW s \in Seq(Nat \X Nat), NEW l \in Seq(Msgs), InSequence(s, l), s # <<>>,
           NEW t \in Seq(Nat \X Nat), InSequence(t, l),
           t = <<>> => s[1][1] = Len(l),
           t # <<>> => t[1][1] = s[1][1] + 1
    PROVE  /\ Numbers(s, l) # <<>> /\ Head(Numbers(s, l)) = s[1][1]
           /\ Numbers(t, l) = Tail(Numbers(s, l))
<1> DEFINE L == Len(l)  a == s[1][1]  x == Numbers(s, l)  y == Numbers(t, l)
<1>1. /\ x \in Seq(Nat) /\ Len(x) = L - a + 1 /\ L - a + 1 \in Nat \ {0}
      /\ \A i \in 1 .. L - a + 1 : x[i] = a + i - 1
    BY NumbersFacts
<1>2. a \in 1 .. L /\ L \in Nat
    BY FirstUnit
<1>3. t = <<>> => a = L /\ y = <<>>
    BY DEF Numbers
<1>4. t # <<>> => /\ y \in Seq(Nat) /\ Len(y) = L - (a + 1) + 1
                  /\ \A i \in 1 .. L - (a + 1) + 1 : y[i] = (a + 1) + i - 1
    BY NumbersFacts
<1> HIDE DEF x, y, a, L
<1>x. x \in Seq(Nat) /\ x # <<>> /\ Len(x) \in Nat \ {0}
    BY <1>1
<1>5. x # <<>> /\ Head(x) = a
    <2>1. Head(x) = x[1]
        BY <1>x
    <2>0. 1 \in 1 .. L - a + 1 /\ a + 1 - 1 = a
        BY <1>1, <1>2
    <2>2. x[1] = a
        BY <1>1, <2>0
    <2> QED
        BY <2>1, <2>2, <1>x
<1> DEFINE z == Tail(x)
<1>6. /\ z \in Seq(Nat) /\ Len(z) = Len(x) - 1
      /\ \A i \in 1 .. Len(x) - 1 : z[i] = x[i + 1]
    BY <1>x
<1> HIDE DEF z
<1>7. CASE t = <<>>
    <2>1. Len(x) = 1
        BY <1>7, <1>3, <1>1, <1>2
    <2>2. z = <<>>
        <3>1. Len(z) = 0 /\ z \in Seq(Nat)
            BY <2>1, <1>6
        <3> QED
            BY <3>1
    <2> QED
        BY <2>2, <1>7, <1>3, <1>5 DEF x, y, z, a
<1>8. CASE t # <<>>
    <2>0. Len(y) = L - (a + 1) + 1 /\ Len(z) = Len(x) - 1 /\ Len(x) = L - a + 1
        BY <1>8, <1>1, <1>4, <1>6
    <2>1. Len(y) = Len(z)
        BY <2>0, <1>2
    <2>2. ASSUME NEW i \in 1 .. Len(y) PROVE y[i] = z[i]
        <3>1. i \in 1 .. L - (a + 1) + 1 /\ i \in 1 .. Len(x) - 1 /\ i + 1 \in 1 .. L - a + 1
            BY <1>8, <1>1, <1>2, <1>4
        <3>2. y[i] = (a + 1) + i - 1
            BY <1>8, <3>1, <1>4
        <3>3. z[i] = x[i + 1] /\ x[i + 1] = a + (i + 1) - 1
            BY <3>1, <1>1, <1>6
        <3> QED
            BY <3>2, <3>3, <1>2
    <2>3. y = z
        BY <2>1, <2>2, <1>8, <1>4, <1>6, SameSeq
    <2> QED
        BY <2>3, <1>5 DEF x, y, z, a
<1> QED
    BY <1>7, <1>8

-----------------------------------------------------------------------------
(* What the operators of the server do. *)

\* The fields of the three fixed connections.
LEMMA FixedConns ==
    /\ NoConn \in Conns /\ Gone \in Conns /\ Opened \in Conns
    /\ NoConn.st = "none" /\ Gone.st = "gone" /\ Opened.st = "open"
    /\ \A c \in {NoConn, Gone, Opened} : c.recv = <<>> /\ c.send = <<>> /\ c.hello = FALSE
<1>1. <<>> \in Seq(Nat \X Nat) /\ <<>> \in Answers
    BY DEF Answers
<1>2. /\ NoConn \in Conns /\ NoConn.st = "none"
      /\ NoConn.recv = <<>> /\ NoConn.send = <<>> /\ NoConn.hello = FALSE
    BY <1>1 DEF NoConn, Conns
<1>3. ASSUME NEW c \in Conns, NEW x \in {"none", "open", "gone"}
      PROVE  LET d == [c EXCEPT !.st = x]
             IN  /\ d \in Conns /\ d.st = x
                 /\ d.recv = c.recv /\ d.send = c.send /\ d.hello = c.hello
    BY DEF Conns
<1>4. /\ Gone \in Conns /\ Gone.st = "gone"
      /\ Gone.recv = <<>> /\ Gone.send = <<>> /\ Gone.hello = FALSE
    BY <1>2, <1>3 DEF Gone
<1>5. /\ Opened \in Conns /\ Opened.st = "open"
      /\ Opened.recv = <<>> /\ Opened.send = <<>> /\ Opened.hello = FALSE
    BY <1>2, <1>3 DEF Opened
<1> QED
    BY <1>2, <1>4, <1>5

\* Without a step of the handlers or of the machine a promise stays kept.
LEMMA KeptSame ==
    ASSUME UNCHANGED <<log, cache, torn, power, synced>>, NEW p \in Peers
    PROVE  Kept(p)' = Kept(p)
    BY DEF Kept

\* A kept answer is an answer.
LEMMA KeptAreAnswers ==
    ASSUME Kinds, NEW p \in Peers
    PROVE  Kept(p) \subseteq [msg : Nat, ok : BOOLEAN]
    BY DEF Kept, Kinds

\* A sequence of kept answers is one of answers.
LEMMA KeptSeqs ==
    ASSUME Kinds, NEW p \in Peers, NEW s \in Seq(Kept(p))
    PROVE  s \in Answers
<1>1. Kept(p) \subseteq [msg : Nat, ok : BOOLEAN]
    BY KeptAreAnswers
<1> DEFINE A == [msg : Nat, ok : BOOLEAN]
<1>2. Kept(p) \subseteq A /\ Answers = Seq(A)
    BY <1>1 DEF Answers
<1> HIDE DEF A
<1> QED
    BY <1>2, SeqMono

\* A connection nothing happens to.
LEMMA QuietPeer ==
    ASSUME NEW p \in Peers, PeerInv(p), Kept(p) \subseteq Kept(p)',
           conn'[p] = conn[p], up'[p] = up[p], down'[p] = down[p], got'[p] = got[p],
           log'[p] = log[p]
    PROVE  PeerInv(p)'
<1>1. BufferInv(p)'
    BY DEF PeerInv, BufferInv, NoConn, Gone
<1>2. StreamInv(p)'
    BY Zenon DEF PeerInv, StreamInv, Stream, InSequence, Successor, Units
<1>3. AnswerInv(p)'
    <2>1. /\ conn[p].send \in Seq(Kept(p)) /\ down[p] \in Seq(Kept(p))
          /\ Len(down[p]) <= SockCap /\ got[p] \in Seq(Kept(p))
        BY DEF PeerInv, AnswerInv
    <2> QED
        BY <2>1, SeqMono DEF AnswerInv
<1> QED
    BY <1>1, <1>2, <1>3 DEF PeerInv

\* A connection that ends.
LEMMA GonePeer ==
    ASSUME NEW p \in Peers, PeerInv(p), Kept(p) \subseteq Kept(p)',
           conn'[p] = Gone, up'[p] = <<>>, got'[p] = got[p],
           down'[p] \in Seq(Kept(p)'), Len(down'[p]) <= SockCap
    PROVE  PeerInv(p)'
<1>1. BufferInv(p)'
    BY FixedConns, ServerAssumption DEF BufferInv, Gone
<1>2. StreamInv(p)'
    <2>1. Stream(p)' = <<>>
        BY FixedConns DEF Stream
    <2> QED
        BY <2>1 DEF StreamInv, InSequence
<1>3. AnswerInv(p)'
    <2>1. got[p] \in Seq(Kept(p))
        BY DEF PeerInv, AnswerInv
    <2>2. got'[p] \in Seq(Kept(p)')
        BY <2>1, SeqMono
    <2>3. conn'[p].send \in Seq(Kept(p)')
        <3>1. conn'[p].send = <<>>
            BY FixedConns
        <3>2. <<>> \in Seq(Kept(p)')
            OBVIOUS
        <3> QED
            BY <3>1, <3>2
    <2> QED
        BY <2>2, <2>3 DEF AnswerInv
<1> QED
    BY <1>1, <1>2, <1>3 DEF PeerInv

\* CloseConn ends the connections of S and may lose answers to their peers.
LEMMA CloseEffect ==
    ASSUME Kinds, NEW S \in SUBSET Peers, NEW d \in [Peers -> Answers],
           CloseConn(S, conn, d)
    PROVE  /\ conn' \in [Peers -> Conns] /\ up' \in [Peers -> Seq(Nat \X Nat)]
           /\ down' \in [Peers -> Answers]
           /\ \A p \in S : conn'[p] = Gone /\ up'[p] = <<>> /\ down'[p] \in {<<>>, d[p]}
           /\ \A p \in Peers \ S : /\ conn'[p] = conn[p] /\ up'[p] = up[p]
                                   /\ down'[p] = d[p]
<1>1. /\ conn' = [p \in Peers |-> IF p \in S THEN Gone ELSE conn[p]]
      /\ up' = [p \in Peers |-> IF p \in S THEN <<>> ELSE up[p]]
    BY DEF CloseConn
<1>2. PICK L \in SUBSET S : down' = [p \in Peers |-> IF p \in L THEN <<>> ELSE d[p]]
    BY DEF CloseConn, Dropped
<1>3. <<>> \in Answers /\ <<>> \in Seq(Nat \X Nat)
    BY DEF Answers
<1>4. conn \in [Peers -> Conns] /\ up \in [Peers -> Seq(Nat \X Nat)]
    BY DEF Kinds
<1>5. Gone \in Conns
    BY FixedConns
<1>6. conn' \in [Peers -> Conns] /\ up' \in [Peers -> Seq(Nat \X Nat)]
    BY <1>1, <1>3, <1>4, <1>5
<1>7. down' \in [Peers -> Answers]
    BY <1>2, <1>3
<1>8. \A p \in S : conn'[p] = Gone /\ up'[p] = <<>> /\ down'[p] \in {<<>>, d[p]}
    BY <1>1, <1>2
<1>9. \A p \in Peers \ S : conn'[p] = conn[p] /\ up'[p] = up[p] /\ down'[p] = d[p]
    BY <1>1, <1>2
<1> QED
    BY <1>6, <1>7, <1>8, <1>9

\* CloseConn keeps the invariant of every peer.
LEMMA CloseKeeps ==
    ASSUME Kinds, \A p \in Peers : PeerInv(p), UNCHANGED <<log, got>>,
           NEW S \in SUBSET Peers, NEW d \in [Peers -> Answers], CloseConn(S, conn, d),
           \A p \in Peers : /\ Kept(p) \subseteq Kept(p)'
                            /\ d[p] \in Seq(Kept(p)') /\ Len(d[p]) <= SockCap
                            /\ p \notin S => d[p] = down[p]
    PROVE  \A p \in Peers : PeerInv(p)'
<1> SUFFICES ASSUME NEW p \in Peers PROVE PeerInv(p)'
    OBVIOUS
<1>1. /\ p \in S => conn'[p] = Gone /\ up'[p] = <<>> /\ down'[p] \in {<<>>, d[p]}
      /\ p \notin S => conn'[p] = conn[p] /\ up'[p] = up[p] /\ down'[p] = d[p]
    BY CloseEffect
<1>2. CASE p \in S
    <2>1. down'[p] \in Seq(Kept(p)') /\ Len(down'[p]) <= SockCap
        <3>1. <<>> \in Seq(Kept(p)') /\ Len(<<>>) <= SockCap
            BY ServerAssumption
        <3>2. d[p] \in Seq(Kept(p)') /\ Len(d[p]) <= SockCap
            OBVIOUS
        <3> QED
            BY <1>1, <1>2, <3>1, <3>2, Zenon
    <2>2. conn'[p] = Gone /\ up'[p] = <<>> /\ got'[p] = got[p]
        BY <1>1, <1>2
    <2> QED
        BY <2>1, <2>2, GonePeer
<1>3. CASE p \notin S
    <2>1. /\ conn'[p] = conn[p] /\ up'[p] = up[p] /\ down'[p] = down[p]
          /\ got'[p] = got[p] /\ log'[p] = log[p]
        BY <1>1, <1>3
    <2> QED
        BY <2>1, QuietPeer
<1> QED
    BY <1>2, <1>3

\* What is taken from the front of the first of two sequences is taken from
\* the front of both together.
LEMMA CutJoined ==
    ASSUME NEW S, NEW s \in Seq(S), NEW t \in Seq(S), NEW n \in 0 .. Len(s)
    PROVE  SubSeq(s, n + 1, Len(s)) \o t = SubSeq(s \o t, n + 1, Len(s \o t))
<1> DEFINE r == SubSeq(s, n + 1, Len(s))  j == s \o t  x == r \o t
           y == SubSeq(j, n + 1, Len(j))
<1>1. /\ r \in Seq(S) /\ Len(r) = Len(s) - n
      /\ \A i \in 1 .. Len(s) - n : r[i] = s[n + i]
    BY Cut
<1>r. r \in Seq(S)
    BY <1>1
<1>2. /\ j \in Seq(S) /\ Len(j) = Len(s) + Len(t)
      /\ \A i \in 1 .. Len(s) : j[i] = s[i]
      /\ \A i \in 1 .. Len(t) : j[Len(s) + i] = t[i]
    BY Joined
<1>l. Len(s) \in Nat /\ Len(t) \in Nat
    OBVIOUS
<1>j. j \in Seq(S) /\ n \in 0 .. Len(j)
    BY <1>2, <1>l
<1> HIDE DEF r, j
<1>3. /\ x \in Seq(S) /\ Len(x) = Len(r) + Len(t)
      /\ \A i \in 1 .. Len(r) : x[i] = r[i]
      /\ \A i \in 1 .. Len(t) : x[Len(r) + i] = t[i]
    BY <1>r, Joined
<1>4. /\ y \in Seq(S) /\ Len(y) = Len(j) - n
      /\ \A i \in 1 .. Len(j) - n : y[i] = j[n + i]
    BY <1>j, Cut
<1> HIDE DEF x, y
<1>5. Len(x) = Len(y) /\ Len(x) = Len(s) + Len(t) - n
    BY <1>1, <1>2, <1>3, <1>4, <1>l
<1>6. ASSUME NEW i \in 1 .. Len(x) PROVE x[i] = y[i]
    <2>0. i \in 1 .. Len(j) - n
        BY <1>5, <1>4
    <2>1. CASE i <= Len(s) - n
        <3>1. i \in 1 .. Len(s) - n /\ i \in 1 .. Len(r) /\ n + i \in 1 .. Len(s)
            BY <2>1, <1>1, <1>l
        <3> QED
            BY <3>1, <2>0, <1>1, <1>2, <1>3, <1>4
    <2>2. CASE i > Len(s) - n
        <3> DEFINE k == i - (Len(s) - n)
        <3>1. k \in 1 .. Len(t) /\ i = Len(r) + k /\ n + i = Len(s) + k
            BY <2>2, <1>1, <1>5, <1>l
        <3>2. x[Len(r) + k] = t[k] /\ j[Len(s) + k] = t[k]
            BY <3>1, <1>2, <1>3
        <3>3. y[i] = j[n + i]
            BY <2>0, <1>4
        <3> QED
            BY <3>1, <3>2, <3>3, Zenon
    <2> QED
        BY <2>1, <2>2, <1>l
<1>7. x = y
    BY <1>3, <1>4, <1>5, <1>6, SameSeq
<1> QED
    BY <1>7 DEF x, y, r, j

\* Drain moves answers from the send buffer to the socket, no more than fit.
LEMMA DrainEffect ==
    ASSUME NEW p \in Peers, NEW T, NEW c \in Conns, c.send \in Seq(T),
           down[p] \in Seq(T), Len(down[p]) <= SockCap
    PROVE  LET f == Drain(p, c)
           IN  /\ f.conn \in Conns
               /\ f.conn.st = c.st /\ f.conn.hello = c.hello /\ f.conn.recv = c.recv
               /\ f.conn.send \in Seq(T) /\ f.sent \in Seq(T)
               /\ down[p] \o f.sent \in Seq(T) /\ Len(down[p] \o f.sent) <= SockCap
               /\ (down[p] \o f.sent) \o f.conn.send = down[p] \o c.send
<1> DEFINE s == c.send  n == Min({Room(p), Len(s)})
           r == SubSeq(s, n + 1, Len(s))  g == SubSeq(s, 1, n)  b == n < Len(s)
           e == [c EXCEPT !.send = r, !.armed = b]
<1>1. SockCap \in Nat /\ Len(down[p]) \in Nat /\ Len(s) \in Nat
    BY ServerAssumption
<1>2. Room(p) \in Nat /\ Room(p) = SockCap - Len(down[p])
    BY <1>1 DEF Room
<1>3. n \in 0 .. Len(s) /\ n <= Room(p)
    <2>1. n \in {Room(p), Len(s)} /\ n <= Room(p) /\ n <= Len(s)
        <3>1. Room(p) \in Int /\ Len(s) \in Int
            BY <1>1, <1>2
        <3> QED
            BY <3>1, MinOfTwo
    <2> QED
        BY <2>1, <1>1, <1>2
<1>4. Drain(p, c) = [conn |-> e, sent |-> g]
    BY DEF Drain
<1>s. s \in Answers
    BY DEF Conns
<1> HIDE DEF n, s
<1>5. r \in Seq(T) /\ g \in Seq(T) /\ Len(g) = n
    BY <1>3, Cut DEF s
<1>6. r \in Answers
    BY <1>3, <1>s, Cut DEF Answers
<1>7. (down[p] \o g) \o r = down[p] \o s
    BY <1>3, Moved DEF s
<1>b. b \in BOOLEAN
    OBVIOUS
<1> HIDE DEF r, g, b
<1>8. /\ e \in Conns /\ e.st = c.st /\ e.hello = c.hello /\ e.recv = c.recv /\ e.send = r
    BY <1>6, <1>b DEF Conns
<1> HIDE DEF e
<1>9. down[p] \o g \in Seq(T) /\ Len(down[p] \o g) = Len(down[p]) + Len(g)
    <2>1. g \in Seq(T)
        BY <1>5
    <2> QED
        BY <2>1
<1>10. Len(down[p] \o g) <= SockCap
    BY <1>9, <1>5, <1>3, <1>2, <1>1
<1>11. Drain(p, c).conn = e /\ Drain(p, c).sent = g
    BY <1>4
<1> QED
    BY <1>5, <1>7, <1>8, <1>9, <1>10, <1>11 DEF s

\* The fields of an open connection and its stream.
LEMMA PeerFacts ==
    ASSUME Kinds, NEW p \in Peers, PeerInv(p)
    PROVE  /\ conn[p] \in Conns /\ conn[p].recv \in Seq(Nat \X Nat)
           /\ conn[p].send \in Seq(Kept(p)) /\ conn[p].hello \in BOOLEAN
           /\ up[p] \in Seq(Nat \X Nat) /\ log[p] \in Seq(Msgs)
           /\ down[p] \in Seq(Kept(p)) /\ Len(down[p]) <= SockCap
           /\ got[p] \in Seq(Kept(p))
           /\ Stream(p) \in Seq(Nat \X Nat) /\ InSequence(Stream(p), log[p])
           /\ Len(Stream(p)) = Len(conn[p].recv) + Len(up[p])
           /\ conn[p].recv # <<>> => Stream(p) # <<>> /\ Stream(p)[1] = conn[p].recv[1]
<1>1. /\ conn[p] \in Conns /\ up[p] \in Seq(Nat \X Nat) /\ log[p] \in Seq(Msgs)
    BY DEF Kinds
<1>2. conn[p].recv \in Seq(Nat \X Nat) /\ conn[p].hello \in BOOLEAN
    BY <1>1 DEF Conns
<1>3. /\ Stream(p) \in Seq(Nat \X Nat)
      /\ Len(Stream(p)) = Len(conn[p].recv) + Len(up[p])
      /\ conn[p].recv # <<>> => Stream(p) # <<>> /\ Stream(p)[1] = conn[p].recv[1]
    <2> DEFINE a == conn[p].recv  b == up[p]
    <2>1. a \in Seq(Nat \X Nat) /\ b \in Seq(Nat \X Nat)
        BY <1>1, <1>2
    <2> HIDE DEF a, b
    <2>2. a \o b \in Seq(Nat \X Nat) /\ Len(a \o b) = Len(a) + Len(b)
        BY <2>1
    <2>3. a # <<>> => a \o b # <<>> /\ (a \o b)[1] = a[1]
        BY <2>1
    <2> QED
        BY <2>2, <2>3 DEF Stream, a, b
<1> QED
    BY <1>1, <1>2, <1>3 DEF PeerInv, StreamInv, AnswerInv

\* What TryParse says of the message at the front of the buffer.
LEMMA TryParseFacts ==
    ASSUME Kinds, NEW p \in Peers, PeerInv(p)
    PROVE  LET r == conn[p].recv
               m == log[p][r[1][1]]
           IN  /\ TryParse(p) \in {"NeedMore", "Oversize", "Skip", "Ok"}
               /\ TryParse(p) = "NeedMore" => Len(r) <= 2
               /\ TryParse(p) # "NeedMore" =>
                     /\ r # <<>> /\ m \in Msgs /\ r[1][1] \in 1 .. Len(log[p])
               /\ TryParse(p) = "Oversize" => m.kind = "oversize"
               /\ TryParse(p) = "Skip" => m.kind = "junk"
               /\ TryParse(p) = "Ok" => m.kind \notin {"junk", "oversize"}
               /\ TryParse(p) \in {"Ok", "Skip"} =>
                     Units(m) <= 3 /\ Units(m) \in 1 .. Len(r)
<1> DEFINE r == conn[p].recv  m == log[p][r[1][1]]
<1>1. r \in Seq(Nat \X Nat) /\ (r # <<>> => Stream(p) # <<>> /\ Stream(p)[1] = r[1])
    BY PeerFacts
<1>2. r # <<>> => m \in Msgs /\ r[1][1] \in 1 .. Len(log[p])
    BY <1>1, PeerFacts, FirstUnit, Zenon
<1>3. /\ r = <<>> => TryParse(p) = "NeedMore"
      /\ r # <<>> /\ m.kind = "oversize" /\ Len(r) >= 2 => TryParse(p) = "Oversize"
      /\ r # <<>> /\ m.kind # "oversize" /\ m.kind = "junk" /\ Len(r) >= 2
         => TryParse(p) = "Skip"
      /\ r # <<>> /\ m.kind # "oversize" /\ m.kind = "junk" /\ ~(Len(r) >= 2)
         => TryParse(p) = "NeedMore"
      /\ r # <<>> /\ ~(m.kind = "oversize" /\ Len(r) >= 2) /\ m.kind # "junk"
         /\ Len(r) < Units(m) => TryParse(p) = "NeedMore"
      /\ r # <<>> /\ ~(m.kind = "oversize" /\ Len(r) >= 2) /\ m.kind # "junk"
         /\ ~(Len(r) < Units(m)) => TryParse(p) = "Ok"
    BY Zenon DEF TryParse
<1>4. Len(r) \in Nat /\ (r = <<>> => Len(r) = 0) /\ (r # <<>> => Len(r) >= 1)
    BY <1>1
<1>5. r # <<>> => /\ Units(m) \in Nat /\ Units(m) >= 1
                  /\ m.kind # "oversize" => Units(m) <= 3
                  /\ m.kind = "junk" => Units(m) = 1
                  /\ m.kind = "oversize" => Units(m) >= 2
    BY <1>2, UnitsFacts
<1> HIDE DEF r, m
<1>6. CASE r = <<>>
    BY <1>6, <1>3, <1>4 DEF r, m
<1>7. CASE r # <<>> /\ m.kind = "junk"
    <2>1. CASE Len(r) >= 2
        <3>1. TryParse(p) = "Skip" /\ Units(m) = 1 /\ Len(r) >= 1
            BY <1>7, <2>1, <1>3, <1>4, <1>5
        <3> QED
            BY <3>1, <1>7, <1>2, <1>4 DEF r, m
    <2>2. CASE ~(Len(r) >= 2)
        <3>1. TryParse(p) = "NeedMore" /\ Len(r) <= 2
            BY <1>7, <2>2, <1>3, <1>4
        <3> QED
            BY <3>1 DEF r, m
    <2> QED
        BY <2>1, <2>2
<1>8. CASE r # <<>> /\ m.kind = "oversize"
    <2>1. CASE Len(r) >= 2
        <3>1. TryParse(p) = "Oversize"
            BY <1>8, <2>1, <1>3
        <3> QED
            BY <3>1, <1>8, <1>2 DEF r, m
    <2>2. CASE ~(Len(r) >= 2)
        <3>1. Len(r) = 1 /\ Len(r) < Units(m)
            <4>1. Len(r) \in Nat /\ Len(r) >= 1 /\ Units(m) \in Nat /\ Units(m) >= 2
                BY <1>8, <1>4, <1>5
            <4>2. \A x, y \in Nat : x >= 1 /\ y >= 2 /\ ~(x >= 2) => x = 1 /\ x < y
                OBVIOUS
            <4> QED
                BY <4>1, <4>2, <2>2
        <3>2. TryParse(p) = "NeedMore"
            BY <1>8, <2>2, <3>1, <1>3
        <3> QED
            BY <3>1, <3>2 DEF r, m
    <2> QED
        BY <2>1, <2>2
<1>9. CASE r # <<>> /\ m.kind # "junk" /\ m.kind # "oversize"
    <2>0. Units(m) \in Nat /\ Units(m) >= 1 /\ Units(m) <= 3
        BY <1>9, <1>5
    <2>1. CASE Len(r) < Units(m)
        <3>1. TryParse(p) = "NeedMore"
            BY <1>9, <2>1, <1>3
        <3>2. Len(r) <= 2
            BY <2>0, <2>1, <1>4
        <3> QED
            BY <3>1, <3>2 DEF r, m
    <2>2. CASE ~(Len(r) < Units(m))
        <3>1. TryParse(p) = "Ok"
            BY <1>9, <2>2, <1>3
        <3>2. Units(m) \in 1 .. Len(r)
            BY <2>0, <2>2, <1>4
        <3> QED
            BY <3>1, <3>2, <2>0, <1>9, <1>2 DEF r, m
    <2> QED
        BY <2>1, <2>2
<1> QED
    BY <1>6, <1>7, <1>8, <1>9

\* Consumed changes the receive buffer and nothing else.
LEMMA ConsumedEffect ==
    ASSUME NEW c \in Conns, NEW n \in 0 .. Len(c.recv)
    PROVE  LET e == Consumed(c, n)
           IN  /\ e \in Conns /\ e.st = c.st /\ e.hello = c.hello /\ e.send = c.send
               /\ e.recv = SubSeq(c.recv, n + 1, Len(c.recv))
<1> DEFINE r == SubSeq(c.recv, n + 1, Len(c.recv))
<1>1. c.recv \in Seq(Nat \X Nat)
    BY DEF Conns
<1>2. r \in Seq(Nat \X Nat)
    BY <1>1, Cut
<1>3. Consumed(c, n) = [c EXCEPT !.recv = r]
    BY DEF Consumed
<1> HIDE DEF r
<1>4. LET e == [c EXCEPT !.recv = r]
      IN  /\ e \in Conns /\ e.st = c.st /\ e.hello = c.hello /\ e.send = c.send
          /\ e.recv = r
    BY <1>2 DEF Conns
<1> QED
    BY <1>3, <1>4 DEF r

\* The stream without the message at the front of the receive buffer.
LEMMA HandledStream ==
    ASSUME NEW r \in Seq(Nat \X Nat), NEW u \in Seq(Nat \X Nat), NEW l \in Seq(Msgs),
           InSequence(r \o u, l), r # <<>>, NEW n \in 1 .. Len(r), n <= 3,
           n = Units(l[r[1][1]])
    PROVE  LET s == r \o u
               t == SubSeq(r, n + 1, Len(r)) \o u
           IN  /\ s # <<>> /\ s[1] = r[1]
               /\ t \in Seq(Nat \X Nat) /\ InSequence(t, l)
               /\ t = <<>> => s[1][1] = Len(l)
               /\ t # <<>> => t[1][1] = s[1][1] + 1
<1> DEFINE s == r \o u  t == SubSeq(s, n + 1, Len(s))
<1>1. s \in Seq(Nat \X Nat) /\ Len(s) = Len(r) + Len(u) /\ s # <<>> /\ s[1] = r[1]
    OBVIOUS
<1>2. Len(r) \in Nat /\ Len(u) \in Nat
    OBVIOUS
<1>3. n \in 0 .. Len(r) /\ n <= Len(s)
    BY <1>1, <1>2
<1>4. SubSeq(r, n + 1, Len(r)) \o u = t
    BY <1>3, CutJoined
<1>5. n = Units(l[s[1][1]]) /\ InSequence(s, l)
    BY <1>1
<1> HIDE DEF s
<1>6. Units(l[s[1][1]]) <= 3 /\ Units(l[s[1][1]]) <= Len(s)
    BY <1>3, <1>5
<1>7. LET e == SubSeq(s, Units(l[s[1][1]]) + 1, Len(s))
      IN  /\ e \in Seq(Nat \X Nat) /\ InSequence(e, l)
          /\ e = <<>> => s[1][1] = Len(l)
          /\ e # <<>> => e[1][1] = s[1][1] + 1
    BY <1>1, <1>5, <1>6, HandledInSequence
<1>8. /\ t \in Seq(Nat \X Nat) /\ InSequence(t, l)
      /\ t = <<>> => s[1][1] = Len(l)
      /\ t # <<>> => t[1][1] = s[1][1] + 1
    BY <1>5, <1>7, Zenon
<1> HIDE DEF t
<1> QED
    BY <1>1, <1>4, <1>8 DEF s

\* A message that is handled or skipped leaves its peer's stream in order.
LEMMA HandledPeer ==
    ASSUME Kinds, NEW p \in Peers, PeerInv(p), TryParse(p) \in {"Ok", "Skip"},
           conn'[p].st = "open", up'[p] = up[p], log'[p] = log[p],
           conn'[p].recv = Consumed(conn[p], Units(log[p][conn[p].recv[1][1]])).recv
    PROVE  /\ BufferInv(p)' /\ StreamInv(p)'
           /\ Stream(p) # <<>> /\ Stream(p)[1] = conn[p].recv[1]
           /\ Stream(p)' \in Seq(Nat \X Nat)
           /\ Stream(p)' = <<>> => Stream(p)[1][1] = Len(log[p])
           /\ Stream(p)' # <<>> => Stream(p)'[1][1] = Stream(p)[1][1] + 1
<1> DEFINE r == conn[p].recv  u == up[p]  l == log[p]  n == Units(l[r[1][1]])
           q == conn'[p].recv
<1>1. /\ r \in Seq(Nat \X Nat) /\ u \in Seq(Nat \X Nat) /\ l \in Seq(Msgs)
      /\ InSequence(r \o u, l) /\ conn[p] \in Conns
    BY PeerFacts, Zenon DEF Stream
<1>2. r # <<>> /\ n <= 3 /\ n \in 1 .. Len(r)
    BY TryParseFacts, Zenon
<1>r. r \in Seq(Nat \X Nat) /\ Len(r) \in Nat
    BY <1>1
<1>n. n \in 0 .. Len(r)
    BY <1>2, <1>r
<1>3. q = SubSeq(r, n + 1, Len(r))
    BY <1>n, <1>1, ConsumedEffect, Zenon
<1>4. Stream(p) = r \o u /\ Stream(p)' = q \o u
    BY DEF Stream
<1>5. Len(r) <= RecvCap
    BY DEF PeerInv, BufferInv
<1>d. n = Units(l[r[1][1]])
    OBVIOUS
<1> HIDE DEF r, u, l, n, q
<1>6. /\ r \o u # <<>> /\ (r \o u)[1] = r[1]
      /\ q \o u \in Seq(Nat \X Nat) /\ InSequence(q \o u, l)
      /\ q \o u = <<>> => (r \o u)[1][1] = Len(l)
      /\ q \o u # <<>> => (q \o u)[1][1] = (r \o u)[1][1] + 1
    BY <1>1, <1>2, <1>3, <1>d, HandledStream, Zenon
<1>7. StreamInv(p)'
    <2>1. InSequence(Stream(p)', log'[p])
        BY <1>6, <1>4 DEF l
    <2> QED
        BY <2>1, Zenon DEF StreamInv, InSequence, Successor, Units
<1>8. BufferInv(p)'
    <2>1. Len(q) = Len(r) - n
        BY <1>r, <1>n, <1>3, Cut
    <2>2. Len(q) <= RecvCap
        BY <2>1, <1>r, <1>n, <1>5, ServerAssumption
    <2> QED
        BY <2>2 DEF BufferInv, q
<1> QED
    BY <1>4, <1>6, <1>7, <1>8 DEF r, l

\* The places of the thread.
LEMMA ThreadFacts ==
    ASSUME Kinds
    PROVE  /\ Handling => /\ th \in Busy /\ th.p \in Peers
                          /\ th.onward \in {"start", "read", "out"} /\ th.out \in BOOLEAN
           /\ ~Handling => th \in Resting
           /\ th = Waiting <=> th.at = "wait"
<1>1. Handling => th \in Busy
    BY DEF Kinds, Handling, Resting, Busy
<1>2. th \in Busy => th.p \in Peers /\ th.onward \in {"start", "read", "out"}
    BY DEF Busy
<1>3. th \in Busy => th.out \in BOOLEAN
    BY Zenon DEF Busy
<1>4. ~Handling => th \in Resting
    BY DEF Kinds, Handling, Resting, Busy
<1>5. th = Waiting <=> th.at = "wait"
    BY DEF Kinds, Waiting, At, Resting, Busy
<1> QED
    BY <1>1, <1>2, <1>3, <1>4, <1>5

\* What holds of the thread when it waits or has stopped.
LEMMA RestingFacts ==
    ASSUME NEW x \in {"wait", "exited", "crashed", "hung"}
    PROVE  At(x) \in Resting /\ At(x).at = x
    BY DEF At, Resting

-----------------------------------------------------------------------------
(* The invariant holds in the beginning. *)

\* The invariant holds at the start of Run.
LEMMA InitIInv == Init => IInv
<1> SUFFICES ASSUME Init PROVE IInv
    OBVIOUS
<1>1. /\ th = Waiting /\ running = TRUE /\ torn = {} /\ synced = FALSE /\ power = TRUE
      /\ conn = [p \in Peers |-> NoConn]
      /\ up = [p \in Peers |-> <<>>] /\ down = [p \in Peers |-> <<>>]
      /\ log = [p \in Peers |-> <<>>] /\ got = [p \in Peers |-> <<>>]
    BY DEF Init
<1>2. Waiting \in Resting /\ Waiting.at = "wait"
    BY RestingFacts DEF Waiting
<1>3. th.at = "wait" /\ ~Handling
    BY <1>1, <1>2 DEF Handling
<1>4. <<>> \in Seq(Nat \X Nat) /\ <<>> \in Answers /\ <<>> \in Seq(Msgs)
    BY DEF Answers
<1>5. Kinds
    <2>1. th \in Resting \cup Busy /\ running \in BOOLEAN /\ synced \in BOOLEAN
          /\ power \in BOOLEAN
        BY <1>1, <1>2
    <2>2. /\ conn \in [Peers -> Conns] /\ up \in [Peers -> Seq(Nat \X Nat)]
          /\ down \in [Peers -> Answers] /\ got \in [Peers -> Answers]
          /\ log \in [Peers -> Seq(Msgs)]
        BY <1>1, <1>4, FixedConns
    <2>3. /\ cache \in [Blocks -> {"old", "new", "torn"}]
          /\ disk \in [Blocks -> {"old", "new", "torn"}]
          /\ peer \in [Peers -> {"new", "open", "closed", "reset"}]
        BY DEF Init
    <2> QED
        BY <2>1, <2>2, <2>3, <1>1 DEF Kinds
<1>6. HandInv /\ SyncInv
    BY <1>1, <1>3 DEF HandInv, SyncInv
<1>7. ASSUME NEW p \in Peers PROVE PeerInv(p) /\ Len(conn[p].recv) < RecvCap
    <2>1. /\ conn[p] = NoConn /\ conn[p].recv = <<>> /\ conn[p].send = <<>>
          /\ conn[p].st = "none"
          /\ up[p] = <<>> /\ down[p] = <<>> /\ got[p] = <<>> /\ log[p] = <<>>
        BY <1>1, FixedConns
    <2>2. Len(conn[p].recv) = 0
        BY <2>1
    <2>3. BufferInv(p)
        BY <2>1, <2>2, ServerAssumption DEF BufferInv
    <2>4. StreamInv(p)
        <3>1. Stream(p) = <<>>
            BY <2>1 DEF Stream
        <3> QED
            BY <2>1, <3>1 DEF StreamInv, InSequence
    <2>5. AnswerInv(p)
        <3>1. <<>> \in Seq(Kept(p)) /\ Len(<<>>) <= SockCap
            BY ServerAssumption
        <3> QED
            BY <2>1, <3>1, Zenon DEF AnswerInv
    <2> QED
        BY <2>2, <2>3, <2>4, <2>5, ServerAssumption DEF PeerInv
<1>8. SpaceInv
    BY <1>7 DEF SpaceInv
<1> QED
    BY <1>5, <1>6, <1>7, <1>8 DEF IInv

-----------------------------------------------------------------------------
(* Every step keeps the invariant. *)

\* Connections that end while everything else stays.
LEMMA CloseStep ==
    ASSUME IInv, NEW S \in SUBSET Peers, CloseConn(S, conn, down),
           UNCHANGED <<log, got, cache, torn, power, synced>>
    PROVE  /\ conn' \in [Peers -> Conns] /\ up' \in [Peers -> Seq(Nat \X Nat)]
           /\ down' \in [Peers -> Answers]
           /\ \A p \in Peers : PeerInv(p)'
           /\ \A p \in S : conn'[p] = Gone
           /\ \A p \in Peers \ S : conn'[p] = conn[p]
<1>1. Kinds /\ \A p \in Peers : PeerInv(p)
    BY DEF IInv
<1>2. down \in [Peers -> Answers]
    BY <1>1 DEF Kinds
<1>3. \A p \in Peers : /\ Kept(p) \subseteq Kept(p)' /\ down[p] \in Seq(Kept(p)')
                       /\ Len(down[p]) <= SockCap
    <2> SUFFICES ASSUME NEW p \in Peers
                 PROVE  /\ Kept(p) \subseteq Kept(p)' /\ down[p] \in Seq(Kept(p)')
                        /\ Len(down[p]) <= SockCap
        OBVIOUS
    <2>1. Kept(p)' = Kept(p)
        BY KeptSame
    <2>2. down[p] \in Seq(Kept(p)) /\ Len(down[p]) <= SockCap
        BY <1>1 DEF PeerInv, AnswerInv
    <2> QED
        BY <2>1, <2>2
<1>4. /\ conn' \in [Peers -> Conns] /\ up' \in [Peers -> Seq(Nat \X Nat)]
      /\ down' \in [Peers -> Answers]
      /\ \A p \in S : conn'[p] = Gone
      /\ \A p \in Peers \ S : conn'[p] = conn[p]
    BY <1>1, <1>2, CloseEffect, Zenon
<1>5. \A p \in Peers : PeerInv(p)'
    BY <1>1, <1>2, <1>3, CloseKeeps
<1> QED
    BY <1>4, <1>5

\* Room in the receive buffers after a step of a live server.
LEMMA SpaceAfter ==
    ASSUME IInv, Alive,
           \A p \in Peers : \/ conn'[p].recv = <<>>
                            \/ /\ conn'[p].recv = conn[p].recv
                               /\ ~(th.at = "process" /\ th.p = p)
                            \/ th'.at = "process" /\ th'.p = p
    PROVE  SpaceInv'
<1> SUFFICES ASSUME NEW p \in Peers
             PROVE  Len(conn'[p].recv) < RecvCap \/ (th'.at = "process" /\ th'.p = p)
    BY DEF SpaceInv
<1>1. Len(conn[p].recv) < RecvCap \/ (th.at = "process" /\ th.p = p)
    BY DEF IInv, SpaceInv
<1>2. CASE conn'[p].recv = <<>>
    <2>1. Len(conn'[p].recv) = 0
        BY <1>2
    <2> QED
        BY <2>1, ServerAssumption
<1>3. CASE conn'[p].recv = conn[p].recv /\ ~(th.at = "process" /\ th.p = p)
    BY <1>1, <1>3
<1> QED
    BY <1>2, <1>3

\* SyncInv while the image and the history stay and a server that has lost
\* its power does not come back to life.
LEMMA SyncAfter ==
    ASSUME IInv, UNCHANGED <<cache, disk, power, synced>>,
           th' = th \/ Alive
    PROVE  SyncInv'
<1>1. SyncInv
    BY DEF IInv
<1>2. CASE th' = th
    BY <1>1, <1>2 DEF SyncInv, Alive, Handling
<1>3. CASE Alive
    BY <1>1, <1>3 DEF SyncInv, Alive, Handling
<1> QED
    BY <1>2, <1>3

\* A connection accepted.
LEMMA AcceptKeeps ==
    ASSUME IInv, NEW p \in Peers, HandleAccept(p)
    PROVE  IInv'
<1>1. /\ th = Waiting /\ conn[p].st = "none" /\ conn' = [conn EXCEPT ![p] = Opened]
      /\ UNCHANGED <<th, running, cache, disk, peer, up, down, log, got, torn, synced,
                     power>>
    BY DEF HandleAccept
<1>2. Kinds /\ SyncInv /\ \A q \in Peers : PeerInv(q)
    BY DEF IInv
<1>3. th.at = "wait"
    BY <1>1, <1>2, ThreadFacts
<1>4. /\ conn' \in [Peers -> Conns] /\ conn'[p] = Opened
      /\ \A q \in Peers \ {p} : conn'[q] = conn[q]
    BY <1>1, <1>2, FixedConns DEF Kinds
<1>5. Kinds'
    BY <1>1, <1>2, <1>4 DEF Kinds, Resting, Busy
<1>6. HandInv'
    BY <1>1, <1>3 DEF HandInv, Handling
<1>7. SpaceInv'
    BY <1>1, <1>3, <1>4, FixedConns, SpaceAfter DEF Alive
<1>8. SyncInv'
    BY <1>1, SyncAfter
<1>9. ASSUME NEW q \in Peers PROVE PeerInv(q)'
    <2>1. Kept(q)' = Kept(q)
        BY <1>1, KeptSame
    <2>2. PeerInv(q)
        BY <1>2
    <2>3. CASE q # p
        <3>1. /\ conn'[q] = conn[q] /\ up'[q] = up[q] /\ down'[q] = down[q]
              /\ got'[q] = got[q] /\ log'[q] = log[q]
            BY <2>3, <1>1, <1>4
        <3> QED
            BY <3>1, <2>1, <2>2, QuietPeer
    <2>4. CASE q = p
        <3>1. conn[p] = NoConn
            BY <1>1, <2>2, <2>4, FixedConns DEF PeerInv, BufferInv
        <3>2. conn[p].recv = <<>> /\ Opened.recv = <<>> /\ Opened.send = <<>>
              /\ Opened.st = "open"
            BY <3>1, FixedConns
        <3>3. Stream(p)' = Stream(p)
            BY <1>1, <1>4, <3>2 DEF Stream
        <3>4. StreamInv(p)'
            BY <1>1, <1>4, <2>2, <2>4, <3>2, <3>3
               DEF PeerInv, StreamInv, InSequence, Successor, Units
        <3>5. BufferInv(p)'
            <4>1. Len(conn'[p].recv) = 0
                BY <1>4, <3>2
            <4> QED
                BY <4>1, <1>4, <3>2, ServerAssumption DEF BufferInv
        <3>6. AnswerInv(p)'
            <4>1. down[p] \in Seq(Kept(p)) /\ Len(down[p]) <= SockCap /\ got[p] \in Seq(Kept(p))
                BY <2>2, <2>4 DEF PeerInv, AnswerInv
            <4>2. <<>> \in Seq(Kept(p))
                OBVIOUS
            <4>3. conn'[p].send \in Seq(Kept(p))
                BY <4>2, <1>4, <3>2
            <4>4. Kept(p)' = Kept(p)
                BY <2>1, <2>4
            <4> QED
                BY <4>1, <4>3, <4>4, <1>1 DEF AnswerInv
        <3> QED
            BY <3>4, <3>5, <3>6, <2>4 DEF PeerInv
    <2> QED
        BY <2>3, <2>4
<1> QED
    BY <1>5, <1>6, <1>7, <1>8, <1>9 DEF IInv

\* A connection that epoll reports as broken.
LEMMA ErrorKeeps ==
    ASSUME IInv, NEW p \in Peers, HandleConnError(p)
    PROVE  IInv'
<1>1. /\ th = Waiting /\ CloseConn({p}, conn, down)
      /\ UNCHANGED <<th, running, cache, disk, peer, log, got, torn, synced, power>>
    BY DEF HandleConnError
<1>2. Kinds
    BY DEF IInv
<1>3. th.at = "wait"
    BY <1>1, <1>2, ThreadFacts
<1>4. /\ conn' \in [Peers -> Conns] /\ up' \in [Peers -> Seq(Nat \X Nat)]
      /\ down' \in [Peers -> Answers] /\ \A q \in Peers : PeerInv(q)'
      /\ conn'[p] = Gone /\ \A q \in Peers \ {p} : conn'[q] = conn[q]
    BY <1>1, CloseStep
<1>5. Kinds'
    BY <1>1, <1>2, <1>4 DEF Kinds, Resting, Busy
<1>6. HandInv'
    BY <1>1, <1>3 DEF HandInv, Handling
<1>7. SpaceInv'
    BY <1>1, <1>3, <1>4, FixedConns, SpaceAfter DEF Alive
<1>8. SyncInv'
    BY <1>1, SyncAfter
<1> QED
    BY <1>4, <1>5, <1>6, <1>7, <1>8 DEF IInv

\* The fields of a thread with an event in hand.
LEMMA InFacts ==
    ASSUME NEW at \in {"read", "process", "out"}, NEW p \in Peers,
           NEW onward \in {"start", "read", "out"}, NEW out \in BOOLEAN
    PROVE  LET t == In(at, p, onward, out)
           IN  t \in Busy /\ t.at = at /\ t.p = p /\ t.onward = onward
    BY DEF In, Busy

\* A connection that is ready to be read.
LEMMA ReadableKeeps ==
    ASSUME IInv, NEW p \in Peers, Readable(p)
    PROVE  IInv'
<1> DEFINE b == conn[p].armed /\ Room(p) > 0
<1>1. /\ th = Waiting /\ conn[p].st = "open" /\ th' = In("read", p, "start", b)
      /\ UNCHANGED <<running, conn, cache, disk, peer, up, down, log, got, torn, synced,
                     power>>
    BY DEF Readable
<1>b. b \in BOOLEAN
    OBVIOUS
<1> HIDE DEF b
<1>2. Kinds /\ \A q \in Peers : PeerInv(q)
    BY DEF IInv
<1>3. th.at = "wait"
    BY <1>1, <1>2, ThreadFacts
<1>4. th' \in Busy /\ th'.at = "read" /\ th'.p = p
    BY <1>1, <1>b, InFacts
<1>5. Kinds'
    BY <1>1, <1>2, <1>4 DEF Kinds, Resting, Busy
<1>6. HandInv'
    BY <1>1, <1>4 DEF HandInv, Handling
<1>7. SpaceInv'
    BY <1>1, <1>3, SpaceAfter DEF Alive
<1>8. SyncInv'
    BY <1>1, <1>3, SyncAfter DEF Alive
<1>9. ASSUME NEW q \in Peers PROVE PeerInv(q)'
    <2>1. Kept(q)' = Kept(q)
        BY <1>1, KeptSame
    <2> QED
        BY <2>1, <1>1, <1>2, QuietPeer
<1> QED
    BY <1>5, <1>6, <1>7, <1>8, <1>9 DEF IInv

\* The EPOLLOUT half of an event.
LEMMA ConnWritableKeeps ==
    ASSUME IInv, NEW p \in Peers, Alive, th.at # "process", conn[p].st = "open",
           HandleConnWritable(p)
    PROVE  IInv'
<1> DEFINE f == Drain(p, conn[p])
<1>1. /\ th' = Waiting
      /\ UNCHANGED <<running, cache, disk, peer, log, got, torn, synced, power>>
    BY DEF HandleConnWritable
<1>2. \/ CloseConn({p}, conn, down)
      \/ /\ conn' = [conn EXCEPT ![p] = f.conn]
         /\ down' = [down EXCEPT ![p] = @ \o f.sent] /\ up' = up
    BY DEF HandleConnWritable
<1>3. Kinds /\ \A q \in Peers : PeerInv(q)
    BY DEF IInv
<1>4. Waiting \in Resting /\ Waiting.at = "wait"
    BY RestingFacts DEF Waiting
<1>5. HandInv'
    BY <1>1, <1>4 DEF HandInv, Handling
<1>6. SyncInv'
    BY <1>1, SyncAfter
<1>7. CASE CloseConn({p}, conn, down)
    <2>1. /\ conn' \in [Peers -> Conns] /\ up' \in [Peers -> Seq(Nat \X Nat)]
          /\ down' \in [Peers -> Answers] /\ \A q \in Peers : PeerInv(q)'
          /\ conn'[p] = Gone /\ \A q \in Peers \ {p} : conn'[q] = conn[q]
        BY <1>1, <1>7, CloseStep
    <2>2. Kinds'
        BY <1>1, <1>3, <1>4, <2>1 DEF Kinds, Resting, Busy
    <2>3. SpaceInv'
        BY <2>1, FixedConns, SpaceAfter
    <2> QED
        BY <2>1, <2>2, <2>3, <1>5, <1>6 DEF IInv
<1>8. CASE /\ conn' = [conn EXCEPT ![p] = f.conn]
           /\ down' = [down EXCEPT ![p] = @ \o f.sent] /\ up' = up
    <2>1. /\ conn[p] \in Conns /\ conn[p].send \in Seq(Kept(p))
          /\ down[p] \in Seq(Kept(p)) /\ Len(down[p]) <= SockCap /\ got[p] \in Seq(Kept(p))
        BY <1>3, PeerFacts
    <2>2. /\ f.conn \in Conns /\ f.conn.st = "open" /\ f.conn.recv = conn[p].recv
          /\ f.conn.send \in Seq(Kept(p))
          /\ down[p] \o f.sent \in Seq(Kept(p)) /\ Len(down[p] \o f.sent) <= SockCap
        BY <2>1, DrainEffect
    <2> HIDE DEF f
    <2>3. down[p] \o f.sent \in Answers
        BY <1>3, <2>2, KeptSeqs
    <2>4. /\ conn' \in [Peers -> Conns] /\ down' \in [Peers -> Answers]
          /\ conn'[p] = f.conn /\ down'[p] = down[p] \o f.sent
          /\ \A q \in Peers \ {p} : conn'[q] = conn[q] /\ down'[q] = down[q]
        BY <1>8, <2>2, <2>3, <1>3 DEF Kinds
    <2>5. Kinds'
        BY <1>1, <1>3, <1>4, <1>8, <2>4 DEF Kinds, Resting, Busy
    <2>6. SpaceInv'
        BY <2>2, <2>4, SpaceAfter
    <2>7. ASSUME NEW q \in Peers PROVE PeerInv(q)'
        <3>1. Kept(q)' = Kept(q)
            BY <1>1, KeptSame
        <3>2. CASE q # p
            <4>1. /\ conn'[q] = conn[q] /\ up'[q] = up[q] /\ down'[q] = down[q]
                  /\ got'[q] = got[q] /\ log'[q] = log[q]
                BY <3>2, <1>1, <1>8, <2>4
            <4> QED
                BY <4>1, <3>1, <1>3, QuietPeer
        <3>3. CASE q = p
            <4>1. Stream(p)' = Stream(p)
                BY <1>8, <2>2, <2>4 DEF Stream
            <4>2. StreamInv(p)'
                BY <1>1, <1>3, <2>2, <2>4, <4>1
                   DEF PeerInv, StreamInv, InSequence, Successor, Units
            <4>3. BufferInv(p)'
                BY <1>3, <2>2, <2>4 DEF PeerInv, BufferInv
            <4>4. AnswerInv(p)'
                BY <2>1, <2>2, <2>4, <3>1, <3>3, <1>1 DEF AnswerInv
            <4> QED
                BY <3>3, <4>2, <4>3, <4>4 DEF PeerInv
        <3> QED
            BY <3>2, <3>3
    <2> QED
        BY <2>5, <2>6, <2>7, <1>5, <1>6 DEF IInv
<1> QED
    BY <1>2, <1>7, <1>8

\* The event EPOLLOUT alone.
LEMMA WritableKeeps ==
    ASSUME IInv, NEW p \in Peers, Writable(p)
    PROVE  IInv'
<1>1. th = Waiting /\ conn[p].st = "open" /\ HandleConnWritable(p)
    BY DEF Writable
<1>2. th.at = "wait"
    BY <1>1, ThreadFacts DEF IInv
<1> QED
    BY <1>1, <1>2, ConnWritableKeeps DEF Alive

\* EPOLLOUT after the reading half.
LEMMA AfterReadKeeps ==
    ASSUME IInv, AfterRead
    PROVE  IInv'
<1>1. th.at = "out" /\ Handling /\ Alive
    BY DEF AfterRead, Handling, Alive
<1>2. th.p \in Peers /\ conn[th.p].st = "open"
    BY <1>1, ThreadFacts DEF IInv, HandInv
<1>3. CASE HandleConnWritable(th.p)
    BY <1>1, <1>2, <1>3, ConnWritableKeeps
<1>4. CASE th' = Waiting /\ UNCHANGED <<running, conn, cache, disk, peer, up, down, log,
                                        got, torn, synced, power>>
    <2>1. Kinds /\ \A q \in Peers : PeerInv(q)
        BY DEF IInv
    <2>2. Waiting \in Resting /\ Waiting.at = "wait"
        BY RestingFacts DEF Waiting
    <2>3. Kinds'
        BY <1>4, <2>1, <2>2 DEF Kinds, Resting, Busy
    <2>4. HandInv'
        BY <1>4, <2>2 DEF HandInv, Handling
    <2>5. SpaceInv'
        BY <1>1, <1>4, SpaceAfter
    <2>6. SyncInv'
        BY <1>1, <1>4, SyncAfter
    <2>7. ASSUME NEW q \in Peers PROVE PeerInv(q)'
        <3>1. Kept(q)' = Kept(q)
            BY <1>4, KeptSame
        <3> QED
            BY <3>1, <1>4, <2>1, QuietPeer
    <2> QED
        BY <2>3, <2>4, <2>5, <2>6, <2>7 DEF IInv
<1> QED
    BY <1>3, <1>4 DEF AfterRead

\* What is received moves from the socket to the buffer and fits there.
LEMMA ReceivedFits ==
    ASSUME NEW r \in Seq(Nat \X Nat), NEW u \in Seq(Nat \X Nat), NEW cap \in Nat,
           Len(r) <= cap, NEW n \in 1 .. Min({cap - Len(r), Len(u)})
    PROVE  LET g == SubSeq(u, 1, n)
               e == SubSeq(u, n + 1, Len(u))
           IN  /\ r \o g \in Seq(Nat \X Nat) /\ Len(r \o g) <= cap
               /\ e \in Seq(Nat \X Nat) /\ (r \o g) \o e = r \o u
<1> DEFINE g == SubSeq(u, 1, n)  e == SubSeq(u, n + 1, Len(u))
           x == cap - Len(r)  y == Len(u)  k == Min({x, y})
<1>1. Len(r) \in Nat /\ Len(u) \in Nat /\ x \in Int /\ y \in Int /\ x \in Nat
    OBVIOUS
<1>2. n \in 1 .. k
    OBVIOUS
<1>d. x = cap - Len(r) /\ y = Len(u)
    OBVIOUS
<1> HIDE DEF x, y
<1>3. k <= x /\ k <= y /\ k \in {x, y}
    BY <1>1, MinOfTwo
<1> HIDE DEF k
<1>4. n \in Nat /\ n <= x /\ n <= y
    BY <1>1, <1>2, <1>3
<1>5. n \in 0 .. Len(u) /\ n + Len(r) <= cap
    BY <1>1, <1>4, <1>d
<1>6. g \in Seq(Nat \X Nat) /\ Len(g) = n /\ e \in Seq(Nat \X Nat)
    BY <1>5, Cut
<1>7. (r \o g) \o e = r \o u
    BY <1>5, Moved
<1>g. g \in Seq(Nat \X Nat)
    BY <1>6
<1> HIDE DEF g, e
<1>8. r \o g \in Seq(Nat \X Nat) /\ Len(r \o g) = Len(r) + Len(g)
    BY <1>g
<1>9. Len(r \o g) <= cap
    BY <1>8, <1>6, <1>5, <1>1
<1> QED
    BY <1>6, <1>7, <1>8, <1>9 DEF g, e

\* What a receive does to the buffers of its connection.
LEMMA ReceiveEffect ==
    ASSUME Kinds, NEW p \in Peers, PeerInv(p), conn[p].st = "open",
           NEW n \in 1 .. Min({Space(p), Len(up[p])}),
           conn' = [conn EXCEPT ![p].recv = @ \o SubSeq(up[p], 1, n)],
           up' = [up EXCEPT ![p] = SubSeq(@, n + 1, Len(@))]
    PROVE  /\ conn' \in [Peers -> Conns] /\ up' \in [Peers -> Seq(Nat \X Nat)]
           /\ conn'[p].st = "open" /\ conn'[p].hello = conn[p].hello
           /\ conn'[p].send = conn[p].send /\ Len(conn'[p].recv) <= RecvCap
           /\ conn'[p].recv \o up'[p] = conn[p].recv \o up[p]
           /\ \A q \in Peers \ {p} : conn'[q] = conn[q] /\ up'[q] = up[q]
<1> DEFINE r == conn[p].recv  u == up[p]  g == SubSeq(u, 1, n)  e == SubSeq(u, n + 1, Len(u))
           c == [conn[p] EXCEPT !.recv = r \o g]
<1>1. /\ conn \in [Peers -> Conns] /\ up \in [Peers -> Seq(Nat \X Nat)]
      /\ conn[p] \in Conns /\ r \in Seq(Nat \X Nat) /\ u \in Seq(Nat \X Nat)
    BY PeerFacts DEF Kinds
<1>2. Len(r) <= RecvCap /\ RecvCap \in Nat
    BY ServerAssumption DEF PeerInv, BufferInv
<1>3. n \in 1 .. Min({RecvCap - Len(r), Len(u)})
    BY DEF Space
<1>4. conn' = [conn EXCEPT ![p] = c] /\ up' = [up EXCEPT ![p] = e]
    OBVIOUS
<1> HIDE DEF r, u
<1>5. /\ r \o g \in Seq(Nat \X Nat) /\ Len(r \o g) <= RecvCap
      /\ e \in Seq(Nat \X Nat) /\ (r \o g) \o e = r \o u
    BY <1>1, <1>2, <1>3, ReceivedFits
<1> HIDE DEF g, e
<1>10. /\ c \in Conns /\ c.st = conn[p].st /\ c.hello = conn[p].hello
       /\ c.send = conn[p].send /\ c.recv = r \o g
    BY <1>1, <1>5 DEF Conns
<1> HIDE DEF c
<1>11. /\ conn' \in [Peers -> Conns] /\ up' \in [Peers -> Seq(Nat \X Nat)]
       /\ conn'[p] = c /\ up'[p] = e
       /\ \A q \in Peers \ {p} : conn'[q] = conn[q] /\ up'[q] = up[q]
    BY <1>1, <1>4, <1>5, <1>10
<1> QED
    BY <1>5, <1>10, <1>11 DEF r, u

\* One receive.
LEMMA ReadKeeps ==
    ASSUME IInv, HandleConnReadable
    PROVE  IInv'
<1>1. th.at = "read" /\ Handling /\ Alive
    BY DEF HandleConnReadable, Handling, Alive
<1>p. PICK p \in Peers : p = th.p
    BY <1>1, ThreadFacts DEF IInv
<1>2. p \in Peers /\ conn[p].st = "open" /\ th.out \in BOOLEAN
    BY <1>1, <1>p, ThreadFacts DEF IInv, HandInv
<1>3. Kinds /\ \A q \in Peers : PeerInv(q)
    BY DEF IInv
<1>4. UNCHANGED <<running, cache, disk, peer, log, got, torn, synced, power>>
    BY DEF HandleConnReadable
<1>5. SyncInv'
    BY <1>1, <1>4, SyncAfter
<1>6. ASSUME NEW n \in 1 .. Min({Space(p), Len(up[p])}),
             conn' = [conn EXCEPT ![p].recv = @ \o SubSeq(up[p], 1, n)],
             up' = [up EXCEPT ![p] = SubSeq(@, n + 1, Len(@))],
             th' = In("process", p, "read", th.out), down' = down
      PROVE  IInv'
    <2>1. /\ conn' \in [Peers -> Conns] /\ up' \in [Peers -> Seq(Nat \X Nat)]
          /\ conn'[p].st = "open" /\ conn'[p].hello = conn[p].hello
          /\ conn'[p].send = conn[p].send /\ Len(conn'[p].recv) <= RecvCap
          /\ conn'[p].recv \o up'[p] = conn[p].recv \o up[p]
          /\ \A q \in Peers \ {p} : conn'[q] = conn[q] /\ up'[q] = up[q]
        BY <1>2, <1>3, <1>6, ReceiveEffect
    <2>2. th' \in Busy /\ th'.at = "process" /\ th'.p = p /\ th'.onward = "read"
        BY <1>2, <1>6, InFacts
    <2>3. down' = down
        BY <1>6
    <2>4. Kinds'
        BY <2>1, <2>2, <2>3, <1>3, <1>4 DEF Kinds, Resting, Busy
    <2>5. HandInv'
        BY <2>1, <2>2 DEF HandInv
    <2>6. SpaceInv'
        <3>1. \A q \in Peers : q # p => conn'[q].recv = conn[q].recv
            BY <2>1
        <3> QED
            BY <3>1, <2>2, <1>1, SpaceAfter
    <2>7. ASSUME NEW q \in Peers PROVE PeerInv(q)'
        <3>1. Kept(q)' = Kept(q)
            BY <1>4, KeptSame
        <3>2. CASE q # p
            <4>1. /\ conn'[q] = conn[q] /\ up'[q] = up[q] /\ down'[q] = down[q]
                  /\ got'[q] = got[q] /\ log'[q] = log[q]
                BY <3>2, <1>4, <2>1, <2>3
            <4> QED
                BY <4>1, <3>1, <1>3, QuietPeer
        <3>3. CASE q = p
            <4>0. PeerInv(p)
                BY <1>2, <1>3
            <4>1. Stream(p)' = Stream(p)
                BY <2>1 DEF Stream
            <4>2. StreamInv(p)'
                BY <1>4, <4>0, <2>1, <4>1
                   DEF PeerInv, StreamInv, InSequence, Successor, Units
            <4>3. BufferInv(p)'
                BY <2>1 DEF BufferInv
            <4>4. AnswerInv(p)'
                BY <4>0, <2>1, <2>3, <3>1, <3>3, <1>4 DEF PeerInv, AnswerInv
            <4> QED
                BY <3>3, <4>2, <4>3, <4>4 DEF PeerInv
        <3> QED
            BY <3>2, <3>3
    <2> QED
        BY <2>4, <2>5, <2>6, <2>7, <1>5 DEF IInv
<1>7. ASSUME th' = In("process", p, "out", th.out), UNCHANGED <<conn, up, down>>
      PROVE  IInv'
    <2>2. th' \in Busy /\ th'.at = "process" /\ th'.p = p /\ th'.onward = "out"
        BY <1>2, <1>7, InFacts
    <2>4. Kinds'
        BY <2>2, <1>3, <1>4, <1>7 DEF Kinds, Resting, Busy
    <2>5. HandInv'
        BY <2>2, <1>2, <1>7 DEF HandInv
    <2>6. SpaceInv'
        BY <1>1, <1>7, SpaceAfter
    <2>7. ASSUME NEW q \in Peers PROVE PeerInv(q)'
        <3>1. Kept(q)' = Kept(q)
            BY <1>4, KeptSame
        <3> QED
            BY <3>1, <1>3, <1>4, <1>7, QuietPeer
    <2> QED
        BY <2>4, <2>5, <2>6, <2>7, <1>5 DEF IInv
<1>8. ASSUME CloseConn({p}, conn, down), th' = Waiting
      PROVE  IInv'
    <2>1. /\ conn' \in [Peers -> Conns] /\ up' \in [Peers -> Seq(Nat \X Nat)]
          /\ down' \in [Peers -> Answers] /\ \A q \in Peers : PeerInv(q)'
          /\ conn'[p] = Gone /\ \A q \in Peers \ {p} : conn'[q] = conn[q]
        BY <1>2, <1>4, <1>8, CloseStep
    <2>2. Waiting \in Resting /\ Waiting.at = "wait"
        BY RestingFacts DEF Waiting
    <2>3. Kinds'
        BY <1>3, <1>4, <1>8, <2>1, <2>2 DEF Kinds, Resting, Busy
    <2>4. SpaceInv'
        BY <2>1, <1>1, FixedConns, SpaceAfter
    <2>5. HandInv'
        BY <1>8, <2>2 DEF HandInv, Handling
    <2> QED
        BY <2>1, <2>3, <2>4, <2>5, <1>5 DEF IInv
<1>9. \/ \E n \in 1 .. Min({Space(p), Len(up[p])}) :
            /\ conn' = [conn EXCEPT ![p].recv = @ \o SubSeq(up[p], 1, n)]
            /\ up' = [up EXCEPT ![p] = SubSeq(@, n + 1, Len(@))]
            /\ th' = In("process", p, "read", th.out) /\ down' = down
      \/ th' = In("process", p, "out", th.out) /\ UNCHANGED <<conn, up, down>>
      \/ CloseConn({p}, conn, down) /\ th' = Waiting
    BY <1>p DEF HandleConnReadable
<1> QED
    BY <1>6, <1>7, <1>8, <1>9

\* The image after a step of ProcessMessages.
ImageStep ==
    /\ cache' \in [Blocks -> {"old", "new", "torn"}] /\ torn' \subseteq Blocks
    /\ \A q \in Peers : Kept(q) \subseteq Kept(q)'
    /\ UNCHANGED <<running, disk, peer, log, got, synced, power>>

\* While a handler runs, the machine has its power and the image is not synced.
LEMMA ProcessSync ==
    ASSUME IInv, th.at = "process", ImageStep
    PROVE  SyncInv'
    BY DEF IInv, SyncInv, Alive, Handling, ImageStep

\* A handler that ends its connection, and perhaps a stranger's.
LEMMA ProcessClose ==
    ASSUME IInv, th.at = "process", ImageStep,
           NEW S \in SUBSET Peers, th.p \in S, NEW d \in [Peers -> Answers],
           CloseConn(S, conn, d), th' \in {Waiting, At("crashed")},
           \A q \in Peers : /\ d[q] \in Seq(Kept(q)') /\ Len(d[q]) <= SockCap
                            /\ q \notin S => d[q] = down[q]
    PROVE  IInv'
<1>1. Kinds /\ \A q \in Peers : PeerInv(q)
    BY DEF IInv
<1>2. UNCHANGED <<running, disk, peer, log, got, synced, power>>
    BY DEF ImageStep
<1>3. /\ conn' \in [Peers -> Conns] /\ up' \in [Peers -> Seq(Nat \X Nat)]
      /\ down' \in [Peers -> Answers]
      /\ \A p \in S : conn'[p] = Gone
      /\ \A p \in Peers \ S : conn'[p] = conn[p]
    BY <1>1, CloseEffect, Zenon
<1>4. \A q \in Peers : PeerInv(q)'
    <2>1. \A q \in Peers : /\ Kept(q) \subseteq Kept(q)'
                           /\ d[q] \in Seq(Kept(q)') /\ Len(d[q]) <= SockCap
                           /\ q \notin S => d[q] = down[q]
        BY DEF ImageStep
    <2>2. UNCHANGED <<log, got>>
        BY <1>2
    <2> QED
        BY <2>1, <2>2, <1>1, CloseKeeps
<1>5. th' \in Resting /\ th'.at \in {"wait", "crashed"}
    BY RestingFacts DEF Waiting
<1>6. Kinds'
    BY <1>1, <1>2, <1>3, <1>5 DEF Kinds, Resting, Busy, ImageStep
<1>7. HandInv'
    BY <1>5 DEF HandInv, Handling
<1>8. SpaceInv'
    <2>1. Alive
        BY DEF Alive, Handling
    <2>2. \A q \in Peers : conn'[q].recv = <<>> \/ (conn'[q].recv = conn[q].recv /\ q # th.p)
        BY <1>3, FixedConns
    <2> QED
        BY <2>1, <2>2, SpaceAfter
<1>9. SyncInv'
    BY ProcessSync
<1> QED
    BY <1>4, <1>6, <1>7, <1>8, <1>9 DEF IInv

\* A handler that takes its message and leaves the connection open.
LEMMA ProcessOn ==
    ASSUME IInv, th.at = "process", ImageStep, TryParse(th.p) \in {"Ok", "Skip"},
           th' = th, up' = up, conn' \in [Peers -> Conns], down' \in [Peers -> Answers],
           conn'[th.p].st = "open",
           conn'[th.p].recv
               = Consumed(conn[th.p], Units(log[th.p][conn[th.p].recv[1][1]])).recv,
           conn'[th.p].send \in Seq(Kept(th.p)'), down'[th.p] \in Seq(Kept(th.p)'),
           Len(down'[th.p]) <= SockCap,
           \A q \in Peers \ {th.p} : conn'[q] = conn[q] /\ down'[q] = down[q]
    PROVE  IInv'
<1>1. Kinds /\ \A q \in Peers : PeerInv(q)
    BY DEF IInv
<1>2. UNCHANGED <<running, disk, peer, log, got, synced, power>>
    BY DEF ImageStep
<1>3. Handling /\ Alive /\ th.p \in Peers
    BY <1>1, ThreadFacts DEF Handling, Alive
<1>4. Kinds'
    BY <1>1, <1>2 DEF Kinds, Resting, Busy, ImageStep
<1>5. HandInv'
    BY <1>3 DEF IInv, HandInv, Handling
<1>6. SpaceInv'
    <2>1. \A q \in Peers : q # th.p => conn'[q].recv = conn[q].recv
        OBVIOUS
    <2> QED
        BY <2>1, <1>3, SpaceAfter
<1>7. SyncInv'
    BY ProcessSync
<1>8. ASSUME NEW q \in Peers PROVE PeerInv(q)'
    <2>1. CASE q # th.p
        <3>1. /\ conn'[q] = conn[q] /\ up'[q] = up[q] /\ down'[q] = down[q]
              /\ got'[q] = got[q] /\ log'[q] = log[q]
            BY <2>1, <1>2
        <3> QED
            BY <3>1, <1>1, QuietPeer DEF ImageStep
    <2>2. CASE q = th.p
        <3>1. BufferInv(q)' /\ StreamInv(q)'
            BY <2>2, <1>1, <1>2, HandledPeer, Zenon
        <3>2. got[q] \in Seq(Kept(q)) /\ Kept(q) \subseteq Kept(q)'
            BY <1>1 DEF PeerInv, AnswerInv, ImageStep
        <3>3. got'[q] \in Seq(Kept(q)')
            BY <3>2, <1>2, SeqMono
        <3>4. AnswerInv(q)'
            BY <2>2, <3>3 DEF AnswerInv
        <3> QED
            BY <3>1, <3>4 DEF PeerInv
    <2> QED
        BY <2>1, <2>2
<1> QED
    BY <1>4, <1>5, <1>6, <1>7, <1>8 DEF IInv

\* The connection c of p with answer a in its send buffer, drained.
Enqueued(p, c, a) == Drain(p, [c EXCEPT !.send = Append(@, a)])

\* Connections that differ in their send buffer and its arming only.
Alike(e, c) == e.st = c.st /\ e.hello = c.hello /\ e.recv = c.recv

\* The connection with one more answer in its send buffer, drained.
LEMMA EnqueuedEffect ==
    ASSUME Kinds, NEW p \in Peers, NEW T, T \subseteq [msg : Nat, ok : BOOLEAN],
           NEW c \in Conns, c.send \in Seq(T), NEW a \in T,
           down[p] \in Seq(T), Len(down[p]) <= SockCap
    PROVE  LET f == Enqueued(p, c, a)
           IN  /\ f.conn \in Conns /\ Alike(f.conn, c)
               /\ f.conn.send \in Seq(T)
               /\ down[p] \o f.sent \in Seq(T) /\ Len(down[p] \o f.sent) <= SockCap
               /\ down[p] \o f.sent \in Answers
               /\ (down[p] \o f.sent) \o f.conn.send = down[p] \o Append(c.send, a)
<1> DEFINE A == [msg : Nat, ok : BOOLEAN]  s == Append(c.send, a)
           x == [c EXCEPT !.send = s]  f == Drain(p, x)
<1>1. Answers = Seq(A)
    BY DEF Answers
<1>2. s \in Seq(T)
    OBVIOUS
<1> HIDE DEF A, s
<1>a. T \subseteq A
    BY DEF A
<1>3. s \in Answers
    BY <1>1, <1>2, <1>a, SeqMono
<1>4. x \in Conns /\ x.st = c.st /\ x.hello = c.hello /\ x.recv = c.recv /\ x.send = s
    BY <1>3 DEF Conns
<1>5. [c EXCEPT !.send = Append(@, a)] = x
    BY DEF s
<1> HIDE DEF x
<1>6. /\ f.conn \in Conns
      /\ f.conn.st = x.st /\ f.conn.hello = x.hello /\ f.conn.recv = x.recv
      /\ f.conn.send \in Seq(T)
      /\ down[p] \o f.sent \in Seq(T) /\ Len(down[p] \o f.sent) <= SockCap
      /\ (down[p] \o f.sent) \o f.conn.send = down[p] \o x.send
    BY <1>2, <1>4, DrainEffect
<1> HIDE DEF f
<1>7. down[p] \o f.sent \in Answers
    BY <1>1, <1>6, <1>a, SeqMono
<1>8. Alike(f.conn, c)
    BY <1>4, <1>6 DEF Alike
<1>9. f = Enqueued(p, c, a) /\ x.send = Append(c.send, a)
    BY <1>4, <1>5 DEF f, s, Enqueued
<1> QED
    BY <1>6, <1>7, <1>8, <1>9

\* The ways EnqueueAck ends.
LEMMA AckCases ==
    ASSUME NEW p \in Peers, NEW c, NEW a, NEW ends \in BOOLEAN, EnqueueAck(p, c, a, ends)
    PROVE  LET f == Enqueued(p, c, a)
               d == [down EXCEPT ![p] = @ \o f.sent]
           IN  \/ \E S \in SUBSET Peers :
                     /\ p \in S /\ S \subseteq Live \cup {p}
                     /\ CloseConn(S, conn, down) /\ th' \in Stale
               \/ CloseConn({p}, conn, d) /\ th' \in Stale
               \/ /\ ~ends
                  /\ conn' = [conn EXCEPT ![p] = Consumed(f.conn, Units(log[p][a.msg]))]
                  /\ down' = d /\ up' = up /\ th' = th
<1> DEFINE f == Enqueued(p, c, a)
           d == [down EXCEPT ![p] = @ \o f.sent]
<1>1. CASE peer[p] = "reset"
    <2>1. PICK S \in {{p}} \cup (IF ends THEN {{p, q} : q \in Live} ELSE {}) :
             CloseConn(S, conn, down)
        BY <1>1 DEF EnqueueAck
    <2>2. th' \in Stale
        BY <1>1 DEF EnqueueAck
    <2>3. Live \subseteq Peers
        BY DEF Live
    <2>4. S = {p} \/ \E q \in Live : S = {p, q}
        BY <2>1
    <2>5. S \in SUBSET Peers /\ p \in S /\ S \subseteq Live \cup {p}
        BY <2>3, <2>4
    <2> QED
        BY <2>1, <2>2, <2>5
<1>2. CASE peer[p] # "reset" /\ ends
    <2>1. CloseConn({p}, conn, d) /\ th' \in Stale
        BY <1>2 DEF EnqueueAck, Enqueued
    <2> QED
        BY <2>1
<1>3. CASE peer[p] # "reset" /\ ~ends
    <2>1. /\ conn' = [conn EXCEPT ![p] = Consumed(f.conn, Units(log[p][a.msg]))]
          /\ down' = d /\ up' = up /\ th' = th
        BY <1>3 DEF EnqueueAck, Enqueued
    <2> QED
        BY <2>1, <1>3
<1> QED
    BY <1>1, <1>2, <1>3

\* A handler that answers its message.
LEMMA AckKeeps ==
    ASSUME IInv, th.at = "process", ImageStep, NEW p \in Peers, p = th.p,
           TryParse(p) = "Ok", NEW c \in Conns, c.st = "open",
           c.recv = conn[p].recv, c.send = conn[p].send,
           NEW a, a \in Kept(p)', a.msg = conn[p].recv[1][1],
           NEW ends \in BOOLEAN, EnqueueAck(p, c, a, ends)
    PROVE  IInv'
<1> DEFINE f == Enqueued(p, c, a)
           d == [down EXCEPT ![p] = @ \o f.sent]
           n == Units(log[p][conn[p].recv[1][1]])
<1>1. Kinds /\ \A q \in Peers : PeerInv(q)
    BY DEF IInv
<1>2. /\ log' = log /\ down \in [Peers -> Answers] /\ conn \in [Peers -> Conns]
    BY <1>1 DEF ImageStep, Kinds
<1>3. \A q \in Peers : /\ down[q] \in Seq(Kept(q)') /\ Len(down[q]) <= SockCap
                       /\ conn[q].send \in Seq(Kept(q)')
    <2> SUFFICES ASSUME NEW q \in Peers
                 PROVE  /\ down[q] \in Seq(Kept(q)') /\ Len(down[q]) <= SockCap
                        /\ conn[q].send \in Seq(Kept(q)')
        OBVIOUS
    <2>1. Kept(q) \subseteq Kept(q)'
        BY DEF ImageStep
    <2>2. /\ down[q] \in Seq(Kept(q)) /\ Len(down[q]) <= SockCap
          /\ conn[q].send \in Seq(Kept(q))
        BY <1>1 DEF PeerInv, AnswerInv
    <2> QED
        BY <2>1, <2>2, SeqMono
<1>4. Kept(p)' \subseteq [msg : Nat, ok : BOOLEAN]
    BY <1>1, <1>2 DEF Kept, Kinds
<1>5. /\ f.conn \in Conns /\ f.conn.st = "open" /\ f.conn.recv = conn[p].recv
      /\ f.conn.send \in Seq(Kept(p)')
      /\ down[p] \o f.sent \in Seq(Kept(p)') /\ Len(down[p] \o f.sent) <= SockCap
      /\ down[p] \o f.sent \in Answers
    <2>1. c.send \in Seq(Kept(p)') /\ down[p] \in Seq(Kept(p)') /\ Len(down[p]) <= SockCap
        BY <1>3
    <2> DEFINE T == Kept(p)'
    <2>2. /\ T \subseteq [msg : Nat, ok : BOOLEAN] /\ a \in T
          /\ c.send \in Seq(T) /\ down[p] \in Seq(T) /\ Len(down[p]) <= SockCap
        BY <2>1, <1>4
    <2> HIDE DEF T
    <2>5. f.conn \in Conns /\ Alike(f.conn, c)
        BY <2>2, <1>1, EnqueuedEffect
    <2>4. f.conn \in Conns /\ f.conn.st = c.st /\ f.conn.recv = c.recv
        BY <2>5 DEF Alike
    <2>3. /\ f.conn.send \in Seq(T)
          /\ down[p] \o f.sent \in Seq(T) /\ Len(down[p] \o f.sent) <= SockCap
          /\ down[p] \o f.sent \in Answers
        BY <2>2, <1>1, EnqueuedEffect
    <2> HIDE DEF f
    <2> QED
        BY <2>3, <2>4 DEF T
<1>6. th' \in Stale => th' \in {Waiting, At("crashed")}
    BY DEF Stale
<1>7. ASSUME NEW S \in SUBSET Peers, p \in S, CloseConn(S, conn, down), th' \in Stale
      PROVE  IInv'
    <2>1. \A q \in Peers : down[q] \in Seq(Kept(q)') /\ Len(down[q]) <= SockCap
        BY <1>3
    <2> QED
        BY <2>1, <1>2, <1>6, <1>7, ProcessClose
<1>f. \/ \E S \in SUBSET Peers :
            /\ p \in S /\ S \subseteq Live \cup {p}
            /\ CloseConn(S, conn, down) /\ th' \in Stale
      \/ CloseConn({p}, conn, d) /\ th' \in Stale
      \/ /\ ~ends
         /\ conn' = [conn EXCEPT ![p] = Consumed(f.conn, Units(log[p][a.msg]))]
         /\ down' = d /\ up' = up /\ th' = th
    BY AckCases
<1> HIDE DEF f
<1>d. /\ d \in [Peers -> Answers] /\ d[p] = down[p] \o f.sent
      /\ \A q \in Peers \ {p} : d[q] = down[q]
    BY <1>2, <1>5
<1>8. ASSUME CloseConn({p}, conn, d), th' \in Stale
      PROVE  IInv'
    <2>1. \A q \in Peers : /\ d[q] \in Seq(Kept(q)') /\ Len(d[q]) <= SockCap
                           /\ q \notin {p} => d[q] = down[q]
        BY <1>3, <1>5, <1>d
    <2> HIDE DEF d
    <2> QED
        BY <2>1, <1>d, <1>6, <1>8, ProcessClose, Zenon
<1>9. ASSUME conn' = [conn EXCEPT ![p] = Consumed(f.conn, n)],
             down' = d, up' = up, th' = th
      PROVE  IInv'
    <2>1. n \in 0 .. Len(conn[p].recv)
        <3>1. n \in 1 .. Len(conn[p].recv)
            BY <1>1, TryParseFacts
        <3> HIDE DEF n
        <3>2. Len(conn[p].recv) \in Nat
            <4>1. conn[p].recv \in Seq(Nat \X Nat)
                BY <1>1, PeerFacts
            <4> QED
                BY <4>1
        <3> QED
            BY <3>1, <3>2
    <2>c. conn[p] \in Conns
        BY <1>2
    <2> DEFINE e == Consumed(f.conn, n)
    <2>n. n = Units(log[p][conn[p].recv[1][1]])
        OBVIOUS
    <2> HIDE DEF d, n
    <2>2. /\ e \in Conns /\ e.st = "open" /\ e.send = f.conn.send
          /\ e.recv = SubSeq(conn[p].recv, n + 1, Len(conn[p].recv))
        <3>1. f.conn \in Conns /\ n \in 0 .. Len(f.conn.recv)
            BY <2>1, <1>5
        <3>2. /\ e \in Conns /\ e.st = f.conn.st /\ e.send = f.conn.send
              /\ e.recv = SubSeq(f.conn.recv, n + 1, Len(f.conn.recv))
            BY <3>1, ConsumedEffect
        <3> HIDE DEF e
        <3> QED
            BY <3>2, <1>5
    <2>3. e.recv = Consumed(conn[p], n).recv
        BY <2>1, <2>2, <2>c, ConsumedEffect
    <2>s. e.send \in Seq(Kept(p)')
        BY <2>2, <1>5
    <2> HIDE DEF e
    <2>4. /\ conn' \in [Peers -> Conns] /\ conn'[p] = e
          /\ \A q \in Peers \ {p} : conn'[q] = conn[q]
        BY <1>2, <1>9, <2>2 DEF e
    <2>5. /\ conn'[p].st = "open" /\ conn'[p].send \in Seq(Kept(p)')
          /\ conn'[p].recv = Consumed(conn[p], Units(log[p][conn[p].recv[1][1]])).recv
        BY <2>2, <2>3, <2>4, <2>s, <2>n, Zenon
    <2>6. /\ down' \in [Peers -> Answers] /\ down'[p] \in Seq(Kept(p)')
          /\ Len(down'[p]) <= SockCap
          /\ \A q \in Peers \ {p} : down'[q] = down[q]
        BY <1>5, <1>9, <1>d
    <2>7. up' = up /\ th' = th
        BY <1>9
    <2> QED
        BY <2>4, <2>5, <2>6, <2>7, ProcessOn
<1> QED
    BY <1>f, <1>7, <1>8, <1>9

\* A handler that does not write leaves the image as it is.
LEMMA StillImage ==
    ASSUME IInv, UNCHANGED <<cache, torn, running, disk, peer, log, got, synced, power>>
    PROVE  ImageStep
<1>1. \A q \in Peers : Kept(q)' = Kept(q)
    BY KeptSame
<1> QED
    BY <1>1 DEF IInv, Kinds, ImageStep

\* The write of a block keeps every promise: it stores the block again, or
\* the block is known as torn from now on.
LEMMA WrittenImage ==
    ASSUME IInv, NEW m \in Msgs, m.kind \in {"block", "badblock"}, NEW r \in Process(m),
           cache' = IF r.data = "none" THEN cache ELSE [cache EXCEPT ![m.b] = r.data],
           torn' = IF r.data = "none" THEN torn
                  ELSE IF r.ok THEN torn \ {m.b} ELSE torn \cup {m.b},
           UNCHANGED <<running, disk, peer, log, got, synced, power>>
    PROVE  /\ ImageStep /\ r.ok \in BOOLEAN
           /\ r.ok /\ m.kind = "block" => cache'[m.b] = "new"
<1>1. /\ cache \in [Blocks -> {"old", "new", "torn"}] /\ torn \subseteq Blocks
    BY DEF IInv, Kinds
<1>2. \/ r = [ok |-> FALSE, data |-> "none"]
      \/ m.kind = "block" /\ r = [ok |-> TRUE, data |-> "new"]
      \/ m.kind = "block" /\ r = [ok |-> FALSE, data |-> "torn"]
    BY DEF Process
<1>3. m.kind = "block" => m.b \in Blocks
    BY DEF Msgs
<1>4. CASE r = [ok |-> FALSE, data |-> "none"]
    <2>1. r.ok = FALSE /\ r.data = "none"
        BY <1>4
    <2>2. UNCHANGED <<cache, torn>>
        BY <2>1
    <2> QED
        BY <2>1, <2>2, StillImage
<1>5. CASE m.kind = "block" /\ r = [ok |-> TRUE, data |-> "new"]
    <2>1. r.ok = TRUE /\ r.data = "new"
        BY <1>5
    <2>2. cache' = [cache EXCEPT ![m.b] = "new"] /\ torn' = torn \ {m.b}
        BY <2>1
    <2>3. /\ cache' \in [Blocks -> {"old", "new", "torn"}] /\ cache'[m.b] = "new"
          /\ \A b \in Blocks : cache'[b] = cache[b] \/ cache'[b] = "new"
        BY <2>2, <1>1, <1>3, <1>5
    <2>4. \A b : (cache[b] = "new" \/ b = m.b) /\ b \in Blocks => cache'[b] = "new"
        BY <2>3
    <2>5. ASSUME NEW q \in Peers, NEW a \in Kept(q) PROVE a \in Kept(q)'
        <3> DEFINE k == log[q][a.msg]
        <3>1. a \in [msg : 1 .. Len(log[q]), ok : BOOLEAN]
            BY DEF Kept
        <3>2. a.ok /\ k.kind = "block" /\ k.b \notin torn /\ (power \/ synced)
              => cache[k.b] = "new"
            BY DEF Kept
        <3>3. k.kind = "block" => k.b \in Blocks
            <4>1. log[q] \in Seq(Msgs)
                BY DEF IInv, Kinds
            <4>2. k \in Msgs
                BY <3>1, <4>1
            <4> QED
                BY <4>2 DEF Msgs
        <3>4. a.ok /\ k.kind = "block" /\ k.b \notin torn' /\ (power' \/ synced')
              => cache'[k.b] = "new"
            BY <3>2, <3>3, <2>2, <2>4
        <3> QED
            BY <3>1, <3>4 DEF Kept
    <2> QED
        BY <2>1, <2>2, <2>3, <2>5, <1>1 DEF ImageStep
<1>6. CASE m.kind = "block" /\ r = [ok |-> FALSE, data |-> "torn"]
    <2>1. r.ok = FALSE /\ r.data = "torn"
        BY <1>6
    <2>2. cache' = [cache EXCEPT ![m.b] = "torn"] /\ torn' = torn \cup {m.b}
        BY <2>1
    <2>3. /\ cache' \in [Blocks -> {"old", "new", "torn"}] /\ torn' \subseteq Blocks
          /\ \A b \in Blocks : b # m.b => cache'[b] = cache[b]
        BY <2>2, <1>1, <1>3, <1>6
    <2>5. ASSUME NEW q \in Peers, NEW a \in Kept(q) PROVE a \in Kept(q)'
        <3> DEFINE k == log[q][a.msg]
        <3>1. a \in [msg : 1 .. Len(log[q]), ok : BOOLEAN]
            BY DEF Kept
        <3>2. a.ok /\ k.kind = "block" /\ k.b \notin torn /\ (power \/ synced)
              => cache[k.b] = "new"
            BY DEF Kept
        <3>3. k.kind = "block" => k.b \in Blocks
            <4>1. log[q] \in Seq(Msgs)
                BY DEF IInv, Kinds
            <4>2. k \in Msgs
                BY <3>1, <4>1
            <4> QED
                BY <4>2 DEF Msgs
        <3>4. a.ok /\ k.kind = "block" /\ k.b \notin torn' /\ (power' \/ synced')
              => cache'[k.b] = "new"
            BY <3>2, <3>3, <2>2, <2>3
        <3> QED
            BY <3>1, <3>4 DEF Kept
    <2> QED
        BY <2>1, <2>3, <2>5 DEF ImageStep
<1> QED
    BY <1>2, <1>4, <1>5, <1>6

\* The answer to the message at the front of the buffer.
LEMMA AnswerIsKept ==
    ASSUME IInv, log' = log, NEW p \in Peers, TryParse(p) = "Ok", NEW ok \in BOOLEAN,
           NEW m, m = log[p][conn[p].recv[1][1]],
           ok /\ m.kind = "block" => cache'[m.b] = "new"
    PROVE  Answer(p, ok) \in Kept(p)' /\ Answer(p, ok).msg = conn[p].recv[1][1]
<1> DEFINE k == conn[p].recv[1][1]
<1>1. k \in 1 .. Len(log[p])
    BY TryParseFacts DEF IInv
<1>2. Answer(p, ok) = [msg |-> k, ok |-> ok]
    BY DEF Answer
<1>3. m = log[p][k]
    OBVIOUS
<1> HIDE DEF k
<1>4. Answer(p, ok).msg = k /\ Answer(p, ok).ok = ok
    BY <1>2
<1>5. Answer(p, ok) \in [msg : 1 .. Len(log[p]), ok : BOOLEAN]
    BY <1>1, <1>2
<1>6. Answer(p, ok) \in Kept(p)'
    BY <1>3, <1>4, <1>5 DEF Kept
<1> QED
    BY <1>4, <1>6 DEF k

\* A message that is skipped or ignored.
LEMMA IgnoreKeeps ==
    ASSUME IInv, th.at = "process", ImageStep, NEW p \in Peers, p = th.p,
           TryParse(p) \in {"Ok", "Skip"}, NEW n,
           n = Units(log[p][conn[p].recv[1][1]]), Ignore(p, n)
    PROVE  IInv'
<1>1. Kinds /\ PeerInv(p)
    BY DEF IInv
<1>2. /\ conn' = [conn EXCEPT ![p] = Consumed(@, n)]
      /\ UNCHANGED <<up, down, th>>
    BY DEF Ignore
<1>3. n \in 1 .. Len(conn[p].recv)
    BY <1>1, TryParseFacts, Zenon
<1>4. conn \in [Peers -> Conns] /\ conn[p].recv \in Seq(Nat \X Nat)
    BY <1>1, PeerFacts DEF Kinds
<1>5. n \in 0 .. Len(conn[p].recv)
    <2>1. Len(conn[p].recv) \in Nat
        BY <1>4
    <2>2. \A k \in Nat : \A i \in 1 .. k : i \in 0 .. k
        OBVIOUS
    <2> QED
        BY <2>1, <2>2, <1>3, Zenon
<1>6. LET e == Consumed(conn[p], n)
      IN  e \in Conns /\ e.st = conn[p].st /\ e.send = conn[p].send
    BY <1>4, <1>5, ConsumedEffect, Zenon
<1>7. /\ conn' \in [Peers -> Conns] /\ conn'[p] = Consumed(conn[p], n)
      /\ \A q \in Peers \ {p} : conn'[q] = conn[q]
    BY <1>2, <1>4, <1>6, Zenon
<1>8. conn[p].st = "open"
    BY DEF IInv, HandInv, Handling
<1>9. Kept(p) \subseteq Kept(p)'
    BY DEF ImageStep
<1>10. /\ conn[p].send \in Seq(Kept(p)) /\ down[p] \in Seq(Kept(p))
       /\ Len(down[p]) <= SockCap
    BY <1>1 DEF PeerInv, AnswerInv
<1>11. conn[p].send \in Seq(Kept(p)') /\ down[p] \in Seq(Kept(p)')
    BY <1>9, <1>10, SeqMono
<1>12. /\ conn'[p].st = "open" /\ conn'[p].send \in Seq(Kept(p)')
       /\ conn'[p].recv = Consumed(conn[p], Units(log[p][conn[p].recv[1][1]])).recv
    BY <1>6, <1>7, <1>8, <1>11, Zenon
<1>13. /\ down' \in [Peers -> Answers] /\ down'[p] \in Seq(Kept(p)')
       /\ Len(down'[p]) <= SockCap /\ \A q \in Peers \ {p} : down'[q] = down[q]
       /\ up' = up /\ th' = th
    BY <1>1, <1>2, <1>10, <1>11 DEF Kinds
<1> QED
    BY <1>7, <1>12, <1>13, ProcessOn, Zenon


\* ProcessMessages has not got a whole message yet and returns.
LEMMA NeedMoreKeeps ==
    ASSUME IInv, th.at = "process", NEW p \in Peers, p = th.p, TryParse(p) = "NeedMore",
           th' = [th EXCEPT !.at = th.onward],
           UNCHANGED <<conn, up, down, cache, torn, running, disk, peer, log, got, synced,
                       power>>
    PROVE  IInv'
<1>1. Kinds /\ HandInv /\ SpaceInv /\ \A q \in Peers : PeerInv(q)
    BY DEF IInv
<1>2. Handling /\ Alive
    BY DEF Handling, Alive
<1>3. th \in Busy
    BY <1>1, <1>2, ThreadFacts
<1>4. th.onward \in {"read", "out"} /\ conn[p].st = "open"
    BY <1>1, <1>2 DEF HandInv
<1>5. th' \in Busy /\ th'.at \in {"read", "out"} /\ th'.p = p
    BY <1>3, <1>4 DEF Busy
<1>6. Kinds'
    BY <1>1, <1>5 DEF Kinds, Resting, Busy
<1>7. HandInv'
    BY <1>4, <1>5 DEF HandInv, Handling
<1>8. SpaceInv'
    <2>1. Len(conn[p].recv) < RecvCap
        <3>1. Len(conn[p].recv) <= 2
            BY <1>1, TryParseFacts
        <3>2. conn[p].recv \in Seq(Nat \X Nat)
            BY <1>1, PeerFacts
        <3>3. Len(conn[p].recv) \in Nat
            BY <3>2
        <3>4. \A k \in Nat : k <= 2 => k < RecvCap
            BY ServerAssumption
        <3> QED
            BY <3>1, <3>3, <3>4, Zenon
    <2>2. \A q \in Peers : Len(conn[q].recv) < RecvCap
        BY <2>1, <1>1, <1>2, Zenon DEF SpaceInv
    <2>3. conn' = conn
        OBVIOUS
    <2> QED
        BY <2>2, <2>3, Zenon DEF SpaceInv
<1>9. SyncInv'
    BY <1>2, SyncAfter
<1>10. ASSUME NEW q \in Peers PROVE PeerInv(q)'
    <2>1. Kept(q)' = Kept(q)
        BY KeptSame
    <2> QED
        BY <2>1, <1>1, QuietPeer
<1> QED
    BY <1>6, <1>7, <1>8, <1>9, <1>10 DEF IInv

\* A handler that ends its connection without an answer.
LEMMA RejectKeeps ==
    ASSUME IInv, th.at = "process", ImageStep, UNCHANGED <<cache, torn>>,
           NEW p \in Peers, p = th.p, CloseConn({p}, conn, down),
           th' \in {Waiting, At("crashed")}
    PROVE  IInv'
<1>1. \A q \in Peers : /\ down[q] \in Seq(Kept(q)) /\ Len(down[q]) <= SockCap
                       /\ Kept(q) \subseteq Kept(q)'
    BY DEF IInv, PeerInv, AnswerInv, ImageStep
<1>2. ASSUME NEW q \in Peers PROVE down[q] \in Seq(Kept(q)')
    BY <1>1, SeqMono
<1>3. down \in [Peers -> Answers]
    BY DEF IInv, Kinds
<1> QED
    BY <1>1, <1>2, <1>3, ProcessClose, Zenon

\* HELLO, right or wrong, the first one or not.
LEMMA HelloKeeps ==
    ASSUME IInv, th.at = "process", ImageStep, UNCHANGED <<cache, torn>>,
           NEW p \in Peers, p = th.p, TryParse(p) = "Ok",
           NEW m, m = log[p][conn[p].recv[1][1]], m.kind \in {"hello", "badhello"},
           HandleHello(p, m)
    PROVE  IInv'
<1>1. Kinds /\ PeerInv(p) /\ log' = log
    BY DEF IInv, ImageStep
<1>2. conn[p] \in Conns /\ conn[p].st = "open"
    BY <1>1, PeerFacts DEF IInv, HandInv, Handling
<1>3. CASE conn[p].hello
    BY <1>3, IgnoreKeeps DEF HandleHello
<1>4. CASE ~conn[p].hello /\ m.kind = "hello"
    <2> DEFINE c == [conn[p] EXCEPT !.hello = TRUE]
    <2>1. EnqueueAck(p, c, Answer(p, TRUE), FALSE)
        BY <1>4, Zenon DEF HandleHello
    <2>2. /\ c \in Conns /\ c.st = "open" /\ c.recv = conn[p].recv
          /\ c.send = conn[p].send
        BY <1>2, Zenon DEF Conns
    <2>3. Answer(p, TRUE) \in Kept(p)' /\ Answer(p, TRUE).msg = conn[p].recv[1][1]
        BY <1>1, <1>4, AnswerIsKept
    <2> HIDE DEF c
    <2> QED
        BY <2>1, <2>2, <2>3, AckKeeps
<1>5. CASE ~conn[p].hello /\ m.kind # "hello"
    <2>1. EnqueueAck(p, conn[p], Answer(p, FALSE), TRUE)
        BY <1>5, Zenon DEF HandleHello
    <2>2. Answer(p, FALSE) \in Kept(p)' /\ Answer(p, FALSE).msg = conn[p].recv[1][1]
        BY <1>1, AnswerIsKept, Zenon
    <2> QED
        BY <1>2, <2>1, <2>2, AckKeeps
<1> QED
    BY <1>3, <1>4, <1>5, Zenon

\* DATA_BLOCK: refused before HELLO, otherwise checked, written and answered.
LEMMA DataBlockKeeps ==
    ASSUME IInv, th.at = "process", NEW p \in Peers, p = th.p, TryParse(p) = "Ok",
           NEW m, m = log[p][conn[p].recv[1][1]], m.kind \in {"block", "badblock"},
           HandleDataBlock(p, m),
           UNCHANGED <<running, disk, peer, log, got, synced, power>>
    PROVE  IInv'
<1>1. Kinds /\ PeerInv(p) /\ log' = log
    BY DEF IInv
<1>2. conn[p] \in Conns /\ conn[p].st = "open"
    BY <1>1, PeerFacts, Zenon DEF IInv, HandInv, Handling
<1>3. m \in Msgs
    BY <1>1, TryParseFacts, Zenon
<1>4. CASE ~conn[p].hello
    <2>1. /\ CloseConn({p}, conn, down) /\ th' \in {Waiting, At("crashed")}
          /\ UNCHANGED <<cache, torn>>
        BY <1>4 DEF HandleDataBlock, Reject, Stale
    <2>2. ImageStep
        BY <2>1, StillImage, Zenon
    <2> QED
        BY <2>1, <2>2, RejectKeeps
<1>5. CASE conn[p].hello
    <2>1. PICK r \in Process(m) :
             /\ EnqueueAck(p, conn[p], Answer(p, r.ok), FALSE)
             /\ cache' = IF r.data = "none" THEN cache ELSE [cache EXCEPT ![m.b] = r.data]
             /\ torn' = IF r.data = "none" THEN torn
                       ELSE IF r.ok THEN torn \ {m.b} ELSE torn \cup {m.b}
        BY <1>5, Zenon DEF HandleDataBlock
    <2>2. /\ ImageStep /\ r.ok \in BOOLEAN
          /\ r.ok /\ m.kind = "block" => cache'[m.b] = "new"
        BY <1>3, <2>1, WrittenImage, Zenon
    <2>3. Answer(p, r.ok) \in Kept(p)' /\ Answer(p, r.ok).msg = conn[p].recv[1][1]
        BY <1>1, <2>2, AnswerIsKept, Zenon
    <2> QED
        BY <1>2, <2>1, <2>2, <2>3, AckKeeps, Zenon
<1> QED
    BY <1>4, <1>5

\* One turn of ProcessMessages.
LEMMA ProcessKeeps ==
    ASSUME IInv, ProcessMessages
    PROVE  IInv'
<1>1. th.at = "process"
    BY DEF ProcessMessages
<1>2. th.p \in Peers
    BY <1>1, ThreadFacts DEF IInv, Handling
<1>3. PICK p \in Peers : p = th.p
    BY <1>2
<1>4. PICK m : m = log[p][conn[p].recv[1][1]]
    OBVIOUS
<1>5. /\ \/ /\ TryParse(p) = "NeedMore"
            /\ th' = [th EXCEPT !.at = th.onward]
            /\ UNCHANGED <<conn, up, down, cache, torn>>
         \/ /\ TryParse(p) = "Skip"
            /\ Ignore(p, 1) /\ UNCHANGED <<cache, torn>>
         \/ /\ TryParse(p) = "Oversize"
            /\ CloseConn({p}, conn, down) /\ th' = Waiting
            /\ UNCHANGED <<cache, torn>>
         \/ /\ TryParse(p) = "Ok" /\ m.kind \in {"hello", "badhello"}
            /\ HandleHello(p, m) /\ UNCHANGED <<cache, torn>>
         \/ /\ TryParse(p) = "Ok" /\ m.kind \in {"block", "badblock"}
            /\ HandleDataBlock(p, m)
         \/ /\ TryParse(p) = "Ok" /\ m.kind = "bye"
            /\ HandleBye(p) /\ UNCHANGED <<cache, torn>>
         \/ /\ TryParse(p) = "Ok" /\ m.kind = "other"
            /\ Ignore(p, Units(m)) /\ UNCHANGED <<cache, torn>>
      /\ UNCHANGED <<running, disk, peer, log, got, synced, power>>
    BY <1>3, <1>4, Zenon DEF ProcessMessages
<1>6. UNCHANGED <<cache, torn>> => ImageStep
    BY <1>5, StillImage
<1>7. Kinds /\ PeerInv(p)
    BY DEF IInv
<1>8. CASE TryParse(p) = "NeedMore"
    BY <1>1, <1>3, <1>5, <1>8, NeedMoreKeeps
<1>9. CASE TryParse(p) = "Skip"
    <2>1. Ignore(p, 1) /\ ImageStep
        BY <1>5, <1>6, <1>9
    <2>2. m \in Msgs /\ m.kind = "junk"
        BY <1>4, <1>7, <1>9, TryParseFacts
    <2>3. Units(m) = 1
        BY <2>2, UnitsFacts
    <2> QED
        BY <1>1, <1>3, <1>4, <1>9, <2>1, <2>3, IgnoreKeeps
<1>10. CASE TryParse(p) = "Oversize"
    <2>1. /\ CloseConn({p}, conn, down) /\ th' = Waiting /\ UNCHANGED <<cache, torn>>
          /\ ImageStep
        BY <1>5, <1>6, <1>10
    <2> QED
        BY <1>1, <1>3, <2>1, RejectKeeps
<1>11. CASE TryParse(p) = "Ok" /\ m.kind \in {"hello", "badhello"}
    <2>1. HandleHello(p, m) /\ UNCHANGED <<cache, torn>> /\ ImageStep
        BY <1>5, <1>6, <1>11
    <2> QED
        BY <1>1, <1>3, <1>4, <1>11, <2>1, HelloKeeps, Zenon
<1>12. CASE TryParse(p) = "Ok" /\ m.kind \in {"block", "badblock"}
    <2>1. /\ HandleDataBlock(p, m)
          /\ UNCHANGED <<running, disk, peer, log, got, synced, power>>
        BY <1>5, <1>12
    <2> QED
        BY <1>1, <1>3, <1>4, <1>12, <2>1, DataBlockKeeps, Zenon
<1>13. CASE TryParse(p) = "Ok" /\ m.kind = "bye"
    <2>1. EnqueueAck(p, conn[p], Answer(p, TRUE), TRUE) /\ ImageStep
        BY <1>5, <1>6, <1>13 DEF HandleBye
    <2>2. Answer(p, TRUE) \in Kept(p)' /\ Answer(p, TRUE).msg = conn[p].recv[1][1]
        BY <1>4, <1>5, <1>13, AnswerIsKept
    <2>3. conn[p] \in Conns /\ conn[p].st = "open"
        BY <1>1, <1>3, <1>7, PeerFacts, Zenon DEF IInv, HandInv, Handling
    <2> QED
        BY <1>1, <1>3, <1>13, <2>1, <2>2, <2>3, AckKeeps
<1>14. CASE TryParse(p) = "Ok" /\ m.kind = "other"
    <2>1. Ignore(p, Units(m)) /\ ImageStep
        BY <1>5, <1>6, <1>14
    <2> QED
        BY <1>1, <1>3, <1>4, <1>14, <2>1, IgnoreKeeps, Zenon
<1> QED
    BY <1>5, <1>8, <1>9, <1>10, <1>11, <1>12, <1>13, <1>14


\* Stop, on a signal.
LEMMA StopKeeps ==
    ASSUME IInv, Stop
    PROVE  IInv'
<1>1. /\ Alive /\ running' = FALSE /\ CloseConn(Live, conn, down)
      /\ th' \in IF Handling THEN Stale \cup {At("hung")} ELSE {Waiting}
      /\ UNCHANGED <<cache, disk, peer, log, got, torn, synced, power>>
    BY DEF Stop
<1>2. Kinds /\ \A q \in Peers : PeerInv(q)
    BY DEF IInv
<1>3. th' \in {At("wait"), At("crashed"), At("hung")}
    BY <1>1 DEF Stale, Waiting
<1>4. th' \in Resting /\ th'.at \in {"wait", "crashed", "hung"}
    BY <1>3, RestingFacts
<1>5. Live \in SUBSET Peers
    BY DEF Live
<1>6. /\ conn' \in [Peers -> Conns] /\ up' \in [Peers -> Seq(Nat \X Nat)]
      /\ down' \in [Peers -> Answers] /\ \A q \in Peers : PeerInv(q)'
      /\ \A q \in Live : conn'[q] = Gone
      /\ \A q \in Peers \ Live : conn'[q] = conn[q]
    BY <1>1, <1>5, CloseStep
<1>7. Kinds'
    BY <1>1, <1>2, <1>4, <1>6 DEF Kinds
<1>8. HandInv'
    BY <1>4 DEF HandInv, Handling
<1>9. SpaceInv'
    <2>1. ASSUME NEW q \in Peers PROVE conn'[q].recv = <<>>
        <3>1. CASE q \in Live
            BY <3>1, <1>6, FixedConns
        <3>2. CASE q \notin Live
            <4>1. conn[q] \in {NoConn, Gone}
                BY <3>2, <1>2 DEF Live, PeerInv, BufferInv
            <4> QED
                BY <4>1, <3>2, <1>6, FixedConns
        <3> QED
            BY <3>1, <3>2
    <2> QED
        BY <2>1, <1>1, SpaceAfter
<1>10. SyncInv'
    BY <1>1, SyncAfter
<1> QED
    BY <1>6, <1>7, <1>8, <1>9, <1>10 DEF IInv

\* Run returns and the images are closed.
LEMMA CloseAllKeeps ==
    ASSUME IInv, CloseAll
    PROVE  IInv'
<1>1. /\ th = Waiting /\ th' = At("exited")
      /\ \/ disk' = cache /\ synced' = TRUE
         \/ disk' = disk /\ synced' = FALSE
      /\ UNCHANGED <<running, conn, cache, peer, up, down, log, got, torn, power>>
    BY DEF CloseAll
<1>2. Kinds /\ SyncInv /\ \A q \in Peers : PeerInv(q)
    BY DEF IInv
<1>3. th.at = "wait" /\ th' \in Resting /\ th'.at = "exited"
    BY <1>1, <1>2, ThreadFacts, RestingFacts
<1>4. power
    BY <1>2, <1>3 DEF SyncInv, Alive
<1>5. Kinds'
    BY <1>1, <1>2, <1>3 DEF Kinds
<1>6. HandInv' /\ SpaceInv'
    BY <1>3 DEF HandInv, SpaceInv, Handling, Alive
<1>7. SyncInv'
    BY <1>1, <1>3, <1>4 DEF SyncInv, Alive, Handling
<1>8. ASSUME NEW q \in Peers PROVE PeerInv(q)'
    <2>1. Kept(q) \subseteq Kept(q)'
        BY <1>1, <1>4 DEF Kept
    <2> QED
        BY <2>1, <1>1, <1>2, QuietPeer
<1> QED
    BY <1>5, <1>6, <1>7, <1>8 DEF IInv

\* The machine loses its power: what was synced is still there.
LEMMA PowerKeeps ==
    ASSUME IInv, PowerLoss
    PROVE  IInv'
<1>1. /\ power' = FALSE /\ cache' = disk'
      /\ th' = IF Alive THEN At("crashed") ELSE th
      /\ UNCHANGED <<running, conn, peer, up, down, log, got, torn, synced>>
    BY DEF PowerLoss
<1>2. PICK S \in SUBSET Blocks :
         disk' = [b \in Blocks |-> IF b \in S THEN cache[b] ELSE disk[b]]
    BY DEF PowerLoss
<1>3. Kinds /\ SyncInv /\ \A q \in Peers : PeerInv(q)
    BY DEF IInv
<1>4. disk' \in [Blocks -> {"old", "new", "torn"}]
    BY <1>2, <1>3 DEF Kinds
<1>5. synced => disk' = cache
    BY <1>2, <1>3 DEF SyncInv, Kinds
<1>6. /\ th' \in Resting /\ ~Alive' /\ ~Handling'
      /\ synced => th' = th
    <2>1. CASE Alive
        <3>1. th' \in Resting /\ th'.at = "crashed"
            BY <2>1, <1>1, RestingFacts
        <3>2. ~synced
            BY <2>1, <1>3 DEF SyncInv, Alive, Handling
        <3> QED
            BY <3>1, <3>2 DEF Alive, Handling
    <2>2. CASE ~Alive
        <3>1. ~Handling
            BY <2>2 DEF Alive
        <3>2. th' = th /\ th \in Resting
            BY <2>2, <3>1, <1>1, <1>3, ThreadFacts
        <3> QED
            BY <2>2, <3>1, <3>2 DEF Alive, Handling
    <2> QED
        BY <2>1, <2>2
<1>7. Kinds'
    BY <1>1, <1>3, <1>4, <1>6 DEF Kinds
<1>8. HandInv' /\ SpaceInv'
    BY <1>6 DEF HandInv, SpaceInv
<1>9. SyncInv'
    BY <1>1, <1>3, <1>6 DEF SyncInv
<1>10. ASSUME NEW q \in Peers PROVE PeerInv(q)'
    <2>1. Kept(q) \subseteq Kept(q)'
        <3>1. CASE synced
            BY <3>1, <1>1, <1>5 DEF Kept
        <3>2. CASE ~synced
            BY <3>2, <1>1 DEF Kept
        <3> QED
            BY <3>1, <3>2
    <2> QED
        BY <2>1, <1>1, <1>3, QuietPeer
<1> QED
    BY <1>7, <1>8, <1>9, <1>10 DEF IInv

\* A peer connects or leaves.
LEMMA PeerKeeps ==
    ASSUME IInv, peer' \in [Peers -> {"new", "open", "closed", "reset"}],
           UNCHANGED <<th, running, conn, cache, disk, up, down, log, got, torn, synced,
                       power>>
    PROVE  IInv'
<1>1. Kinds /\ HandInv /\ SpaceInv /\ \A q \in Peers : PeerInv(q)
    BY DEF IInv
<1>2. Kinds'
    BY <1>1 DEF Kinds, Resting, Busy
<1>3. HandInv' /\ SpaceInv'
    BY <1>1 DEF HandInv, SpaceInv, Handling, Alive
<1>4. SyncInv'
    BY SyncAfter
<1>5. ASSUME NEW q \in Peers PROVE PeerInv(q)'
    <2>1. Kept(q)' = Kept(q)
        BY KeptSame
    <2> QED
        BY <2>1, <1>1, QuietPeer
<1> QED
    BY <1>2, <1>3, <1>4, <1>5 DEF IInv

\* A peer reads an answer.
LEMMA PeerReadKeeps ==
    ASSUME IInv, NEW p \in Peers, PeerRead(p)
    PROVE  IInv'
<1>1. /\ down[p] # <<>> /\ got' = [got EXCEPT ![p] = Append(@, Head(down[p]))]
      /\ down' = [down EXCEPT ![p] = Tail(@)]
      /\ UNCHANGED <<th, running, conn, cache, disk, peer, up, log, torn, synced, power>>
    BY DEF PeerRead
<1>2. Kinds /\ HandInv /\ SpaceInv /\ \A q \in Peers : PeerInv(q)
    BY DEF IInv
<1>3. ASSUME NEW T, down[p] \in Seq(T), got[p] \in Seq(T)
      PROVE  /\ Tail(down[p]) \in Seq(T) /\ Len(Tail(down[p])) <= Len(down[p])
             /\ Append(got[p], Head(down[p])) \in Seq(T)
    BY <1>1, <1>3
<1>4. got \in [Peers -> Answers] /\ down \in [Peers -> Answers]
    BY <1>2 DEF Kinds
<1>5. Tail(down[p]) \in Answers /\ Append(got[p], Head(down[p])) \in Answers
    BY <1>3, <1>4 DEF Answers
<1>6. got' \in [Peers -> Answers] /\ down' \in [Peers -> Answers]
    BY <1>1, <1>4, <1>5
<1>7. Kinds'
    BY <1>1, <1>2, <1>6 DEF Kinds, Resting, Busy
<1>8. HandInv' /\ SpaceInv'
    BY <1>1, <1>2 DEF HandInv, SpaceInv, Handling, Alive
<1>9. SyncInv'
    BY <1>1, SyncAfter
<1>10. ASSUME NEW q \in Peers PROVE PeerInv(q)'
    <2>1. Kept(q)' = Kept(q)
        BY <1>1, KeptSame
    <2>2. CASE q # p
        <3>1. down'[q] = down[q] /\ got'[q] = got[q]
            BY <2>2, <1>1, <1>4
        <3> QED
            BY <3>1, <2>1, <1>1, <1>2, QuietPeer
    <2>3. CASE q = p
        <3>1. PeerInv(p)
            BY <1>2
        <3>2. /\ conn[p].send \in Seq(Kept(p)) /\ down[p] \in Seq(Kept(p))
              /\ Len(down[p]) <= SockCap /\ got[p] \in Seq(Kept(p))
            BY <3>1 DEF PeerInv, AnswerInv
        <3>3. /\ Tail(down[p]) \in Seq(Kept(p)) /\ Len(Tail(down[p])) <= Len(down[p])
              /\ Append(got[p], Head(down[p])) \in Seq(Kept(p))
            BY <3>2, <1>3
        <3>4. Len(Tail(down[p])) <= SockCap
            <4>1. Len(Tail(down[p])) \in Nat /\ Len(down[p]) \in Nat /\ SockCap \in Nat
                BY <3>2, <3>3, ServerAssumption
            <4>2. \A x, y, z \in Nat : x <= y /\ y <= z => x <= z
                OBVIOUS
            <4> QED
                BY <4>1, <4>2, <3>2, <3>3, Zenon
        <3>5. down'[p] = Tail(down[p]) /\ got'[p] = Append(got[p], Head(down[p]))
            BY <1>1, <1>4
        <3>6. AnswerInv(p)'
            BY <3>2, <3>3, <3>4, <3>5, <1>1, <2>1, <2>3 DEF AnswerInv
        <3>7. BufferInv(p)' /\ StreamInv(p)'
            BY <3>1, <1>1 DEF PeerInv, BufferInv, StreamInv, Stream
        <3> QED
            BY <3>6, <3>7, <2>3 DEF PeerInv
    <2> QED
        BY <2>2, <2>3
<1> QED
    BY <1>7, <1>8, <1>9, <1>10 DEF IInv

\* What is sent follows what is on its way.
LEMMA StreamSent ==
    ASSUME NEW p \in Peers, conn[p].recv \in Seq(Nat \X Nat), up[p] \in Seq(Nat \X Nat),
           NEW t \in Seq(Nat \X Nat), conn' = conn, up'[p] = up[p] \o t
    PROVE  Stream(p)' = Stream(p) \o t
<1> DEFINE r == conn[p].recv  u == up[p]
<1>1. r \in Seq(Nat \X Nat) /\ u \in Seq(Nat \X Nat)
    OBVIOUS
<1> HIDE DEF r, u
<1>2. PICK v : v = u \o t
    OBVIOUS
<1>3. v \in Seq(Nat \X Nat) /\ Parts(v, u, t)
    BY <1>1, <1>2, PartsOfJoined
<1>4. Regrouped(r, u, t, v)
    BY <1>1, <1>3, JoinedAgain
<1> QED
    BY <1>2, <1>4, Zenon DEF Regrouped, Stream, r, u

\* A peer sends a message.
LEMMA PeerSendKeeps ==
    ASSUME IInv, NEW p \in Peers, PeerSend(p)
    PROVE  IInv'
<1>1. /\ conn[p].st # "gone"
      /\ UNCHANGED <<th, running, conn, cache, disk, peer, down, got, torn, synced, power>>
    BY DEF PeerSend
<1>2. PICK m \in Msgs :
         /\ log' = [log EXCEPT ![p] = Append(@, m)]
         /\ up' = [up EXCEPT ![p] = @ \o UnitsSent(m, Len(log[p]) + 1)]
    BY DEF PeerSend, UnitsSent
<1>3. Kinds /\ HandInv /\ SpaceInv /\ \A q \in Peers : PeerInv(q)
    BY DEF IInv
<1>4. log \in [Peers -> Seq(Msgs)] /\ up \in [Peers -> Seq(Nat \X Nat)]
    BY <1>3 DEF Kinds
<1>5. log[p] \in Seq(Msgs) /\ Len(log[p]) + 1 \in Nat
    BY <1>4
<1>6. UnitsSent(m, Len(log[p]) + 1) \in Seq(Nat \X Nat)
    BY <1>5, UnitsSentFacts
<1>7. /\ Append(log[p], m) \in Seq(Msgs) /\ Len(Append(log[p], m)) = Len(log[p]) + 1
      /\ \A k \in 1 .. Len(log[p]) : Append(log[p], m)[k] = log[p][k]
    BY <1>5, Longer
<1>8. up[p] \o UnitsSent(m, Len(log[p]) + 1) \in Seq(Nat \X Nat)
    BY <1>4, <1>6
<1>9. /\ log' \in [Peers -> Seq(Msgs)] /\ up' \in [Peers -> Seq(Nat \X Nat)]
      /\ log'[p] = Append(log[p], m)
      /\ up'[p] = up[p] \o UnitsSent(m, Len(log[p]) + 1)
      /\ \A q \in Peers \ {p} : log'[q] = log[q] /\ up'[q] = up[q]
    BY <1>2, <1>4, <1>7, <1>8
<1>10. Kinds'
    BY <1>1, <1>3, <1>9 DEF Kinds, Resting, Busy
<1>11. HandInv' /\ SpaceInv'
    BY <1>1, <1>3 DEF HandInv, SpaceInv, Handling, Alive
<1>12. SyncInv'
    BY <1>1, SyncAfter
<1>13. ASSUME NEW q \in Peers PROVE PeerInv(q)'
    <2>1. CASE q # p
        <3>1. log'[q] = log[q] /\ up'[q] = up[q]
            BY <2>1, <1>9
        <3>2. Kept(q)' = Kept(q)
            BY <3>1, <1>1 DEF Kept
        <3> QED
            BY <3>1, <3>2, <1>1, <1>3, QuietPeer
    <2>2. CASE q = p
        <3>1. PeerInv(p)
            BY <1>3
        <3>2. Kept(p) \subseteq Kept(p)'
            <4> SUFFICES ASSUME NEW a \in Kept(p) PROVE a \in Kept(p)'
                OBVIOUS
            <4>1. a \in [msg : 1 .. Len(log[p]), ok : BOOLEAN]
                BY DEF Kept
            <4>2. a.msg \in 1 .. Len(log[p])
                BY <4>1
            <4>3. log'[p][a.msg] = log[p][a.msg]
                BY <4>2, <1>7, <1>9
            <4>4. 1 .. Len(log[p]) \subseteq 1 .. Len(log'[p])
                <5>1. Len(log[p]) \in Nat /\ Len(log'[p]) = Len(log[p]) + 1
                    BY <1>5, <1>7, <1>9
                <5>2. \A x, y \in Nat : y = x + 1 => 1 .. x \subseteq 1 .. y
                    OBVIOUS
                <5> QED
                    BY <5>1, <5>2, <1>5
            <4>5. a \in [msg : 1 .. Len(log'[p]), ok : BOOLEAN]
                BY <4>1, <4>4
            <4> QED
                BY <4>3, <4>5, <1>1 DEF Kept
        <3>3. /\ conn[p].recv \in Seq(Nat \X Nat) /\ up[p] \in Seq(Nat \X Nat)
              /\ Stream(p) \in Seq(Nat \X Nat) /\ InSequence(Stream(p), log[p])
            BY <3>1, <1>3, PeerFacts
        <3>4. Stream(p)' = Stream(p) \o UnitsSent(m, Len(log[p]) + 1)
            BY <1>1, <1>6, <1>9, <3>3, StreamSent
        <3>5. InSequence(Stream(p)', log'[p])
            BY <3>3, <3>4, <1>5, <1>9, SentInSequence
        <3>6. StreamInv(p)'
            BY <3>5, <1>1 DEF StreamInv
        <3>7. BufferInv(p)'
            BY <3>1, <1>1 DEF PeerInv, BufferInv
        <3>8. AnswerInv(p)'
            <4>1. /\ conn[p].send \in Seq(Kept(p)) /\ down[p] \in Seq(Kept(p))
                  /\ Len(down[p]) <= SockCap /\ got[p] \in Seq(Kept(p))
                BY <3>1 DEF PeerInv, AnswerInv
            <4>2. /\ conn[p].send \in Seq(Kept(p)') /\ down[p] \in Seq(Kept(p)')
                  /\ got[p] \in Seq(Kept(p)')
                BY <4>1, <3>2, SeqMono
            <4> QED
                BY <4>1, <4>2, <1>1 DEF AnswerInv
        <3> QED
            BY <3>6, <3>7, <3>8, <2>2 DEF PeerInv
    <2> QED
        BY <2>1, <2>2
<1> QED
    BY <1>10, <1>11, <1>12, <1>13 DEF IInv

\* Every step keeps the invariant.
LEMMA NextKeeps ==
    ASSUME IInv, [Next]_vars
    PROVE  IInv'
<1>1. ASSUME NEW p \in Peers,
             \/ HandleAccept(p) \/ HandleConnError(p) \/ Readable(p) \/ Writable(p)
             \/ PeerSend(p) \/ PeerRead(p)
      PROVE  IInv'
    BY <1>1, AcceptKeeps, ErrorKeeps, ReadableKeeps, WritableKeeps, PeerSendKeeps,
       PeerReadKeeps
<1>2. ASSUME NEW p \in Peers, Connect(p) \/ PeerLeave(p)
      PROVE  IInv'
    <2>1. peer' \in [Peers -> {"new", "open", "closed", "reset"}]
        BY <1>2 DEF Connect, PeerLeave, IInv, Kinds
    <2> QED
        BY <2>1, <1>2, PeerKeeps DEF Connect, PeerLeave
<1>3. CASE HandleConnReadable \/ ProcessMessages \/ AfterRead
    BY <1>3, ReadKeeps, ProcessKeeps, AfterReadKeeps
<1>4. CASE Stop \/ CloseAll \/ PowerLoss
    BY <1>4, StopKeeps, CloseAllKeeps, PowerKeeps
<1>5. CASE UNCHANGED vars
    BY <1>5, PeerKeeps DEF vars, IInv, Kinds
<1> QED
    BY <1>1, <1>2, <1>3, <1>4, <1>5 DEF Next


\* A sequence of pairs, every one of which is a unit of the messages l.
LEMMA SeqOfUnits ==
    ASSUME NEW s \in Seq(Nat \X Nat), NEW U,
           \A i \in 1 .. Len(s) : s[i] \in U
    PROVE  s \in Seq(U)
<1>1. Len(s) \in Nat /\ s \in [1 .. Len(s) -> Nat \X Nat]
    OBVIOUS
<1>2. s \in [1 .. Len(s) -> U]
    BY <1>1
<1> QED
    BY <1>1, <1>2, FunctionIsSeq

\* Both parts of a stream in sequence consist of units of its messages.
LEMMA StreamUnits ==
    ASSUME NEW r \in Seq(Nat \X Nat), NEW u \in Seq(Nat \X Nat), NEW l \in Seq(Msgs),
           InSequence(r \o u, l)
    PROVE  LET U == (1 .. Len(l)) \X (1 .. RecvCap + 1)
           IN  r \in Seq(U) /\ u \in Seq(U)
<1> DEFINE U == (1 .. Len(l)) \X (1 .. RecvCap + 1)  s == r \o u
<1>1. /\ s \in Seq(Nat \X Nat) /\ Len(s) = Len(r) + Len(u)
      /\ \A i \in 1 .. Len(r) : s[i] = r[i]
      /\ \A i \in 1 .. Len(u) : s[Len(r) + i] = u[i]
    BY Joined
<1>2. \A i \in 1 .. Len(s) : s[i][1] \in 1 .. Len(l) /\ s[i][2] \in 1 .. Units(l[s[i][1]])
    BY DEF InSequence
<1> HIDE DEF s
<1>n. Len(r) \in Nat /\ Len(u) \in Nat /\ Len(s) \in Nat /\ Len(l) \in Nat
    BY <1>1
<1>3. ASSUME NEW i \in 1 .. Len(s) PROVE s[i] \in U
    <2>1. s[i] \in Nat \X Nat
        BY <1>1
    <2>2. s[i][1] \in 1 .. Len(l) /\ s[i][2] \in 1 .. Units(l[s[i][1]])
        BY <1>2
    <2>3. l[s[i][1]] \in Msgs
        BY <2>2
    <2>4. Units(l[s[i][1]]) \in Nat /\ Units(l[s[i][1]]) <= RecvCap + 1
        BY <2>3, UnitsFacts, ServerAssumption
    <2>5. \A n \in Nat : n <= RecvCap + 1 => 1 .. n \subseteq 1 .. RecvCap + 1
        BY ServerAssumption
    <2>6. s[i][2] \in 1 .. RecvCap + 1
        BY <2>2, <2>4, <2>5
    <2> QED
        BY <2>1, <2>2, <2>6
<1> HIDE DEF U
<1>4. r \in Seq(U)
    <2>1. ASSUME NEW i \in 1 .. Len(r) PROVE r[i] \in U
        <3>1. i \in 1 .. Len(s)
            BY <1>1, <1>n
        <3> QED
            BY <3>1, <1>1, <1>3
    <2> QED
        BY <2>1, SeqOfUnits
<1>5. u \in Seq(U)
    <2>1. ASSUME NEW i \in 1 .. Len(u) PROVE u[i] \in U
        <3>1. Len(r) + i \in 1 .. Len(s)
            <4>1. \A x, y \in Nat : \A j \in 1 .. y : x + j \in 1 .. x + y
                OBVIOUS
            <4> QED
                BY <4>1, <1>1, <1>n
        <3> QED
            BY <3>1, <1>1, <1>3
    <2> QED
        BY <2>1, SeqOfUnits
<1> QED
    BY <1>4, <1>5 DEF U

-----------------------------------------------------------------------------
(* The theorems. *)

\* IInv is an invariant of the server.
THEOREM Invariance == Spec => []IInv
<1>1. Init => IInv
    BY InitIInv
<1>2. IInv /\ [Next]_vars => IInv'
    BY NextKeeps
<1> QED
    BY <1>1, <1>2, PTL DEF Spec

\* Every buffer of the server holds what belongs to its connection, and only
\* the Conn objects in conns_ have any content (Server.h, RingBuffer.h).
THEOREM TypeCorrect == Spec => []TypeOK
<1>1. IInv => TypeOK
    <2> SUFFICES ASSUME IInv PROVE TypeOK
        OBVIOUS
    <2>1. Kinds /\ HandInv /\ \A p \in Peers : PeerInv(p)
        BY DEF IInv
    <2>2. \/ th \in [at : {"wait", "exited", "crashed", "hung"}]
          \/ /\ th \in [at : {"read", "process", "out"}, p : Peers,
                        onward : {"start", "read", "out"}, out : BOOLEAN]
             /\ conn[th.p].st = "open"
        <3>1. CASE Handling
            BY <3>1, <2>1, ThreadFacts DEF HandInv, Busy
        <3>2. CASE ~Handling
            BY <3>2, <2>1, ThreadFacts DEF Resting
        <3> QED
            BY <3>1, <3>2
    <2>3. ASSUME NEW p \in Peers
          PROVE  /\ conn[p].st \in {"none", "open", "gone"}
                 /\ conn[p].st # "open" => conn[p] \in {NoConn, Gone}
                 /\ conn[p].recv \in Seq(UnitsOf(p)) /\ Len(conn[p].recv) <= RecvCap
                 /\ up[p] \in Seq(UnitsOf(p))
                 /\ conn[p].send \in Answers /\ down[p] \in Answers /\ got[p] \in Answers
                 /\ Len(down[p]) <= SockCap
                 /\ log[p] \in Seq(Msgs)
        <3>1. PeerInv(p)
            BY <2>1
        <3>2. /\ conn[p] \in Conns /\ conn[p].recv \in Seq(Nat \X Nat)
              /\ up[p] \in Seq(Nat \X Nat) /\ log[p] \in Seq(Msgs)
              /\ InSequence(Stream(p), log[p]) /\ Len(down[p]) <= SockCap
            BY <3>1, <2>1, PeerFacts
        <3>3. conn[p].recv \in Seq(UnitsOf(p)) /\ up[p] \in Seq(UnitsOf(p))
            BY <3>2, StreamUnits DEF Stream, UnitsOf
        <3>4. conn[p].st \in {"none", "open", "gone"} /\ conn[p].send \in Answers
            BY <3>2 DEF Conns
        <3>5. down[p] \in Answers /\ got[p] \in Answers
            BY <2>1 DEF Kinds
        <3>6. /\ conn[p].st # "open" => conn[p] \in {NoConn, Gone}
              /\ Len(conn[p].recv) <= RecvCap
            BY <3>1 DEF PeerInv, BufferInv
        <3> QED
            BY <3>2, <3>3, <3>4, <3>5, <3>6
    <2>4. /\ {running, synced, power} \subseteq BOOLEAN
          /\ peer \in [Peers -> {"new", "open", "closed", "reset"}]
          /\ {cache, disk} \subseteq [Blocks -> {"old", "new", "torn"}]
          /\ torn \subseteq Blocks
        BY <2>1 DEF Kinds
    <2> QED
        BY <2>2, <2>3, <2>4 DEF TypeOK
<1> QED
    BY <1>1, Invariance, PTL

\* Whatever arrives in whatever pieces, HandleConnReadable never finds the
\* receive buffer full (Server.cpp, RingBuffer::WriteFromFd).
THEOREM BufferNeverFull == Spec => []RecvNeverFull
<1>1. IInv => RecvNeverFull
    <2> SUFFICES ASSUME IInv, th.at = "read"
                 PROVE  Len(conn[th.p].recv) < RecvCap
        BY DEF RecvNeverFull
    <2>1. Handling /\ Alive
        BY DEF Handling, Alive
    <2>2. th.p \in Peers
        BY <2>1, ThreadFacts DEF IInv
    <2>3. SpaceInv
        BY DEF IInv
    <2> QED
        BY <2>1, <2>2, <2>3 DEF SpaceInv
<1> QED
    BY <1>1, Invariance, PTL

\* A block whose acknowledgement reached a client is in the image unless a
\* later write of it failed, and outlives a loss of power once CloseAll has
\* synced the image (BlockProcessor::Process, DiskMap::CloseAll).
THEOREM AckedBlocksSurvive == Spec => []AckedSurvives
<1>1. IInv => AckedSurvives
    <2> SUFFICES ASSUME IInv, NEW p \in Peers, NEW i \in DOMAIN got[p]
                 PROVE  LET m == log[p][got[p][i].msg]
                        IN  got[p][i].ok /\ m.kind = "block" /\ m.b \notin torn
                            /\ (power \/ synced) => cache[m.b] = "new"
        BY DEF AckedSurvives
    <2>1. got[p] \in Seq(Kept(p))
        BY DEF IInv, PeerInv, AnswerInv
    <2>2. got[p][i] \in Kept(p)
        BY <2>1
    <2> QED
        BY <2>2 DEF Kept
<1> QED
    BY <1>1, Invariance, PTL


-----------------------------------------------------------------------------
(* The server implements AckChannel. *)

\* The answers on their way to each client, in the socket or in the send buffer.
Answering == [p \in Peers |-> down[p] \o conn[p].send]

\* The answers after p's message k has been handled, where V are its verdicts.
Replies(p, k, V) ==
    IF V = {} THEN {Answering}
    ELSE {[Answering EXCEPT ![p] = Append(@, [msg |-> k, ok |-> v])] : v \in V}

\* The beginnings of a sequence in two parts: nothing, the first part, the whole.
LEMMA PrefixFacts ==
    ASSUME NEW S, NEW s \in Seq(S), NEW t \in Seq(S), NEW u, u = s \o t
    PROVE  <<>> \in Channel!PrefixesOf(u) /\ s \in Channel!PrefixesOf(u)
<1>1. /\ u \in Seq(S) /\ Len(u) = Len(s) + Len(t)
      /\ \A i \in 1 .. Len(s) : u[i] = s[i]
    BY Joined
<1>n. Len(s) \in Nat /\ Len(t) \in Nat
    OBVIOUS
<1>2. 0 \in 0 .. Len(u) /\ Len(s) \in 0 .. Len(u)
    BY <1>1, <1>n
<1>3. /\ SubSeq(u, 1, 0) \in Seq(S) /\ Len(SubSeq(u, 1, 0)) = 0
      /\ SubSeq(u, 1, Len(s)) \in Seq(S) /\ Len(SubSeq(u, 1, Len(s))) = Len(s)
      /\ \A i \in 1 .. Len(s) : SubSeq(u, 1, Len(s))[i] = u[i]
    BY <1>1, <1>2, Cut
<1>4. SubSeq(u, 1, 0) = <<>>
    BY <1>3
<1>5. SubSeq(u, 1, Len(s)) = s
    <2> DEFINE v == SubSeq(u, 1, Len(s))
    <2>1. v \in Seq(S) /\ Len(v) = Len(s) /\ \A i \in 1 .. Len(v) : v[i] = s[i]
        BY <1>1, <1>3
    <2> HIDE DEF v
    <2>2. v = s
        BY <2>1, SameSeq
    <2> QED
        BY <2>2 DEF v
<1> QED
    BY <1>2, <1>4, <1>5, Zenon DEF Channel!PrefixesOf

\* Joining nothing changes nothing.
LEMMA JoinedNothing ==
    ASSUME NEW S, NEW s \in Seq(S)
    PROVE  s \o <<>> = s
    OBVIOUS

\* A stream without units is nothing to handle.
LEMMA NothingToHandle ==
    ASSUME NEW q \in Peers, conn[q].recv = <<>>, up[q] = <<>>
    PROVE  Unhandled(q) = <<>>
<1>1. <<>> \o <<>> = <<>>
    OBVIOUS
<1> QED
    BY <1>1 DEF Unhandled, Stream

\* Nothing that a client sees.
LEMMA SeenSame ==
    ASSUME UNCHANGED <<log, got>>,
           \A q \in Peers : /\ Unhandled(q)' = Unhandled(q)
                            /\ conn'[q].hello = conn[q].hello
                            /\ down'[q] \o conn'[q].send = down[q] \o conn[q].send
                            /\ conn'[q].st # "gone" <=> conn[q].st # "gone"
    PROVE  UNCHANGED Channel!vars
    BY DEF Channel!vars

\* Connections that end, and the answers they take with them.
LEMMA LeaveStep ==
    ASSUME NEW S \in SUBSET Peers, NEW a,
           \A q \in S : /\ conn'[q] = Gone /\ down'[q] \in Answers
                        /\ down'[q] \in Channel!PrefixesOf(a[q]),
           \A q \in Peers \ S : /\ down'[q] \o conn'[q].send = a[q]
                                /\ conn'[q].st # "gone" <=> conn[q].st # "gone"
    PROVE  Channel!Leave(S, a)
<1>1. ASSUME NEW q \in S
      PROVE  /\ down'[q] \o conn'[q].send \in Channel!PrefixesOf(a[q])
             /\ conn'[q].st = "gone"
    <2>1. conn'[q].send = <<>> /\ conn'[q].st = "gone" /\ down'[q] \in Answers
        BY FixedConns
    <2>2. down'[q] \o <<>> = down'[q]
        BY <2>1, JoinedNothing DEF Answers
    <2> QED
        BY <2>1, <2>2
<1>2. [q \in Peers |-> conn[q].st # "gone"]'
          = [q \in Peers |-> [r \in Peers |-> conn[r].st # "gone"][q] /\ q \notin S]
    BY <1>1
<1> QED
    BY <1>1, <1>2 DEF Channel!Leave


\* What CloseConn does to what the clients see.
LEMMA ClosedSeen ==
    ASSUME IInv, NEW S \in SUBSET Peers, NEW d \in [Peers -> Answers],
           CloseConn(S, conn, d), log' = log
    PROVE  /\ \A q \in S : /\ conn'[q] = Gone /\ conn'[q].hello = FALSE
                           /\ down'[q] \in Answers /\ down'[q] \in {<<>>, d[q]}
                           /\ Unhandled(q)' = <<>>
           /\ \A q \in Peers \ S : /\ conn'[q] = conn[q] /\ down'[q] = d[q]
                                   /\ Unhandled(q)' = Unhandled(q)
<1>1. Kinds
    BY DEF IInv
<1>2. /\ down' \in [Peers -> Answers]
      /\ \A q \in S : conn'[q] = Gone /\ up'[q] = <<>> /\ down'[q] \in {<<>>, d[q]}
      /\ \A q \in Peers \ S : conn'[q] = conn[q] /\ up'[q] = up[q] /\ down'[q] = d[q]
    BY <1>1, CloseEffect
<1>3. ASSUME NEW q \in S
      PROVE  conn'[q].hello = FALSE /\ Unhandled(q)' = <<>>
    <2>1. conn'[q].hello = FALSE /\ conn'[q].recv = <<>> /\ up'[q] = <<>>
        BY <1>2, FixedConns
    <2>2. <<>> \o <<>> = <<>>
        OBVIOUS
    <2> QED
        BY <2>1, <2>2 DEF Unhandled, Stream
<1>4. ASSUME NEW q \in Peers \ S
      PROVE  Unhandled(q)' = Unhandled(q)
    BY <1>2 DEF Unhandled, Stream
<1> QED
    BY <1>2, <1>3, <1>4

\* A client's answers are a sequence, and the ones in the socket its beginning.
LEMMA AnswersSeen ==
    ASSUME IInv, NEW q \in Peers
    PROVE  /\ down[q] \in Answers /\ conn[q].send \in Answers
           /\ down[q] \o conn[q].send \in Answers
           /\ <<>> \in Channel!PrefixesOf(down[q] \o conn[q].send)
           /\ down[q] \in Channel!PrefixesOf(down[q] \o conn[q].send)
<1>1. down[q] \in Answers /\ conn[q].send \in Answers
    BY DEF IInv, Kinds, Conns
<1>2. down[q] \o conn[q].send \in Answers
    BY <1>1 DEF Answers
<1> QED
    BY <1>1, <1>2, PrefixFacts DEF Answers

\* Connections that end without a message being handled.
LEMMA EndStep ==
    ASSUME IInv, NEW S \in SUBSET Peers, CloseConn(S, conn, down),
           \A q \in S : conn[q].st # "gone", UNCHANGED <<log, got>>
    PROVE  Channel!End(S)
<1>1. down \in [Peers -> Answers]
    BY DEF IInv, Kinds
<1>2. /\ \A q \in S : /\ conn'[q] = Gone /\ conn'[q].hello = FALSE
                      /\ down'[q] \in Answers /\ down'[q] \in {<<>>, down[q]}
                      /\ Unhandled(q)' = <<>>
      /\ \A q \in Peers \ S : /\ conn'[q] = conn[q] /\ down'[q] = down[q]
                              /\ Unhandled(q)' = Unhandled(q)
    BY <1>1, ClosedSeen
<1>3. PICK a : a = [q \in Peers |-> down[q] \o conn[q].send]
    OBVIOUS
<1>4. ASSUME NEW q \in S PROVE down'[q] \in Channel!PrefixesOf(a[q])
    BY <1>2, <1>3, AnswersSeen
<1>5. ASSUME NEW q \in Peers \ S
      PROVE  /\ down'[q] \o conn'[q].send = a[q]
             /\ conn'[q].st # "gone" <=> conn[q].st # "gone"
    BY <1>2, <1>3
<1>6. Channel!Leave(S, a)
    BY <1>2, <1>4, <1>5, LeaveStep
<1>7. [q \in Peers |-> Unhandled(q)]'
          = [q \in Peers |-> IF q \in S THEN <<>> ELSE [r \in Peers |-> Unhandled(r)][q]]
    BY <1>2
<1>8. [q \in Peers |-> conn[q].hello]'
          = [q \in Peers |-> q \notin S /\ [r \in Peers |-> conn[r].hello][q]]
    <2>1. \A q \in Peers : conn[q].hello \in BOOLEAN
        BY DEF IInv, Kinds, Conns
    <2> QED
        BY <2>1, <1>2
<1>9. \A q \in S : [r \in Peers |-> conn[r].st # "gone"][q]
    OBVIOUS
<1>10. Channel!Leave(S, [q \in Peers |-> down[q] \o conn[q].send])
    BY <1>3, <1>6 DEF Channel!Leave
<1> QED
    BY <1>7, <1>8, <1>9, <1>10 DEF Channel!End, Channel!Leave

\* The verdicts a message may be answered with, and the messages that end the
\* connection.
LEMMA VerdictFacts ==
    ASSUME NEW m \in Msgs, NEW g \in BOOLEAN
    PROVE  /\ m.kind \in {"junk", "other", "oversize"} => Channel!Verdicts(m, g) = {}
           /\ m.kind \in {"hello", "badhello"} /\ g => Channel!Verdicts(m, g) = {}
           /\ m.kind \in {"block", "badblock"} /\ ~g => Channel!Verdicts(m, g) = {}
           /\ m.kind = "hello" /\ ~g => Channel!Verdicts(m, g) = {TRUE}
           /\ m.kind = "badhello" /\ ~g => Channel!Verdicts(m, g) = {FALSE}
           /\ m.kind = "bye" => Channel!Verdicts(m, g) = {TRUE}
           /\ m.kind = "badblock" /\ g => Channel!Verdicts(m, g) = {FALSE}
           /\ m.kind = "block" /\ g => Channel!Verdicts(m, g) = BOOLEAN
    BY Zenon DEF Channel!Verdicts


\* The message at the front of the buffer is the first one to handle.
LEMMA FrontSeen ==
    ASSUME IInv, NEW p \in Peers, TryParse(p) # "NeedMore"
    PROVE  /\ Unhandled(p) # <<>> /\ Head(Unhandled(p)) = conn[p].recv[1][1]
           /\ log[p][conn[p].recv[1][1]] \in Msgs
<1>1. Kinds /\ PeerInv(p)
    BY DEF IInv
<1>2. conn[p].recv # <<>> /\ log[p][conn[p].recv[1][1]] \in Msgs
    BY <1>1, TryParseFacts
<1>3. /\ Stream(p) \in Seq(Nat \X Nat) /\ log[p] \in Seq(Msgs)
      /\ InSequence(Stream(p), log[p])
      /\ Stream(p) # <<>> /\ Stream(p)[1] = conn[p].recv[1]
    BY <1>1, <1>2, PeerFacts
<1> DEFINE x == Numbers(Stream(p), log[p])  n == Len(log[p]) - Stream(p)[1][1] + 1
<1>4. /\ x \in Seq(Nat) /\ Len(x) = n /\ n \in Nat \ {0}
      /\ \A i \in 1 .. n : x[i] = Stream(p)[1][1] + i - 1
    BY <1>3, NumbersFacts
<1>5. Stream(p)[1][1] \in 1 .. Len(log[p]) /\ Len(log[p]) \in Nat
    BY <1>3, FirstUnit
<1>6. x[1] = Stream(p)[1][1]
    <2>1. 1 \in 1 .. n
        BY <1>4
    <2>2. x[1] = Stream(p)[1][1] + 1 - 1
        BY <1>4, <2>1
    <2> QED
        BY <2>2, <1>5
<1>7. Unhandled(p) = x
    BY DEF Unhandled, Numbers
<1> HIDE DEF x, n
<1>8. x # <<>> /\ Head(x) = x[1]
    BY <1>4
<1> QED
    BY <1>2, <1>3, <1>6, <1>7, <1>8

\* A message handled, and the connections that end with it.
LEMMA HandleStep ==
    ASSUME IInv, NEW p \in Peers, NEW S \in SUBSET Peers, conn[p].st = "open",
           TryParse(p) # "NeedMore", UNCHANGED <<log, got>>,
           NEW k, k = conn[p].recv[1][1], NEW m, m = log[p][k],
           Channel!Ends(m, conn[p].hello) => p \in S,
           NEW a, a \in Replies(p, k, Channel!Verdicts(m, conn[p].hello)),
           Channel!Leave(S, a),
           \A q \in S : Unhandled(q)' = <<>> /\ conn'[q].hello = FALSE,
           \A q \in Peers \ S : q # p => /\ Unhandled(q)' = Unhandled(q)
                                         /\ conn'[q].hello = conn[q].hello,
           p \notin S => /\ Unhandled(p)' = Tail(Unhandled(p))
                         /\ conn'[p].hello = (conn[p].hello \/ m.kind = "hello")
    PROVE  Channel!Handle(p, S)
<1>1. Unhandled(p) # <<>> /\ Head(Unhandled(p)) = k
    BY FrontSeen
<1>2. \A q \in Peers : conn[q].hello \in BOOLEAN
    BY DEF IInv, Kinds, Conns
<1>3. /\ [q \in Peers |-> conn[q].st # "gone"][p]
      /\ [q \in Peers |-> Unhandled(q)][p] = Unhandled(p)
      /\ [q \in Peers |-> conn[q].hello][p] = conn[p].hello
    OBVIOUS
<1>4. [q \in Peers |-> conn[q].hello]'
          = [q \in Peers |-> q \notin S /\ ([r \in Peers |-> conn[r].hello][q]
                                            \/ (q = p /\ m.kind = "hello"))]
    BY <1>2
<1>5. [q \in Peers |-> Unhandled(q)]'
          = [q \in Peers |-> IF q \in S THEN <<>>
                             ELSE IF q = p THEN Tail([r \in Peers |-> Unhandled(r)][q])
                             ELSE [r \in Peers |-> Unhandled(r)][q]]
    OBVIOUS
<1> DEFINE T == [q \in Peers |-> Unhandled(q)]  G == [q \in Peers |-> conn[q].hello]
           B == [q \in Peers |-> down[q] \o conn[q].send]
           V == Channel!Verdicts(log[p][Head(T[p])], G[p])
<1>6. k = Head(T[p]) /\ m = log[p][Head(T[p])] /\ conn[p].hello = G[p] /\ B = Answering
    BY <1>1, <1>3 DEF Answering
<1>7. T[p] # <<>>
    BY <1>1, <1>3
<1>8. Channel!Ends(log[p][Head(T[p])], G[p]) => p \in S
    BY <1>6, Zenon
<1>9. a \in IF V = {} THEN {B}
            ELSE {[B EXCEPT ![p] = Append(@, [msg |-> Head(T[p]), ok |-> v])] : v \in V}
    BY <1>6, Zenon DEF Replies
<1>10. [q \in Peers |-> conn[q].hello]'
           = [q \in Peers |-> q \notin S /\ (G[q] \/ (q = p /\ log[p][Head(T[p])].kind = "hello"))]
    BY <1>4, <1>6, Zenon
<1> QED
    BY <1>3, <1>5, <1>7, <1>8, <1>9, <1>10, Zenon DEF Channel!Handle


\* The answers a client waits for after one more message has been handled.
LEMMA OthersSeen ==
    ASSUME NEW p \in Peers, NEW k, NEW V, NEW a \in Replies(p, k, V), NEW q \in Peers,
           q # p
    PROVE  a[q] = Answering[q]
<1>1. CASE V = {}
    BY <1>1 DEF Replies
<1>2. CASE V # {}
    <2>1. PICK v \in V : a = [Answering EXCEPT ![p] = Append(@, [msg |-> k, ok |-> v])]
        BY <1>2 DEF Replies
    <2> QED
        BY <2>1 DEF Answering
<1> QED
    BY <1>1, <1>2

\* A message after which its connection, and perhaps a stranger's, ends.
LEMMA ClosedHandled ==
    ASSUME IInv, NEW p \in Peers, NEW S \in SUBSET Peers, p \in S, conn[p].st = "open",
           TryParse(p) # "NeedMore", UNCHANGED <<log, got>>,
           NEW k, k = conn[p].recv[1][1], NEW m, m = log[p][k],
           NEW a, a \in Replies(p, k, Channel!Verdicts(m, conn[p].hello)),
           NEW d \in [Peers -> Answers], CloseConn(S, conn, d),
           <<>> \in Channel!PrefixesOf(a[p]), d[p] \in Channel!PrefixesOf(a[p]),
           \A q \in Peers : q # p => d[q] = down[q]
    PROVE  Channel!Handle(p, S)
<1>1. /\ \A q \in S : /\ conn'[q] = Gone /\ conn'[q].hello = FALSE
                      /\ down'[q] \in Answers /\ down'[q] \in {<<>>, d[q]}
                      /\ Unhandled(q)' = <<>>
      /\ \A q \in Peers \ S : /\ conn'[q] = conn[q] /\ down'[q] = d[q]
                              /\ Unhandled(q)' = Unhandled(q)
    BY ClosedSeen
<1>2. \A q \in Peers : q # p => a[q] = down[q] \o conn[q].send
    <2>1. PICK V : V = Channel!Verdicts(m, conn[p].hello)
        OBVIOUS
    <2>2. a \in Replies(p, k, V)
        BY <2>1
    <2>3. \A q \in Peers : q # p => a[q] = Answering[q]
        BY <2>2, OthersSeen
    <2> QED
        BY <2>3 DEF Answering
<1>3. ASSUME NEW q \in S PROVE down'[q] \in Channel!PrefixesOf(a[q])
    <2>1. CASE q = p
        BY <2>1, <1>1
    <2>2. CASE q # p
        <3>1. a[q] = down[q] \o conn[q].send /\ d[q] = down[q]
            BY <2>2, <1>2
        <3> QED
            BY <3>1, <1>1, AnswersSeen
    <2> QED
        BY <2>1, <2>2
<1>4. ASSUME NEW q \in Peers \ S
      PROVE  /\ down'[q] \o conn'[q].send = a[q]
             /\ conn'[q].st # "gone" <=> conn[q].st # "gone"
    BY <1>1, <1>2
<1>5. Channel!Leave(S, a)
    BY <1>1, <1>3, <1>4, LeaveStep
<1> QED
    BY <1>1, <1>5, HandleStep

\* A message after which the connection goes on.
LEMMA OnHandled ==
    ASSUME IInv, NEW p \in Peers, conn[p].st = "open", TryParse(p) \in {"Ok", "Skip"},
           UNCHANGED <<log, got, up>>,
           NEW k, k = conn[p].recv[1][1], NEW m, m = log[p][k],
           ~Channel!Ends(m, conn[p].hello),
           NEW a, a \in Replies(p, k, Channel!Verdicts(m, conn[p].hello)),
           conn'[p].st = "open", conn'[p].recv = Consumed(conn[p], Units(m)).recv,
           conn'[p].hello = (conn[p].hello \/ m.kind = "hello"),
           Answering'[p] = a[p],
           \A q \in Peers : q # p => conn'[q] = conn[q] /\ down'[q] = down[q]
    PROVE  \E S \in SUBSET Peers : Channel!Handle(p, S)
<1>1. Kinds /\ PeerInv(p)
    BY DEF IInv
<1>2. /\ StreamInv(p)' /\ Stream(p) # <<>>
      /\ Stream(p)' \in Seq(Nat \X Nat)
      /\ Stream(p)' = <<>> => Stream(p)[1][1] = Len(log[p])
      /\ Stream(p)' # <<>> => Stream(p)'[1][1] = Stream(p)[1][1] + 1
    BY <1>1, HandledPeer, Zenon
<1>3. /\ Stream(p) \in Seq(Nat \X Nat) /\ log[p] \in Seq(Msgs)
      /\ InSequence(Stream(p), log[p])
    BY <1>1, PeerFacts
<1>4. InSequence(Stream(p)', log[p])
    <2>1. InSequence(Stream(p)', log'[p])
        BY <1>2, Zenon DEF StreamInv, InSequence, Successor, Units
    <2> QED
        BY <2>1
<1>5. Unhandled(p)' = Tail(Unhandled(p))
    <2> DEFINE s == Stream(p)  t == Stream(p)'  l == log[p]
    <2>1. Unhandled(p) = Numbers(s, l) /\ Unhandled(p)' = Numbers(t, l)
        BY DEF Unhandled, Numbers
    <2>2. /\ s \in Seq(Nat \X Nat) /\ l \in Seq(Msgs) /\ InSequence(s, l) /\ s # <<>>
          /\ t \in Seq(Nat \X Nat) /\ InSequence(t, l)
          /\ t = <<>> => s[1][1] = Len(l)
          /\ t # <<>> => t[1][1] = s[1][1] + 1
        BY <1>2, <1>3, <1>4
    <2> HIDE DEF s, t, l
    <2>3. Numbers(t, l) = Tail(Numbers(s, l))
        BY <2>2, NumbersHandled
    <2> QED
        BY <2>1, <2>3
<1>6. ASSUME NEW q \in Peers, q # p
      PROVE  Unhandled(q)' = Unhandled(q) /\ conn'[q].hello = conn[q].hello
    BY <1>6, Zenon DEF Unhandled, Stream
<1>7. \A q \in Peers : q # p => a[q] = down[q] \o conn[q].send
    <2>1. PICK V : V = Channel!Verdicts(m, conn[p].hello)
        OBVIOUS
    <2>2. a \in Replies(p, k, V)
        BY <2>1
    <2>3. \A q \in Peers : q # p => a[q] = Answering[q]
        BY <2>2, OthersSeen
    <2> QED
        BY <2>3 DEF Answering
<1>8. ASSUME NEW q \in Peers
      PROVE  /\ down'[q] \o conn'[q].send = a[q]
             /\ conn'[q].st # "gone" <=> conn[q].st # "gone"
    <2>1. down'[p] \o conn'[p].send = a[p]
        BY DEF Answering
    <2> QED
        BY <1>7, <2>1
<1>9. PICK S \in SUBSET Peers : S = {}
    OBVIOUS
<1>10. Channel!Leave(S, a)
    BY <1>8, <1>9, LeaveStep, Zenon
<1>11. TryParse(p) # "NeedMore"
    OBVIOUS
<1>12. /\ \A q \in S : Unhandled(q)' = <<>> /\ conn'[q].hello = FALSE
       /\ \A q \in Peers \ S : q # p => /\ Unhandled(q)' = Unhandled(q)
                                        /\ conn'[q].hello = conn[q].hello
    BY <1>6, <1>9
<1>13. Channel!Handle(p, S)
    BY <1>5, <1>10, <1>11, <1>12, HandleStep
<1> QED
    BY <1>13

\* An answer after the others is one more answer after the ones in the socket.
LEMMA JoinedAppend ==
    ASSUME NEW S, NEW s \in Seq(S), NEW t \in Seq(S), NEW x \in S
    PROVE  s \o Append(t, x) = Append(s \o t, x)
    OBVIOUS


\* What f, the outcome of Drain for p and its connection c, is to the answers u.
Replying(p, c, f, u) ==
    /\ <<>> \in Channel!PrefixesOf(u) /\ down[p] \in Channel!PrefixesOf(u)
    /\ down[p] \o f.sent \in Channel!PrefixesOf(u)
    /\ (down[p] \o f.sent) \o f.conn.send = u
    /\ down[p] \o f.sent \in Answers
    /\ f.conn \in Conns /\ Alike(f.conn, c)

\* Answer x to the front message of p, wherever its bytes are.
LEMMA ReplySeen ==
    ASSUME IInv, NEW p \in Peers, NEW c \in Conns, c.send = conn[p].send,
           NEW x \in [msg : Nat, ok : BOOLEAN], NEW a,
           a = [Answering EXCEPT ![p] = Append(@, x)], NEW f, f = Enqueued(p, c, x)
    PROVE  Replying(p, c, f, a[p])
<1> DEFINE A == [msg : Nat, ok : BOOLEAN]  s == down[p]  t == conn[p].send
           u == s \o Append(t, x)
<1>1. /\ s \in Seq(A) /\ t \in Seq(A) /\ Len(s) <= SockCap /\ Kinds
    BY DEF IInv, Kinds, Conns, Answers, PeerInv, AnswerInv
<1>2. a[p] = Append(s \o t, x)
    BY DEF Answering
<1>A. A \subseteq [msg : Nat, ok : BOOLEAN] /\ x \in A
    OBVIOUS
<1>3. /\ f.conn \in Conns /\ Alike(f.conn, c) /\ f.conn.send \in Seq(A)
      /\ s \o f.sent \in Seq(A) /\ (s \o f.sent) \o f.conn.send = s \o Append(c.send, x)
    BY <1>1, <1>A, EnqueuedEffect, Zenon
<1>d. s = down[p] /\ t = conn[p].send
    OBVIOUS
<1>4. f.conn.send \in Seq(A) /\ s \o f.sent \in Seq(A) /\ (s \o f.sent) \o f.conn.send = u
    BY <1>3
<1>5. s \o f.sent \in Answers
    BY <1>3 DEF Answers
<1> HIDE DEF A, s, t
<1>6. Append(t, x) \in Seq(A)
    BY <1>1, <1>A
<1>7. u = Append(s \o t, x)
    BY <1>1, <1>A, JoinedAppend
<1>8. u = a[p]
    BY <1>2, <1>7
<1>9. <<>> \in Channel!PrefixesOf(u) /\ s \in Channel!PrefixesOf(u)
    BY <1>1, <1>6, PrefixFacts
<1>10. s \o f.sent \in Channel!PrefixesOf(u)
    <2>1. PICK v, w : v = s \o f.sent /\ w = f.conn.send
        OBVIOUS
    <2>2. v \in Seq(A) /\ w \in Seq(A) /\ u = v \o w
        BY <1>4, <2>1
    <2> HIDE DEF u
    <2>3. v \in Channel!PrefixesOf(u)
        BY <2>2, PrefixFacts
    <2> QED
        BY <2>1, <2>3
<1> HIDE DEF u
<1>11. Replying(p, c, f, u)
    BY <1>3, <1>4, <1>5, <1>9, <1>10, <1>d, Zenon DEF Replying
<1> QED
    BY <1>8, <1>11, Zenon

\* EnqueueAck answers the message at the front: one step of the protocol.
LEMMA AckSeen ==
    ASSUME IInv, NEW p \in Peers, conn[p].st = "open", TryParse(p) = "Ok",
           UNCHANGED <<log, got>>,
           NEW k, k = conn[p].recv[1][1], NEW m, m = log[p][k],
           NEW c \in Conns, c.st = "open", c.recv = conn[p].recv, c.send = conn[p].send,
           c.hello = (conn[p].hello \/ m.kind = "hello"),
           NEW v \in BOOLEAN, v \in Channel!Verdicts(m, conn[p].hello),
           NEW ends \in BOOLEAN, Channel!Ends(m, conn[p].hello) => ends,
           EnqueueAck(p, c, [msg |-> k, ok |-> v], ends)
    PROVE  \E S \in SUBSET Peers : Channel!Handle(p, S)
<1>1. Kinds /\ PeerInv(p)
    BY DEF IInv
<1>2. PICK x : x = [msg |-> k, ok |-> v]
    OBVIOUS
<1>3. PICK f : f = Enqueued(p, c, x)
    OBVIOUS
<1>4. PICK a : a = [Answering EXCEPT ![p] = Append(@, x)]
    OBVIOUS
<1>5. TryParse(p) # "NeedMore" /\ TryParse(p) \in {"Ok", "Skip"}
    OBVIOUS
<1>6. k \in 1 .. Len(log[p])
    BY <1>1, TryParseFacts, Zenon
<1>7. x \in [msg : Nat, ok : BOOLEAN] /\ x.msg = k
    <2>1. k \in Nat
        BY <1>6
    <2> QED
        BY <2>1, <1>2
<1>8. a \in Replies(p, k, Channel!Verdicts(m, conn[p].hello))
    BY <1>2, <1>4 DEF Replies
<1>9. /\ <<>> \in Channel!PrefixesOf(a[p])
      /\ down[p] \in Channel!PrefixesOf(a[p])
      /\ down[p] \o f.sent \in Channel!PrefixesOf(a[p])
      /\ (down[p] \o f.sent) \o f.conn.send = a[p]
      /\ down[p] \o f.sent \in Answers
      /\ f.conn \in Conns /\ Alike(f.conn, c)
    <2>1. Replying(p, c, f, a[p])
        BY <1>3, <1>4, <1>7, ReplySeen
    <2> QED
        BY <2>1, Zenon DEF Replying
<1>10. PICK d : d = [down EXCEPT ![p] = @ \o f.sent]
    OBVIOUS
<1>11. down \in [Peers -> Answers] /\ conn \in [Peers -> Conns]
    BY <1>1 DEF Kinds
<1>12. /\ d \in [Peers -> Answers] /\ d[p] = down[p] \o f.sent
       /\ \A q \in Peers : q # p => d[q] = down[q]
    BY <1>9, <1>10, <1>11
<1>13. \/ \E S \in SUBSET Peers :
             /\ p \in S /\ S \subseteq Live \cup {p}
             /\ CloseConn(S, conn, down) /\ th' \in Stale
       \/ CloseConn({p}, conn, d) /\ th' \in Stale
       \/ /\ ~ends
          /\ conn' = [conn EXCEPT ![p] = Consumed(f.conn, Units(log[p][x.msg]))]
          /\ down' = d /\ up' = up /\ th' = th
    <2>1. EnqueueAck(p, c, x, ends)
        BY <1>2, Zenon DEF EnqueueAck
    <2>2. LET g == Enqueued(p, c, x)
              e == [down EXCEPT ![p] = @ \o g.sent]
          IN  \/ \E S \in SUBSET Peers :
                    /\ p \in S /\ S \subseteq Live \cup {p}
                    /\ CloseConn(S, conn, down) /\ th' \in Stale
              \/ CloseConn({p}, conn, e) /\ th' \in Stale
              \/ /\ ~ends
                 /\ conn' = [conn EXCEPT ![p] = Consumed(g.conn, Units(log[p][x.msg]))]
                 /\ down' = e /\ up' = up /\ th' = th
        BY <2>1, AckCases
    <2> QED
        BY <2>2, <1>3, <1>10, Zenon DEF CloseConn
<1>14. CASE \E S \in SUBSET Peers : p \in S /\ CloseConn(S, conn, down)
    <2>1. PICK S \in SUBSET Peers : p \in S /\ CloseConn(S, conn, down)
        BY <1>14
    <2>2. PICK e : e = down
        OBVIOUS
    <2>3. /\ e \in [Peers -> Answers] /\ CloseConn(S, conn, e)
          /\ e[p] \in Channel!PrefixesOf(a[p])
          /\ \A q \in Peers : q # p => e[q] = down[q]
        BY <2>1, <2>2, <1>9, <1>11 DEF CloseConn
    <2>4. Channel!Handle(p, S)
        BY <2>1, <2>3, <1>5, <1>8, <1>9, ClosedHandled
    <2> QED
        BY <2>4
<1>15. CASE CloseConn({p}, conn, d)
    <2>1. PICK S \in SUBSET Peers : S = {p}
        OBVIOUS
    <2>2. p \in S /\ CloseConn(S, conn, d)
        BY <2>1, <1>15
    <2>3. d[p] \in Channel!PrefixesOf(a[p])
        BY <1>9, <1>12
    <2>4. Channel!Handle(p, S)
        BY <2>2, <2>3, <1>5, <1>8, <1>9, <1>12, ClosedHandled, Zenon
    <2> QED
        BY <2>4
<1>16. CASE /\ ~ends
            /\ conn' = [conn EXCEPT ![p] = Consumed(f.conn, Units(log[p][x.msg]))]
            /\ down' = d /\ up' = up
    <2>1. PICK n : n = Units(m)
        OBVIOUS
    <2>2. n \in 1 .. Len(conn[p].recv)
        BY <2>1, <1>1, TryParseFacts, Zenon
    <2>3. PICK e : e = f.conn
        OBVIOUS
    <2>4. e \in Conns /\ e.st = "open" /\ e.hello = c.hello /\ e.recv = conn[p].recv
        BY <2>3, <1>9 DEF Alike
    <2>5. conn[p] \in Conns /\ Len(conn[p].recv) \in Nat
        BY <1>11 DEF Conns
    <2>6. n \in 0 .. Len(conn[p].recv)
        <3>1. \A j \in Nat : \A i \in 1 .. j : i \in 0 .. j
            OBVIOUS
        <3> QED
            BY <3>1, <2>2, <2>5, Zenon
    <2>7. /\ Consumed(e, n) \in Conns /\ Consumed(e, n).st = e.st
          /\ Consumed(e, n).hello = e.hello /\ Consumed(e, n).send = e.send
          /\ Consumed(e, n).recv = SubSeq(e.recv, n + 1, Len(e.recv))
        BY <2>4, <2>6, ConsumedEffect
    <2>8. Consumed(conn[p], n).recv = SubSeq(conn[p].recv, n + 1, Len(conn[p].recv))
        BY <2>5, <2>6, ConsumedEffect
    <2>9. /\ conn'[p] = Consumed(e, n)
          /\ \A q \in Peers : q # p => conn'[q] = conn[q]
        BY <1>16, <2>1, <2>3, <1>7, <1>11
    <2>10. /\ conn'[p].st = "open" /\ conn'[p].recv = Consumed(conn[p], Units(m)).recv
           /\ conn'[p].hello = (conn[p].hello \/ m.kind = "hello")
           /\ conn'[p].send = f.conn.send
        BY <2>1, <2>3, <2>4, <2>7, <2>8, <2>9, Zenon
    <2>11. /\ down'[p] \o conn'[p].send = a[p]
           /\ \A q \in Peers : q # p => down'[q] = down[q]
        BY <2>10, <1>9, <1>12, <1>16, Zenon
    <2>12. ~Channel!Ends(m, conn[p].hello)
        BY <1>16
    <2>13. /\ conn'[p].st = "open" /\ conn'[p].recv = Consumed(conn[p], Units(m)).recv
           /\ conn'[p].hello = (conn[p].hello \/ m.kind = "hello")
           /\ Answering'[p] = a[p]
           /\ \A q \in Peers : q # p => conn'[q] = conn[q] /\ down'[q] = down[q]
           /\ UNCHANGED <<log, got, up>>
        BY <1>16, <2>9, <2>10, <2>11, Zenon DEF Answering
    <2> QED
        BY <1>5, <1>8, <2>12, <2>13, OnHandled
<1> QED
    BY <1>13, <1>14, <1>15, <1>16


\* A message that is skipped or ignored is handled without an answer.
LEMMA IgnoreSeen ==
    ASSUME IInv, NEW p \in Peers, conn[p].st = "open", TryParse(p) \in {"Ok", "Skip"},
           UNCHANGED <<log, got>>,
           NEW k, k = conn[p].recv[1][1], NEW m, m = log[p][k],
           Channel!Verdicts(m, conn[p].hello) = {}, ~Channel!Ends(m, conn[p].hello),
           m.kind = "hello" => conn[p].hello,
           NEW n, n = Units(m), Ignore(p, n)
    PROVE  \E S \in SUBSET Peers : Channel!Handle(p, S)
<1>1. Kinds /\ PeerInv(p)
    BY DEF IInv
<1>2. conn' = [conn EXCEPT ![p] = Consumed(@, n)] /\ UNCHANGED <<up, down, th>>
    BY DEF Ignore
<1>3. n \in 1 .. Len(conn[p].recv)
    BY <1>1, TryParseFacts, Zenon
<1>4. conn \in [Peers -> Conns] /\ conn[p] \in Conns
    BY <1>1 DEF Kinds
<1>5. Len(conn[p].recv) \in Nat /\ conn[p].hello \in BOOLEAN
    BY <1>4 DEF Conns
<1>6. n \in 0 .. Len(conn[p].recv)
    <2>1. \A j \in Nat : \A i \in 1 .. j : i \in 0 .. j
        OBVIOUS
    <2> QED
        BY <2>1, <1>3, <1>5, Zenon
<1>7. /\ Consumed(conn[p], n).st = conn[p].st /\ Consumed(conn[p], n).hello = conn[p].hello
      /\ Consumed(conn[p], n).send = conn[p].send
    BY <1>4, <1>6, ConsumedEffect, Zenon
<1>8. /\ conn'[p] = Consumed(conn[p], n)
      /\ \A q \in Peers : q # p => conn'[q] = conn[q] /\ down'[q] = down[q]
    BY <1>2, <1>4
<1>9. /\ conn'[p].st = "open" /\ conn'[p].recv = Consumed(conn[p], Units(m)).recv
      /\ conn'[p].hello = (conn[p].hello \/ m.kind = "hello")
      /\ conn'[p].send = conn[p].send
    BY <1>5, <1>7, <1>8, Zenon
<1>10. PICK a : a = Answering
    OBVIOUS
<1>11. a \in Replies(p, k, Channel!Verdicts(m, conn[p].hello))
    BY <1>10 DEF Replies
<1>12. Answering'[p] = a[p]
    <2>1. Answering'[p] = down'[p] \o conn'[p].send
        BY DEF Answering
    <2>2. a[p] = down[p] \o conn[p].send
        BY <1>10, Zenon DEF Answering
    <2>3. down' = down /\ conn'[p].send = conn[p].send
        BY <1>2, <1>9, Zenon
    <2> QED
        BY <2>1, <2>2, <2>3
<1>13. UNCHANGED <<log, got, up>>
    BY <1>2
<1> QED
    BY <1>8, <1>9, <1>11, <1>12, <1>13, OnHandled, Zenon

\* A message after which the connection is closed without an answer.
LEMMA RejectSeen ==
    ASSUME IInv, NEW p \in Peers, conn[p].st = "open", TryParse(p) # "NeedMore",
           UNCHANGED <<log, got>>,
           NEW k, k = conn[p].recv[1][1], NEW m, m = log[p][k],
           Channel!Verdicts(m, conn[p].hello) = {}, CloseConn({p}, conn, down)
    PROVE  \E S \in SUBSET Peers : Channel!Handle(p, S)
<1>1. PICK a : a = Answering
    OBVIOUS
<1>2. a \in Replies(p, k, Channel!Verdicts(m, conn[p].hello))
    BY <1>1 DEF Replies
<1>3. PICK d, S : d = down /\ S = {p}
    OBVIOUS
<1>4. /\ S \in SUBSET Peers /\ p \in S /\ d \in [Peers -> Answers]
      /\ CloseConn(S, conn, d) /\ \A q \in Peers : q # p => d[q] = down[q]
    BY <1>3 DEF IInv, Kinds, CloseConn
<1>5. <<>> \in Channel!PrefixesOf(a[p]) /\ d[p] \in Channel!PrefixesOf(a[p])
    BY <1>1, <1>3, AnswersSeen DEF Answering
<1>6. Channel!Handle(p, S)
    BY <1>2, <1>4, <1>5, ClosedHandled
<1> QED
    BY <1>4, <1>6

\* What BlockProcessor::Process says of a block.
LEMMA ProcessFacts ==
    ASSUME NEW m, NEW r \in Process(m)
    PROVE  r.ok \in BOOLEAN /\ (m.kind = "badblock" => r.ok = FALSE)
<1>1. CASE m.kind = "badblock"
    <2>1. r = [ok |-> FALSE, data |-> "none"]
        BY <1>1 DEF Process
    <2> QED
        BY <2>1
<1>2. CASE m.kind # "badblock"
    <2>1. r \in {[ok |-> TRUE, data |-> "new"], [ok |-> FALSE, data |-> "torn"]}
        BY <1>2 DEF Process
    <2>2. r = [ok |-> TRUE, data |-> "new"] \/ r = [ok |-> FALSE, data |-> "torn"]
        BY <2>1
    <2>3. CASE r = [ok |-> TRUE, data |-> "new"]
        BY <2>3, <1>2
    <2>4. CASE r = [ok |-> FALSE, data |-> "torn"]
        BY <2>4, <1>2
    <2> QED
        BY <2>2, <2>3, <2>4
<1> QED
    BY <1>1, <1>2

\* One turn of ProcessMessages handles one message, or none.
LEMMA ProcessSeen ==
    ASSUME IInv, ProcessMessages
    PROVE  \/ \E p \in Peers, S \in SUBSET Peers : Channel!Handle(p, S)
           \/ UNCHANGED Channel!vars
<1>1. th.at = "process"
    BY DEF ProcessMessages
<1>2. th.p \in Peers
    BY <1>1, ThreadFacts DEF IInv, Handling
<1>3. PICK p \in Peers : p = th.p
    BY <1>2
<1>4. PICK k : k = conn[p].recv[1][1]
    OBVIOUS
<1>5. PICK m : m = log[p][k]
    OBVIOUS
<1>6. PICK g : g = conn[p].hello
    OBVIOUS
<1>7. /\ \/ /\ TryParse(p) = "NeedMore"
            /\ UNCHANGED <<conn, up, down>>
         \/ /\ TryParse(p) = "Skip" /\ Ignore(p, 1)
         \/ /\ TryParse(p) = "Oversize" /\ CloseConn({p}, conn, down)
         \/ /\ TryParse(p) = "Ok" /\ m.kind \in {"hello", "badhello"} /\ HandleHello(p, m)
         \/ /\ TryParse(p) = "Ok" /\ m.kind \in {"block", "badblock"}
            /\ HandleDataBlock(p, m)
         \/ /\ TryParse(p) = "Ok" /\ m.kind = "bye" /\ HandleBye(p)
         \/ /\ TryParse(p) = "Ok" /\ m.kind = "other" /\ Ignore(p, Units(m))
      /\ UNCHANGED <<log, got>>
    BY <1>3, <1>4, <1>5, Zenon DEF ProcessMessages
<1>8. Kinds /\ PeerInv(p) /\ HandInv
    BY DEF IInv
<1>9. conn[p] \in Conns /\ conn[p].st = "open" /\ g \in BOOLEAN
    BY <1>1, <1>3, <1>6, <1>8, PeerFacts DEF HandInv, Handling
<1>10. TryParse(p) # "NeedMore" => m \in Msgs
    BY <1>4, <1>5, FrontSeen
<1>11. \A ok : Answer(p, ok) = [msg |-> k, ok |-> ok]
    BY <1>4 DEF Answer
<1>12. CASE TryParse(p) = "NeedMore"
    <2>1. UNCHANGED <<conn, up, down, log, got>>
        BY <1>7, <1>12
    <2>2. \A q \in Peers : Unhandled(q)' = Unhandled(q)
        BY <2>1 DEF Unhandled, Stream
    <2> QED
        BY <2>1, <2>2, SeenSame
<1>13. ASSUME TryParse(p) \in {"Ok", "Skip"}, m.kind \in {"junk", "other", "hello", "badhello"},
              m.kind \in {"hello", "badhello"} => g, Ignore(p, Units(m))
       PROVE  \E S \in SUBSET Peers : Channel!Handle(p, S)
    <2>1. Channel!Verdicts(m, g) = {}
        BY <1>9, <1>10, <1>13, VerdictFacts, Zenon
    <2>2. ~Channel!Ends(m, g)
        BY <1>9, <1>13 DEF Channel!Ends
    <2> QED
        BY <2>1, <2>2, <1>4, <1>5, <1>6, <1>7, <1>9, <1>13, IgnoreSeen, Zenon
<1>14. ASSUME NEW c \in Conns, c.st = "open", c.recv = conn[p].recv, c.send = conn[p].send,
              c.hello = (g \/ m.kind = "hello"), NEW v \in BOOLEAN,
              v \in Channel!Verdicts(m, g), NEW ends \in BOOLEAN, Channel!Ends(m, g) => ends,
              TryParse(p) = "Ok", EnqueueAck(p, c, Answer(p, v), ends)
       PROVE  \E S \in SUBSET Peers : Channel!Handle(p, S)
    <2>1. EnqueueAck(p, c, [msg |-> k, ok |-> v], ends)
        BY <1>4, <1>14 DEF Answer
    <2> QED
        BY <2>1, <1>4, <1>5, <1>6, <1>7, <1>9, <1>14, AckSeen, Zenon
<1>15. ASSUME TryParse(p) # "NeedMore", Channel!Verdicts(m, g) = {},
              CloseConn({p}, conn, down)
       PROVE  \E S \in SUBSET Peers : Channel!Handle(p, S)
    BY <1>4, <1>5, <1>6, <1>7, <1>9, <1>15, RejectSeen, Zenon
<1>16. CASE TryParse(p) = "Skip"
    <2>1. m \in Msgs /\ m.kind = "junk"
        BY <1>4, <1>5, <1>8, <1>10, <1>16, TryParseFacts
    <2>2. Ignore(p, Units(m))
        BY <2>1, <1>7, <1>16, UnitsFacts DEF Ignore
    <2> QED
        BY <2>1, <2>2, <1>13, <1>16
<1>17. CASE TryParse(p) = "Oversize"
    <2>1. m \in Msgs /\ m.kind = "oversize"
        BY <1>4, <1>5, <1>8, <1>10, <1>17, TryParseFacts
    <2>2. Channel!Verdicts(m, g) = {}
        BY <2>1, <1>9, VerdictFacts
    <2> QED
        BY <2>2, <1>7, <1>15, <1>17
<1>18. CASE TryParse(p) = "Ok" /\ m.kind \in {"hello", "badhello"}
    <2>1. HandleHello(p, m)
        BY <1>7, <1>18
    <2>2. CASE g
        BY <2>1, <2>2, <1>6, <1>13, <1>18 DEF HandleHello
    <2>3. CASE ~g /\ m.kind = "hello"
        <3>1. PICK c : c = [conn[p] EXCEPT !.hello = TRUE]
            OBVIOUS
        <3>2. EnqueueAck(p, c, Answer(p, TRUE), FALSE)
            BY <3>1, <2>1, <2>3, <1>6 DEF HandleHello, EnqueueAck
        <3>3. /\ c \in Conns /\ c.st = "open" /\ c.recv = conn[p].recv
              /\ c.send = conn[p].send /\ c.hello = TRUE
            BY <3>1, <1>9 DEF Conns
        <3>4. TRUE \in Channel!Verdicts(m, g)
            BY <2>3, <1>9, <1>10, <1>18, VerdictFacts
        <3>5. ~Channel!Ends(m, g)
            BY <2>3 DEF Channel!Ends
        <3>6. c.hello = (g \/ m.kind = "hello")
            BY <3>3, <2>3
        <3> QED
            BY <3>2, <3>3, <3>4, <3>5, <3>6, <1>14, <1>18
    <2>4. CASE ~g /\ m.kind = "badhello"
        <3>1. EnqueueAck(p, conn[p], Answer(p, FALSE), TRUE)
            BY <2>1, <2>4, <1>6 DEF HandleHello
        <3>2. FALSE \in Channel!Verdicts(m, g)
            BY <2>4, <1>9, <1>10, <1>18, VerdictFacts
        <3>3. conn[p].hello = (g \/ m.kind = "hello")
            BY <2>4, <1>6, <1>9
        <3> QED
            BY <3>1, <3>2, <3>3, <1>9, <1>14, <1>18
    <2> QED
        BY <2>2, <2>3, <2>4, <1>9, <1>18
<1>19. CASE TryParse(p) = "Ok" /\ m.kind \in {"block", "badblock"}
    <2>1. HandleDataBlock(p, m)
        BY <1>7, <1>19
    <2>2. CASE ~g
        <3>1. CloseConn({p}, conn, down)
            BY <2>1, <2>2, <1>6 DEF HandleDataBlock, Reject
        <3>2. Channel!Verdicts(m, g) = {}
            BY <2>2, <1>9, <1>10, <1>19, VerdictFacts
        <3> QED
            BY <3>1, <3>2, <1>15, <1>19
    <2>3. CASE g
        <3>1. PICK r \in Process(m) : EnqueueAck(p, conn[p], Answer(p, r.ok), FALSE)
            BY <2>1, <2>3, <1>6, Zenon DEF HandleDataBlock
        <3>2. r.ok \in BOOLEAN /\ (m.kind = "badblock" => r.ok = FALSE)
            BY ProcessFacts
        <3>3. r.ok \in Channel!Verdicts(m, g)
            BY <3>2, <2>3, <1>9, <1>10, <1>19, VerdictFacts
        <3>4. conn[p].hello = (g \/ m.kind = "hello")
            BY <2>3, <1>6, <1>9
        <3>5. ~Channel!Ends(m, g)
            BY <2>3, <1>19 DEF Channel!Ends
        <3> QED
            BY <3>1, <3>2, <3>3, <3>4, <3>5, <1>9, <1>14, <1>19
    <2> QED
        BY <2>2, <2>3, <1>9
<1>20. CASE TryParse(p) = "Ok" /\ m.kind = "bye"
    <2>1. EnqueueAck(p, conn[p], Answer(p, TRUE), TRUE)
        BY <1>7, <1>20 DEF HandleBye
    <2>2. TRUE \in Channel!Verdicts(m, g)
        BY <1>9, <1>10, <1>20, VerdictFacts
    <2>3. conn[p].hello = (g \/ m.kind = "hello")
        BY <1>6, <1>9, <1>20
    <2> QED
        BY <2>1, <2>2, <2>3, <1>9, <1>14, <1>20
<1>21. CASE TryParse(p) = "Ok" /\ m.kind = "other"
    BY <1>7, <1>13, <1>21
<1> QED
    BY <1>7, <1>12, <1>16, <1>17, <1>18, <1>19, <1>20, <1>21


\* A step that leaves connections, sockets and histories alone is not seen.
LEMMA QuietSeen ==
    ASSUME UNCHANGED <<conn, up, down, log, got>>
    PROVE  UNCHANGED Channel!vars
<1>1. \A q \in Peers : Unhandled(q)' = Unhandled(q)
    BY DEF Unhandled, Stream
<1> QED
    BY <1>1, SeenSame

\* The same units are the same messages.
LEMMA StreamSame ==
    ASSUME NEW q \in Peers, conn'[q].recv = conn[q].recv, up' = up, log' = log
    PROVE  Unhandled(q)' = Unhandled(q)
<1>1. Stream(q)' = Stream(q)
    BY DEF Stream
<1> QED
    BY <1>1 DEF Unhandled

\* An accepted connection is still empty.
LEMMA AcceptSeen ==
    ASSUME IInv, NEW p \in Peers, HandleAccept(p)
    PROVE  UNCHANGED Channel!vars
<1>1. /\ conn[p].st = "none" /\ conn' = [conn EXCEPT ![p] = Opened]
      /\ UNCHANGED <<up, down, log, got>>
    BY DEF HandleAccept
<1>2. conn \in [Peers -> Conns] /\ PeerInv(p)
    BY DEF IInv, Kinds
<1>3. conn[p] = NoConn
    BY <1>1, <1>2, FixedConns DEF PeerInv, BufferInv
<1>4. /\ conn'[p] = Opened /\ \A q \in Peers : q # p => conn'[q] = conn[q]
    BY <1>1, <1>2
<1>5. \A q \in Peers : /\ conn'[q].recv = conn[q].recv /\ conn'[q].send = conn[q].send
                       /\ conn'[q].hello = conn[q].hello
                       /\ conn'[q].st # "gone" <=> conn[q].st # "gone"
    BY <1>3, <1>4, FixedConns
<1>6. ASSUME NEW q \in Peers PROVE Unhandled(q)' = Unhandled(q)
    BY <1>1, <1>5, StreamSame
<1> QED
    BY <1>1, <1>5, <1>6, SeenSame

\* Answers that move from the send buffer to the socket are still on their way.
LEMMA ConnWritableSeen ==
    ASSUME IInv, NEW p \in Peers, conn[p].st = "open", HandleConnWritable(p)
    PROVE  (\E S \in SUBSET Peers : Channel!End(S)) \/ UNCHANGED Channel!vars
<1>1. PICK f : f = Drain(p, conn[p])
    OBVIOUS
<1>2. /\ \/ CloseConn({p}, conn, down)
         \/ /\ conn' = [conn EXCEPT ![p] = f.conn]
            /\ down' = [down EXCEPT ![p] = @ \o f.sent]
            /\ up' = up
      /\ UNCHANGED <<log, got>>
    BY <1>1 DEF HandleConnWritable
<1>3. CASE CloseConn({p}, conn, down)
    <2>1. PICK S \in SUBSET Peers : S = {p}
        OBVIOUS
    <2>2. CloseConn(S, conn, down) /\ \A q \in S : conn[q].st # "gone"
        BY <2>1, <1>3
    <2>3. Channel!End(S)
        BY <2>2, <1>2, EndStep
    <2> QED
        BY <2>3
<1>4. CASE /\ conn' = [conn EXCEPT ![p] = f.conn]
           /\ down' = [down EXCEPT ![p] = @ \o f.sent]
           /\ up' = up
    <2>1. conn \in [Peers -> Conns] /\ down \in [Peers -> Answers] /\ PeerInv(p)
        BY DEF IInv, Kinds
    <2>2. /\ conn[p].send \in Seq(Kept(p)) /\ down[p] \in Seq(Kept(p))
          /\ Len(down[p]) <= SockCap
        BY <2>1 DEF PeerInv, AnswerInv
    <2>3. PICK c \in Conns : c = conn[p]
        BY <2>1
    <2>4. /\ f.conn.st = c.st /\ f.conn.hello = c.hello /\ f.conn.recv = c.recv
          /\ (down[p] \o f.sent) \o f.conn.send = down[p] \o c.send
        <3>1. /\ Drain(p, c).conn.st = c.st /\ Drain(p, c).conn.hello = c.hello
              /\ Drain(p, c).conn.recv = c.recv
              /\ (down[p] \o Drain(p, c).sent) \o Drain(p, c).conn.send = down[p] \o c.send
            BY <2>2, <2>3, DrainEffect
        <3> QED
            BY <3>1, <2>3, <1>1
    <2>5. /\ conn'[p] = f.conn /\ down'[p] = down[p] \o f.sent
          /\ \A q \in Peers : q # p => conn'[q] = conn[q] /\ down'[q] = down[q]
        BY <2>1, <1>4
    <2>6. \A q \in Peers : /\ conn'[q].recv = conn[q].recv
                           /\ conn'[q].hello = conn[q].hello
                           /\ conn'[q].st # "gone" <=> conn[q].st # "gone"
        BY <2>3, <2>4, <2>5
    <2>7. ASSUME NEW q \in Peers
          PROVE  down'[q] \o conn'[q].send = down[q] \o conn[q].send
        <3>1. CASE q = p
            BY <3>1, <2>3, <2>4, <2>5
        <3>2. CASE q # p
            BY <3>2, <2>5
        <3> QED
            BY <3>1, <3>2
    <2>8. ASSUME NEW q \in Peers PROVE Unhandled(q)' = Unhandled(q)
        BY <2>6, <1>2, <1>4, StreamSame
    <2> QED
        BY <2>6, <2>7, <2>8, <1>2, SeenSame
<1> QED
    BY <1>2, <1>3, <1>4

\* What is received stays unhandled, in its order.
LEMMA ReadSeen ==
    ASSUME IInv, HandleConnReadable
    PROVE  (\E S \in SUBSET Peers : Channel!End(S)) \/ UNCHANGED Channel!vars
<1>1. th.at = "read"
    BY DEF HandleConnReadable
<1>2. th.p \in Peers /\ conn[th.p].st = "open"
    BY <1>1, ThreadFacts DEF IInv, Handling, HandInv
<1>3. PICK p \in Peers : p = th.p
    BY <1>2
<1>4. /\ \/ \E n \in 1 .. Min({Space(p), Len(up[p])}) :
               /\ conn' = [conn EXCEPT ![p].recv = @ \o SubSeq(up[p], 1, n)]
               /\ up' = [up EXCEPT ![p] = SubSeq(@, n + 1, Len(@))]
               /\ down' = down
         \/ UNCHANGED <<conn, up, down>>
         \/ CloseConn({p}, conn, down)
      /\ UNCHANGED <<log, got>>
    BY <1>3, Zenon DEF HandleConnReadable
<1>5. CASE UNCHANGED <<conn, up, down>>
    BY <1>4, <1>5, QuietSeen
<1>6. CASE CloseConn({p}, conn, down)
    <2>1. PICK S \in SUBSET Peers : S = {p}
        OBVIOUS
    <2>2. CloseConn(S, conn, down) /\ \A q \in S : conn[q].st # "gone"
        BY <2>1, <1>2, <1>3, <1>6
    <2>3. Channel!End(S)
        BY <2>2, <1>4, EndStep
    <2> QED
        BY <2>3
<1>7. CASE \E n \in 1 .. Min({Space(p), Len(up[p])}) :
              /\ conn' = [conn EXCEPT ![p].recv = @ \o SubSeq(up[p], 1, n)]
              /\ up' = [up EXCEPT ![p] = SubSeq(@, n + 1, Len(@))]
              /\ down' = down
    <2>1. PICK n \in 1 .. Min({Space(p), Len(up[p])}) :
             /\ conn' = [conn EXCEPT ![p].recv = @ \o SubSeq(up[p], 1, n)]
             /\ up' = [up EXCEPT ![p] = SubSeq(@, n + 1, Len(@))]
             /\ down' = down
        BY <1>7
    <2>2. Kinds /\ PeerInv(p) /\ conn[p].st = "open"
        BY <1>2, <1>3 DEF IInv
    <2>3. /\ conn'[p].st = "open" /\ conn'[p].hello = conn[p].hello
          /\ conn'[p].send = conn[p].send
          /\ conn'[p].recv \o up'[p] = conn[p].recv \o up[p]
          /\ \A q \in Peers \ {p} : conn'[q] = conn[q] /\ up'[q] = up[q]
        BY <2>1, <2>2, ReceiveEffect
    <2>4. \A q \in Peers : /\ conn'[q].send = conn[q].send
                           /\ conn'[q].hello = conn[q].hello
                           /\ conn'[q].st # "gone" <=> conn[q].st # "gone"
        BY <2>2, <2>3
    <2>5. ASSUME NEW q \in Peers PROVE Unhandled(q)' = Unhandled(q)
        <3>1. Stream(q)' = Stream(q)
            <4>1. CASE q = p
                BY <4>1, <2>3 DEF Stream
            <4>2. CASE q # p
                BY <4>2, <2>3 DEF Stream
            <4> QED
                BY <4>1, <4>2
        <3> QED
            BY <3>1, <1>4 DEF Unhandled
    <2> QED
        BY <2>1, <2>4, <2>5, <1>4, SeenSame
<1> QED
    BY <1>4, <1>5, <1>6, <1>7

\* Stop ends every open connection.
LEMMA StopSeen ==
    ASSUME IInv, Stop
    PROVE  \E S \in SUBSET Peers : Channel!End(S)
<1>1. CloseConn(Live, conn, down) /\ UNCHANGED <<log, got>>
    BY DEF Stop
<1>2. PICK S \in SUBSET Peers : S = Live
    BY DEF Live
<1>3. CloseConn(S, conn, down) /\ \A q \in S : conn[q].st # "gone"
    <2>1. \A q \in Live : conn[q].st # "gone"
        BY DEF Live
    <2> QED
        BY <2>1, <1>1, <1>2 DEF CloseConn
<1> QED
    BY <1>1, <1>3, EndStep

\* A message sent is one more to handle.
LEMMA SendSeen ==
    ASSUME IInv, NEW p \in Peers, PeerSend(p)
    PROVE  Channel!Send(p)
<1>1. conn[p].st # "gone" /\ UNCHANGED <<conn, down, got>>
    BY DEF PeerSend
<1>2. PICK m \in Msgs :
         /\ log' = [log EXCEPT ![p] = Append(@, m)]
         /\ up' = [up EXCEPT ![p] = @ \o UnitsSent(m, Len(log[p]) + 1)]
    BY DEF PeerSend, UnitsSent
<1>3. Kinds /\ PeerInv(p)
    BY DEF IInv
<1>4. log \in [Peers -> Seq(Msgs)] /\ up \in [Peers -> Seq(Nat \X Nat)]
    BY <1>3 DEF Kinds
<1>5. /\ conn[p].recv \in Seq(Nat \X Nat) /\ up[p] \in Seq(Nat \X Nat)
      /\ log[p] \in Seq(Msgs)
      /\ Stream(p) \in Seq(Nat \X Nat) /\ InSequence(Stream(p), log[p])
    BY <1>3, PeerFacts
<1>6. Len(log[p]) + 1 \in Nat
    BY <1>5
<1>7. UnitsSent(m, Len(log[p]) + 1) \in Seq(Nat \X Nat)
    BY <1>6, UnitsSentFacts
<1>8. /\ log'[p] = Append(log[p], m)
      /\ up'[p] = up[p] \o UnitsSent(m, Len(log[p]) + 1)
      /\ \A q \in Peers : q # p => log'[q] = log[q] /\ up'[q] = up[q]
    BY <1>2, <1>4
<1>9. Stream(p)' = Stream(p) \o UnitsSent(m, Len(log[p]) + 1)
    BY <1>1, <1>5, <1>7, <1>8, StreamSent
<1>10. Unhandled(p)' = Append(Unhandled(p), Len(log[p]) + 1)
    <2>1. Numbers(Stream(p) \o UnitsSent(m, Len(log[p]) + 1), Append(log[p], m))
              = Append(Numbers(Stream(p), log[p]), Len(log[p]) + 1)
        BY <1>5, NumbersSent
    <2>2. Numbers(Stream(p)', log'[p]) = Append(Numbers(Stream(p), log[p]), Len(log[p]) + 1)
        BY <2>1, <1>8, <1>9
    <2>3. Unhandled(p)' = Numbers(Stream(p)', log'[p]) /\ Unhandled(p) = Numbers(Stream(p), log[p])
        BY DEF Unhandled, Numbers
    <2> QED
        BY <2>2, <2>3
<1>11. ASSUME NEW q \in Peers, q # p PROVE Unhandled(q)' = Unhandled(q)
    BY <1>1, <1>8, <1>11 DEF Unhandled, Stream
<1>12. [q \in Peers |-> Unhandled(q)]'
           = [[q \in Peers |-> Unhandled(q)] EXCEPT ![p] = Append(@, Len(log[p]) + 1)]
    BY <1>10, <1>11
<1>13. [q \in Peers |-> conn[q].st # "gone"][p]
    BY <1>1
<1>14. /\ UNCHANGED [q \in Peers |-> conn[q].hello]
       /\ UNCHANGED [q \in Peers |-> down[q] \o conn[q].send]
       /\ UNCHANGED [q \in Peers |-> conn[q].st # "gone"]
    BY <1>1
<1> QED
    BY <1>1, <1>2, <1>12, <1>13, <1>14 DEF Channel!Send

\* The first element of two sequences together is that of the first one.
LEMMA HeadAndTail ==
    ASSUME NEW S, NEW s \in Seq(S), NEW t \in Seq(S), s # <<>>
    PROVE  /\ s \o t # <<>> /\ Head(s \o t) = Head(s)
           /\ Tail(s \o t) = Tail(s) \o t
<1> DEFINE u == s \o t  v == Tail(s) \o t
<1>1. Len(s) \in Nat /\ Len(s) >= 1 /\ Len(t) \in Nat
    OBVIOUS
<1>2. /\ u \in Seq(S) /\ Len(u) = Len(s) + Len(t)
      /\ \A i \in 1 .. Len(s) + Len(t) : u[i] = IF i <= Len(s) THEN s[i] ELSE t[i - Len(s)]
    BY Joined
<1>3. /\ Tail(s) \in Seq(S) /\ Len(Tail(s)) = Len(s) - 1
      /\ \A i \in 1 .. Len(s) - 1 : Tail(s)[i] = s[i + 1]
    OBVIOUS
<1>4. /\ v \in Seq(S) /\ Len(v) = (Len(s) - 1) + Len(t)
      /\ \A i \in 1 .. (Len(s) - 1) + Len(t) :
            v[i] = IF i <= Len(s) - 1 THEN Tail(s)[i] ELSE t[i - (Len(s) - 1)]
    BY <1>3, Joined
<1> HIDE DEF u, v
<1>5. u # <<>> /\ Head(u) = u[1] /\ Head(s) = s[1]
    BY <1>1, <1>2
<1>6. u[1] = s[1]
    BY <1>1, <1>2
<1>7. /\ Tail(u) \in Seq(S) /\ Len(Tail(u)) = Len(u) - 1
      /\ \A i \in 1 .. Len(u) - 1 : Tail(u)[i] = u[i + 1]
    BY <1>2, <1>5
<1>8. Len(Tail(u)) = Len(v)
    BY <1>1, <1>2, <1>4, <1>7
<1>9. ASSUME NEW i \in 1 .. Len(Tail(u)) PROVE Tail(u)[i] = v[i]
    <2>1. i \in 1 .. Len(u) - 1 /\ i \in 1 .. (Len(s) - 1) + Len(t)
        BY <1>1, <1>2, <1>7
    <2>2. Tail(u)[i] = u[i + 1]
        BY <2>1, <1>7
    <2>3. i + 1 \in 1 .. Len(s) + Len(t)
        BY <2>1, <1>1
    <2>4. u[i + 1] = IF i + 1 <= Len(s) THEN s[i + 1] ELSE t[(i + 1) - Len(s)]
        BY <2>3, <1>2
    <2>5. v[i] = IF i <= Len(s) - 1 THEN Tail(s)[i] ELSE t[i - (Len(s) - 1)]
        BY <2>1, <1>4
    <2>6. CASE i <= Len(s) - 1
        <3>1. i + 1 <= Len(s) /\ i \in 1 .. Len(s) - 1
            BY <2>1, <2>6, <1>1
        <3> QED
            BY <3>1, <2>2, <2>4, <2>5, <2>6, <1>3
    <2>7. CASE ~(i <= Len(s) - 1)
        <3>1. ~(i + 1 <= Len(s)) /\ (i + 1) - Len(s) = i - (Len(s) - 1)
            BY <2>1, <2>7, <1>1
        <3> QED
            BY <3>1, <2>2, <2>4, <2>5, <2>7
    <2> QED
        BY <2>6, <2>7
<1>10. Tail(u) = v
    BY <1>4, <1>7, <1>8, <1>9, SameSeq
<1> QED
    BY <1>5, <1>6, <1>10 DEF u, v

\* An answer read is an answer delivered.
LEMMA DeliverSeen ==
    ASSUME IInv, NEW p \in Peers, PeerRead(p)
    PROVE  Channel!Deliver(p)
<1>1. /\ down[p] # <<>> /\ got' = [got EXCEPT ![p] = Append(@, Head(down[p]))]
      /\ down' = [down EXCEPT ![p] = Tail(@)] /\ UNCHANGED <<conn, up, log>>
    BY DEF PeerRead
<1>2. down \in [Peers -> Answers]
    BY DEF IInv, Kinds
<1>3. down[p] \in Seq([msg : Nat, ok : BOOLEAN]) /\ conn[p].send \in Seq([msg : Nat, ok : BOOLEAN])
    BY AnswersSeen DEF Answers
<1>4. /\ down[p] \o conn[p].send # <<>>
      /\ Head(down[p] \o conn[p].send) = Head(down[p])
      /\ Tail(down[p] \o conn[p].send) = Tail(down[p]) \o conn[p].send
    BY <1>1, <1>3, HeadAndTail
<1>5. /\ down'[p] = Tail(down[p]) /\ \A q \in Peers : q # p => down'[q] = down[q]
    BY <1>1, <1>2
<1>6. [q \in Peers |-> down[q] \o conn[q].send]'
          = [[q \in Peers |-> down[q] \o conn[q].send] EXCEPT ![p] = Tail(@)]
    <2>1. ASSUME NEW q \in Peers
          PROVE  down'[q] \o conn'[q].send
                     = IF q = p THEN Tail(down[q] \o conn[q].send)
                       ELSE down[q] \o conn[q].send
        <3>1. CASE q = p
            BY <3>1, <1>1, <1>4, <1>5
        <3>2. CASE q # p
            <4>1. down'[q] = down[q] /\ conn' = conn
                BY <3>2, <1>1, <1>5
            <4> QED
                BY <3>2, <4>1, Zenon
        <3> QED
            BY <3>1, <3>2
    <2>2. \A q \in Peers : down'[q] \o conn'[q].send
                = [[r \in Peers |-> down[r] \o conn[r].send] EXCEPT ![p] = Tail(@)][q]
        BY <2>1
    <2> QED
        BY <2>2
<1>7. /\ [q \in Peers |-> down[q] \o conn[q].send][p] # <<>>
      /\ got' = [got EXCEPT ![p] =
                    Append(@, Head([q \in Peers |-> down[q] \o conn[q].send][p]))]
    BY <1>1, <1>4
<1>8. /\ UNCHANGED [q \in Peers |-> Unhandled(q)]
      /\ UNCHANGED [q \in Peers |-> conn[q].hello]
      /\ UNCHANGED [q \in Peers |-> conn[q].st # "gone"]
      /\ UNCHANGED log
    BY <1>1 DEF Unhandled, Stream
<1> QED
    BY <1>6, <1>7, <1>8 DEF Channel!Deliver


\* Every step of the server is a step of the protocol, or none.
LEMMA StepSeen ==
    ASSUME IInv, [Next]_vars
    PROVE  [Channel!Next]_(Channel!vars)
<1>1. (\E S \in SUBSET Peers : Channel!End(S)) => Channel!Next
    BY DEF Channel!Next
<1>2. ASSUME NEW p \in Peers, HandleAccept(p) \/ Readable(p) \/ Connect(p) \/ PeerLeave(p)
      PROVE  UNCHANGED Channel!vars
    <2>1. CASE HandleAccept(p)
        BY <2>1, AcceptSeen
    <2>2. CASE Readable(p) \/ Connect(p) \/ PeerLeave(p)
        BY <2>2, QuietSeen DEF Readable, Connect, PeerLeave
    <2> QED
        BY <1>2, <2>1, <2>2
<1>3. ASSUME NEW p \in Peers, HandleConnError(p)
      PROVE  Channel!Next
    <2>1. conn[p].st = "open" /\ CloseConn({p}, conn, down) /\ UNCHANGED <<log, got>>
        BY <1>3 DEF HandleConnError
    <2>2. PICK S \in SUBSET Peers : S = {p}
        OBVIOUS
    <2>3. CloseConn(S, conn, down) /\ \A q \in S : conn[q].st # "gone"
        BY <2>1, <2>2
    <2>4. Channel!End(S)
        BY <2>1, <2>3, EndStep
    <2> QED
        BY <2>4, <1>1
<1>4. ASSUME NEW p \in Peers, Writable(p)
      PROVE  [Channel!Next]_(Channel!vars)
    BY <1>1, <1>4, ConnWritableSeen DEF Writable
<1>5. CASE AfterRead
    <2>1. th.at = "out"
        BY <1>5 DEF AfterRead
    <2>2. th.p \in Peers /\ conn[th.p].st = "open"
        BY <2>1, ThreadFacts DEF IInv, Handling, HandInv
    <2>3. CASE th.out
        <3>1. HandleConnWritable(th.p)
            BY <1>5, <2>3 DEF AfterRead
        <3>2. PICK p \in Peers : p = th.p
            BY <2>2
        <3>3. HandleConnWritable(p) /\ conn[p].st = "open"
            BY <3>1, <3>2, <2>2 DEF HandleConnWritable, CloseConn, Dropped
        <3> QED
            BY <3>3, <1>1, ConnWritableSeen
    <2>4. CASE ~th.out
        BY <1>5, <2>4, QuietSeen DEF AfterRead
    <2> QED
        BY <2>3, <2>4
<1>6. ASSUME NEW p \in Peers, PeerSend(p) \/ PeerRead(p)
      PROVE  Channel!Next
    BY <1>6, SendSeen, DeliverSeen DEF Channel!Next
<1>7. CASE HandleConnReadable
    BY <1>1, <1>7, ReadSeen
<1>8. CASE ProcessMessages
    BY <1>8, ProcessSeen DEF Channel!Next
<1>9. CASE Stop
    BY <1>1, <1>9, StopSeen
<1>10. CASE CloseAll \/ PowerLoss
    BY <1>10, QuietSeen DEF CloseAll, PowerLoss
<1>11. CASE UNCHANGED vars
    BY <1>11, QuietSeen DEF vars
<1> QED
    BY <1>2, <1>3, <1>4, <1>5, <1>6, <1>7, <1>8, <1>9, <1>10, <1>11 DEF Next

\* However receives and sends are cut into pieces and connections end, the
\* server keeps the protocol its clients rely on: messages handled in order,
\* one answer for each that asks for one, answers in order (AckChannel).
THEOREM ServerKeepsProtocol == Spec => InOrder
<1>1. Init => Channel!Init
    <2> SUFFICES ASSUME Init PROVE Channel!Init
        OBVIOUS
    <2>1. /\ conn = [p \in Peers |-> NoConn] /\ up = [p \in Peers |-> <<>>]
          /\ down = [p \in Peers |-> <<>>] /\ log = [p \in Peers |-> <<>>]
          /\ got = [p \in Peers |-> <<>>]
        BY DEF Init
    <2>2. <<>> \o <<>> = <<>>
        OBVIOUS
    <2>3. \A p \in Peers : /\ conn[p].recv = <<>> /\ conn[p].send = <<>>
                           /\ conn[p].hello = FALSE /\ conn[p].st # "gone"
                           /\ up[p] = <<>> /\ down[p] = <<>>
        BY <2>1, FixedConns
    <2>4. [p \in Peers |-> Unhandled(p)] = [p \in Peers |-> <<>>]
        BY <2>3, NothingToHandle
    <2>5. [p \in Peers |-> conn[p].hello] = [p \in Peers |-> FALSE]
        BY <2>3
    <2>6. [p \in Peers |-> down[p] \o conn[p].send] = [p \in Peers |-> <<>>]
        BY <2>2, <2>3
    <2>7. [p \in Peers |-> conn[p].st # "gone"] = [p \in Peers |-> TRUE]
        BY <2>3
    <2> QED
        BY <2>1, <2>4, <2>5, <2>6, <2>7 DEF Channel!Init
<1>2. IInv /\ [Next]_vars => [Channel!Next]_(Channel!vars)
    BY StepSeen
<1> QED
    BY <1>1, <1>2, Invariance, PTL DEF Spec, InOrder, Channel!Spec
=============================================================================
