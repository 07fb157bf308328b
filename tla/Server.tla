------------------------------- MODULE Server -------------------------------
(***************************************************************************)
(* The backup server (server/Server.cpp with RingBuffer, MessageParser,    *)
(* BlockProcessor and DiskMap): one thread, an epoll loop, a receive and a *)
(* send buffer per connection, and the page cache between an acknowledged  *)
(* block and the disk.                                                     *)
(*                                                                         *)
(* The byte stream of a peer is a sequence of units; a message is as many  *)
(* units as TryParse tells apart (header, block header, data), so that a   *)
(* message arrives in pieces and a receive may end anywhere.  An answer    *)
(* counts as sent when its last byte has left the send buffer.             *)
(***************************************************************************)
EXTENDS Integers, Sequences, FiniteSetsExt, TLC

CONSTANTS
    Peers,    \* the clients, one connection each
    Blocks,   \* the blocks of the image
    RecvCap,  \* units the receive buffer holds (kRecvBufSize)
    SockCap,  \* answers the socket takes before send says EAGAIN
    Quotas    \* bounds: how far each peer may go, connecting counted as one step

(* A message of legal size fits the receive buffer: kRecvBufSize is 4 MB,  *)
(* a block message at most 2 MB and its two headers.                       *)
ASSUME ServerAssumption ==
    /\ Blocks \subseteq Nat \ {0}
    /\ RecvCap \in Nat /\ RecvCap > 3
    /\ SockCap \in Nat \ {0}
    /\ Quotas \subseteq [Peers -> Nat]

(* badhello: unknown device or image too small; badblock: unknown device,  *)
(* out of range, not inflatable or with another hash; junk: bytes that no  *)
(* header starts with, one less than a header has; other: ACK or ERROR     *)
(* from a client.                                                          *)
Msgs ==
    [kind : {"hello", "badhello", "badblock", "junk", "other", "oversize", "bye"},
     b : {0}] \cup [kind : {"block"}, b : Blocks]

Units(m) ==
    CASE m.kind \in {"hello", "badhello"} -> 2
      [] m.kind \in {"block", "badblock"} -> 3
      [] m.kind = "oversize"              -> RecvCap + 1
      [] OTHER                            -> 1

VARIABLES
    th,     \* where the thread is: At(...) without, In(...) with an event in hand
    running,\* running_
    conn,   \* conns_: the Conn of each peer, or NoConn
    cache,  \* the image as the server's operating system sees it
    disk,   \* the image on the disk
    peer,   \* the peer's end: "new", "open", "closed", "reset"
    up,     \* units on their way to the server
    down,   \* answers the socket took, not yet read
    log,    \* history: the messages each peer has sent
    got,    \* history: the answers it has read
    torn,   \* history: blocks whose last write has failed and was refused
    synced, \* history: CloseAll has synced the image
    power   \* history: the machine has never lost power

vars == <<th, running, conn, cache, disk, peer, up, down, log, got, torn, synced,
          power>>

At(at) == [at |-> at]
Waiting == At("wait")  \* in epoll_wait; the others: "exited", "crashed", "hung"

(* In HandleConnReadable ("read"), ProcessMessages ("process") or the      *)
(* EPOLLOUT half ("out") of p's event.  out: the event says EPOLLOUT.      *)
(* onward: where ProcessMessages returns to, "read" or "out"; "start":     *)
(* nothing has been received for this event.                               *)
In(at, p, onward, out) == [at |-> at, p |-> p, onward |-> onward, out |-> out]
Handling == th.at \in {"read", "process", "out"}
Alive == th.at = "wait" \/ Handling

NoConn == [st |-> "none", hello |-> FALSE, recv |-> <<>>, send |-> <<>>,
           armed |-> FALSE]
Gone == [NoConn EXCEPT !.st = "gone"]
Opened == [NoConn EXCEPT !.st = "open"]

Init ==
    /\ th = Waiting /\ running = TRUE
    /\ conn = [p \in Peers |-> NoConn]
    /\ cache = [b \in Blocks |-> "old"] /\ disk = cache
    /\ peer = [p \in Peers |-> "new"]
    /\ up = [p \in Peers |-> <<>>] /\ down = [p \in Peers |-> <<>>]
    /\ log = [p \in Peers |-> <<>>] /\ got = [p \in Peers |-> <<>>]
    /\ torn = {} /\ synced = FALSE /\ power = TRUE

-----------------------------------------------------------------------------
(* Connections. *)

(* The Conn objects of S are destroyed and their sockets closed.  A socket  *)
(* closed with unread data resets the connection, and answers on their way  *)
(* may be lost.                                                             *)
Dropped(d, S) ==
    {[p \in Peers |-> IF p \in L THEN <<>> ELSE d[p]] :
        L \in SUBSET {p \in S : up[p] # <<>>}}

CloseConn(S, c, d) ==
    /\ conn' = [p \in Peers |-> IF p \in S THEN Gone ELSE c[p]]
    /\ up' = [p \in Peers |-> IF p \in S THEN <<>> ELSE up[p]]
    /\ down' \in Dropped(d, S)

Live == {p \in Peers : conn[p].st = "open"}

HandleAccept(p) ==
    /\ th = Waiting /\ running
    /\ peer[p] # "new" /\ conn[p].st = "none"
    /\ conn' = [conn EXCEPT ![p] = Opened]
    /\ UNCHANGED <<th, running, cache, disk, peer, up, down, log,
                   got, torn, synced, power>>

-----------------------------------------------------------------------------
(* Sending. *)

Room(p) == SockCap - Len(down[p])

\* Mutant: the write interest is dropped before the buffer is empty.
DrainDisarmed(p, c) ==
    LET n == Min({Room(p), Len(c.send)})
    IN  [conn |-> [c EXCEPT !.send = SubSeq(@, n + 1, Len(@)), !.armed = FALSE],
         sent |-> SubSeq(c.send, 1, n)]

(* HandleConnWritable without a send error: what the socket takes leaves   *)
(* the buffer; EPOLLOUT stays armed until the buffer is empty.             *)
Drain(p, c) ==
    LET n == Min({Room(p), Len(c.send)})
    IN  [conn |-> [c EXCEPT !.send = SubSeq(@, n + 1, Len(@)),
                            !.armed = n < Len(c.send)],
         sent |-> SubSeq(c.send, 1, n)]

(* The event EPOLLOUT alone, or after the reading half of an event. *)
HandleConnWritable(p) ==
    LET f == Drain(p, conn[p])
    IN  /\ th' = Waiting
        /\ IF conn[p].send # <<>> /\ peer[p] = "reset"
           THEN CloseConn({p}, conn, down)
           ELSE /\ conn' = [conn EXCEPT ![p] = f.conn]
                /\ down' = [down EXCEPT ![p] = @ \o f.sent]
                /\ up' = up
        /\ UNCHANGED <<running, cache, disk, peer, log, got,
                       torn, synced, power>>

Writable(p) ==
    /\ th = Waiting /\ running /\ conn[p].st = "open"
    /\ peer[p] # "reset" /\ up[p] = <<>> /\ peer[p] # "closed"
    /\ conn[p].armed /\ Room(p) > 0
    /\ HandleConnWritable(p)

AfterRead ==
    /\ th.at = "out"
    /\ IF th.out THEN HandleConnWritable(th.p)
       ELSE /\ th' = Waiting
            /\ UNCHANGED <<running, conn, cache, disk, peer, up,
                           down, log, got, torn, synced, power>>

-----------------------------------------------------------------------------
(* Receiving. *)

HandleConnError(p) ==
    /\ th = Waiting /\ running /\ conn[p].st = "open"
    /\ peer[p] = "reset"
    /\ CloseConn({p}, conn, down)
    /\ UNCHANGED <<th, running, cache, disk, peer, log, got, torn,
                   synced, power>>

Readable(p) ==
    /\ th = Waiting /\ running /\ conn[p].st = "open"
    /\ peer[p] # "reset"
    /\ up[p] # <<>> \/ peer[p] = "closed"
    /\ th' = In("read", p, "start", conn[p].armed /\ Room(p) > 0)
    /\ UNCHANGED <<running, conn, cache, disk, peer, up, down, log, got, torn,
                   synced, power>>

\* Mutant: what the buffer already holds is not counted.
SpaceWhole(p) == RecvCap

Space(p) == RecvCap - Len(conn[p].recv)

(* WriteFromFd: as much as has arrived and fits; a full buffer, the end of *)
(* the stream and an error close the connection, EAGAIN ends the loop.     *)
HandleConnReadable ==
    LET p == th.p
    IN  /\ th.at = "read"
        /\ \/ \E n \in 1 .. Min({Space(p), Len(up[p])}) :
                 /\ conn' = [conn EXCEPT ![p].recv = @ \o SubSeq(up[p], 1, n)]
                 /\ up' = [up EXCEPT ![p] = SubSeq(@, n + 1, Len(@))]
                 /\ th' = In("process", p, "read", th.out)
                 /\ down' = down
           \/ /\ Space(p) > 0 /\ peer[p] = "open"
              /\ th.onward = "read" \/ up[p] = <<>>
              /\ th' = In("process", p, "out", th.out)
              /\ UNCHANGED <<conn, up, down>>
           \/ /\ \/ Space(p) = 0
                 \/ peer[p] = "closed" /\ up[p] = <<>>
                 \/ peer[p] = "reset"
              /\ CloseConn({p}, conn, down)
              /\ th' = Waiting
        /\ UNCHANGED <<running, cache, disk, peer, log, got, torn,
                       synced, power>>

-----------------------------------------------------------------------------
(* Messages. *)

\* Mutant: the announced size of a block is not limited.
TryParseUnlimited(p) ==
    LET r == conn[p].recv
        m == log[p][r[1][1]]
    IN  IF r = <<>> THEN "NeedMore"
        ELSE IF m.kind = "junk" /\ Len(r) >= 2 THEN "Skip"
        ELSE IF m.kind = "junk" \/ Len(r) < Units(m) THEN "NeedMore" ELSE "Ok"

(* Nothing is said of less than a header: junk is skipped, byte by byte, as *)
(* long as what has arrived behind it makes up for one.                     *)
TryParse(p) ==
    LET r == conn[p].recv
        m == log[p][r[1][1]]
    IN  IF r = <<>> THEN "NeedMore"
        ELSE IF m.kind = "oversize" /\ Len(r) >= 2 THEN "Oversize"
        ELSE IF m.kind = "junk" /\ Len(r) >= 2 THEN "Skip"
        ELSE IF m.kind = "junk" \/ Len(r) < Units(m) THEN "NeedMore" ELSE "Ok"

Consumed(c, n) == [c EXCEPT !.recv = SubSeq(@, n + 1, Len(@))]

(* BlockProcessor::Process: the checks come before the write; a failed or  *)
(* short pwrite is refused and leaves the block torn.                      *)
Process(m) ==
    IF m.kind = "badblock" THEN {[ok |-> FALSE, data |-> "none"]}
    ELSE {[ok |-> TRUE, data |-> "new"], [ok |-> FALSE, data |-> "torn"]}

Answer(p, ok) == [msg |-> conn[p].recv[1][1], ok |-> ok]

(* What reading c.fd of a destroyed Conn does: the value names no          *)
(* connection, or it names one and the thread goes on in freed memory.     *)
Stale == {Waiting, At("crashed")}

(* EnqueueAck: the answer goes into the send buffer and out at once as far *)
(* as the socket takes it.  When that send fails the Conn is destroyed     *)
(* under the handler; c is the Conn as the handler leaves it, ends says    *)
(* that the handler closes it, and the stale c.fd may name a stranger.     *)
EnqueueAck(p, c, a, ends) ==
    LET f == Drain(p, [c EXCEPT !.send = Append(@, a)])
        d == [down EXCEPT ![p] = @ \o f.sent]
    IN  IF peer[p] = "reset"
        THEN /\ \E S \in {{p}} \cup (IF ends THEN {{p, q} : q \in Live} ELSE {}) :
                   CloseConn(S, conn, down)
             /\ th' \in Stale
        ELSE IF ends
        THEN /\ CloseConn({p}, conn, d)
             /\ th' \in Stale
        ELSE /\ conn' = [conn EXCEPT ![p] = Consumed(f.conn, Units(log[p][a.msg]))]
             /\ down' = d /\ up' = up /\ th' = th

Reject(p) ==
    /\ CloseConn({p}, conn, down)
    /\ th' \in Stale

\* Mutant: a repeated HELLO is answered.
HandleHelloAgain(p, m) ==
    EnqueueAck(p, [conn[p] EXCEPT !.hello = @ \/ m.kind = "hello"],
               Answer(p, m.kind = "hello"), m.kind = "badhello")

Ignore(p, n) ==
    /\ conn' = [conn EXCEPT ![p] = Consumed(@, n)]
    /\ UNCHANGED <<up, down, th>>

HandleHello(p, m) ==
    IF conn[p].hello THEN Ignore(p, Units(m))
    ELSE IF m.kind = "hello"
    THEN EnqueueAck(p, [conn[p] EXCEPT !.hello = TRUE], Answer(p, TRUE), FALSE)
    ELSE EnqueueAck(p, conn[p], Answer(p, FALSE), TRUE)

HandleDataBlock(p, m) ==
    IF ~conn[p].hello THEN Reject(p) /\ UNCHANGED <<cache, torn>>
    ELSE \E r \in Process(m) :
            /\ EnqueueAck(p, conn[p], Answer(p, r.ok), FALSE)
            /\ cache' = IF r.data = "none" THEN cache ELSE [cache EXCEPT ![m.b] = r.data]
            /\ torn' = IF r.data = "none" THEN torn
                       ELSE IF r.ok THEN torn \ {m.b} ELSE torn \cup {m.b}

HandleBye(p) == EnqueueAck(p, conn[p], Answer(p, TRUE), TRUE)

(* One turn of ProcessMessages. *)
ProcessMessages ==
    LET p == th.p
        r == TryParse(p)
        m == log[p][conn[p].recv[1][1]]
    IN  /\ th.at = "process"
        /\ \/ /\ r = "NeedMore"
              /\ th' = [th EXCEPT !.at = th.onward]
              /\ UNCHANGED <<conn, up, down, cache, torn>>
           \/ /\ r = "Skip"
              /\ Ignore(p, 1) /\ UNCHANGED <<cache, torn>>
           \/ /\ r = "Oversize"
              /\ CloseConn({p}, conn, down) /\ th' = Waiting
              /\ UNCHANGED <<cache, torn>>
           \/ /\ r = "Ok" /\ m.kind \in {"hello", "badhello"}
              /\ HandleHello(p, m) /\ UNCHANGED <<cache, torn>>
           \/ /\ r = "Ok" /\ m.kind \in {"block", "badblock"}
              /\ HandleDataBlock(p, m)
           \/ /\ r = "Ok" /\ m.kind = "bye"
              /\ HandleBye(p) /\ UNCHANGED <<cache, torn>>
           \/ /\ r = "Ok" /\ m.kind = "other"
              /\ Ignore(p, Units(m)) /\ UNCHANGED <<cache, torn>>
        /\ UNCHANGED <<running, disk, peer, log, got, synced,
                       power>>

-----------------------------------------------------------------------------
(* The end of the server. *)

(* SIGINT or SIGTERM: OnSignal runs Stop on the server's own thread, which *)
(* destroys every Conn.  Inside a handler that handler then works on freed *)
(* memory, or the signal fell into Logger or malloc and Stop waits for a   *)
(* lock its own thread holds.                                              *)
Stop ==
    /\ running /\ Alive
    /\ running' = FALSE
    /\ CloseConn(Live, conn, down)
    /\ th' \in IF Handling THEN Stale \cup {At("hung")} ELSE {Waiting}
    /\ UNCHANGED <<cache, disk, peer, log, got, torn, synced,
                   power>>

\* Mutant: the image files are closed without a sync.
CloseAllUnsynced ==
    /\ th = Waiting /\ ~running
    /\ th' = At("exited")
    /\ disk' = disk /\ synced' = TRUE
    /\ UNCHANGED <<running, conn, cache, peer, up, down, log, got,
                   torn, power>>

(* Run returns and main closes the image files; fsync may fail, which      *)
(* CloseAll does not look at.                                              *)
CloseAll ==
    /\ th = Waiting /\ ~running
    /\ th' = At("exited")
    /\ \/ disk' = cache /\ synced' = TRUE
       \/ disk' = disk /\ synced' = FALSE
    /\ UNCHANGED <<running, conn, cache, peer, up, down, log, got,
                   torn, power>>

(* The machine loses power: of what was not synced, some blocks had been   *)
(* written back and some had not.                                          *)
PowerLoss ==
    /\ power /\ power' = FALSE
    /\ \E S \in SUBSET Blocks :
          disk' = [b \in Blocks |-> IF b \in S THEN cache[b] ELSE disk[b]]
    /\ cache' = disk'
    /\ th' = IF Alive THEN At("crashed") ELSE th
    /\ UNCHANGED <<running, conn, peer, up, down, log, got, torn,
                   synced>>

-----------------------------------------------------------------------------
(* The peers. *)

Steps(p) == IF peer[p] = "new" THEN 0 ELSE 1 + Len(log[p])
Bounded(p) ==
    \E q \in Quotas : /\ \A r \in Peers : Steps(r) <= q[r]
                      /\ Steps(p) < q[p]

Connect(p) ==
    /\ peer[p] = "new" /\ running /\ Alive /\ Bounded(p)
    /\ peer' = [peer EXCEPT ![p] = "open"]
    /\ UNCHANGED <<th, running, conn, cache, disk, up, down, log,
                   got, torn, synced, power>>

PeerSend(p) ==
    /\ peer[p] = "open" /\ conn[p].st # "gone" /\ Alive
    /\ Bounded(p)
    /\ \E m \in Msgs :
          /\ log' = [log EXCEPT ![p] = Append(@, m)]
          /\ up' = [up EXCEPT ![p] =
                      @ \o [j \in 1 .. Units(m) |-> <<Len(log[p]) + 1, j>>]]
    /\ UNCHANGED <<th, running, conn, cache, disk, peer, down, got,
                   torn, synced, power>>

PeerRead(p) ==
    /\ peer[p] = "open" /\ down[p] # <<>>
    /\ got' = [got EXCEPT ![p] = Append(@, Head(down[p]))]
    /\ down' = [down EXCEPT ![p] = Tail(@)]
    /\ UNCHANGED <<th, running, conn, cache, disk, peer, up, log,
                   torn, synced, power>>

PeerLeave(p) ==
    /\ Alive
    /\ \/ peer[p] = "open" /\ peer' = [peer EXCEPT ![p] = "closed"]
       \/ peer[p] \in {"open", "closed"} /\ peer' = [peer EXCEPT ![p] = "reset"]
    /\ UNCHANGED <<th, running, conn, cache, disk, up, down, log,
                   got, torn, synced, power>>

Next ==
    \/ \E p \in Peers :
          \/ HandleAccept(p) \/ HandleConnError(p) \/ Readable(p) \/ Writable(p)
          \/ Connect(p) \/ PeerSend(p) \/ PeerRead(p) \/ PeerLeave(p)
    \/ HandleConnReadable \/ ProcessMessages \/ AfterRead
    \/ Stop \/ CloseAll \/ PowerLoss

(* The thread goes on, epoll_wait reports every ready connection in turn,  *)
(* and a client's ACK thread reads what arrives.  Nothing obliges a peer   *)
(* to send or to leave, or the machine to stop.                            *)
Fairness ==
    /\ WF_vars(HandleConnReadable \/ ProcessMessages \/ AfterRead \/ CloseAll)
    /\ \A p \in Peers : /\ WF_vars(HandleAccept(p) \/ HandleConnError(p)
                                   \/ Readable(p) \/ Writable(p))
                        /\ WF_vars(PeerRead(p))

Spec == Init /\ [][Next]_vars /\ Fairness

-----------------------------------------------------------------------------
(* Properties. *)

Answers == Seq([msg : Nat, ok : BOOLEAN])
UnitsOf(p) == (1 .. Len(log[p])) \X (1 .. RecvCap + 1)

(* Every buffer holds what belongs to its connection, and only the Conn in *)
(* conns_ has any content.                                                 *)
TypeOK ==
    /\ \/ th \in [at : {"wait", "exited", "crashed", "hung"}]
       \/ /\ th \in [at : {"read", "process", "out"}, p : Peers,
                     onward : {"start", "read", "out"}, out : BOOLEAN]
          /\ conn[th.p].st = "open"
    /\ {running, synced, power} \subseteq BOOLEAN
    /\ \A p \in Peers :
          /\ conn[p].st \in {"none", "open", "gone"}
          /\ conn[p].st # "open" => conn[p] \in {NoConn, Gone}
          /\ conn[p].recv \in Seq(UnitsOf(p)) /\ Len(conn[p].recv) <= RecvCap
          /\ up[p] \in Seq(UnitsOf(p))
          /\ conn[p].send \in Answers /\ down[p] \in Answers /\ got[p] \in Answers
          /\ Len(down[p]) <= SockCap
          /\ log[p] \in Seq(Msgs)
    /\ peer \in [Peers -> {"new", "open", "closed", "reset"}]
    /\ {cache, disk} \subseteq [Blocks -> {"old", "new", "torn"}]
    /\ torn \subseteq Blocks

(* What a peer has sent and the server has not handled, and the places in  *)
(* log of these messages: all from the first unit on.                      *)
Stream(p) == conn[p].recv \o up[p]
Unhandled(p) ==
    IF Stream(p) = <<>> THEN <<>>
    ELSE LET k == Stream(p)[1][1]
         IN  [i \in 1 .. Len(log[p]) - k + 1 |-> k + i - 1]

(* The buffers, the partial receives and sends and the closing handlers of *)
(* Server.cpp keep the protocol: in-order handling, one answer per message *)
(* that asks for one, answers in order.                                    *)
Channel == INSTANCE AckChannel WITH
    todo <- [p \in Peers |-> Unhandled(p)],
    greeted <- [p \in Peers |-> conn[p].hello],
    answers <- [p \in Peers |-> down[p] \o conn[p].send],
    open <- [p \in Peers |-> conn[p].st # "gone"]
InOrder == Channel!Spec

(* WriteFromFd never finds the buffer full: what ProcessMessages leaves is *)
(* less than one message, and no message is larger than the buffer.        *)
RecvNeverFull == th.at = "read" => Len(conn[th.p].recv) < RecvCap

(* A block whose answer OK reached a client is in the image, whatever was  *)
(* refused before, unless a later write of it failed; and it is there      *)
(* after a loss of power if the server had left in order                   *)
(* (BlockProcessor::Process, DiskMap::CloseAll).  What a loss of power     *)
(* does to a running server is AckedIsDurable.                             *)
AckedSurvives ==
    \A p \in Peers : \A i \in DOMAIN got[p] :
        LET m == log[p][got[p][i].msg]
        IN  got[p][i].ok /\ m.kind = "block" /\ m.b \notin torn /\ (power \/ synced)
            => cache[m.b] = "new"

(* "ACK = the data is persisted, recoverable" (docs/ServerDesign.md): a    *)
(* block whose answer OK reached a client is in the image also after a     *)
(* loss of power, unless a later write of it failed.  This is false: only  *)
(* CloseAll syncs.                                                         *)
AckedIsDurable ==
    \A p \in Peers : \A i \in DOMAIN got[p] :
        LET m == log[p][got[p][i].msg]
        IN  got[p][i].ok /\ m.kind = "block" /\ m.b \notin torn
            => cache[m.b] = "new"

(* A message that has arrived is handled and its answer leaves the buffer, *)
(* or the connection ends, however receives and sends are cut into pieces. *)
Owed(p) ==
    /\ Alive /\ conn[p].st # "gone" /\ peer[p] = "open"
    /\ up[p] # <<>> \/ conn[p].send # <<>> \/ TryParse(p) # "NeedMore"
Answered == \A p \in Peers : Owed(p) ~> ~Owed(p)
=============================================================================
