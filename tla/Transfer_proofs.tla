--------------------------- MODULE Transfer_proofs ---------------------------
(***************************************************************************)
(* The incremental transfer for any number of blocks and retries: types,   *)
(* AnswerIsOwn, AckedMeansStored, SentCountExact and CleanRunComplete.     *)
(***************************************************************************)
EXTENDS Transfer, SequenceTheorems, FiniteSetTheorems, TLAPS

(* Where the loop is with respect to the number of blocks. *)
LoopInv ==
    /\ pc \notin {"block", "done"} => i < N
    /\ sent <= i

(* A block is sent at most once per attempt. *)
TxInv ==
    /\ \A b \in Blocks : b > i \/ (b = i /\ pc = "block") => tx[b] = 0
    /\ pc = "try" => tx[i] <= retry
    /\ pc \in {"recv", "result"} => tx[i] <= retry + 1

Answer(ok) == [b |-> i, ok |-> ok]

(* While the client is connected, only the block in hand and its answer    *)
(* are on their way, and only while ReceiveAck waits.                      *)
NetInv ==
    /\ dry => ~connected
    /\ pc = "recv" => connected
    /\ connected /\ pc # "recv" => up = <<>> /\ down = <<>>
    /\ pc = "recv" =>
          \/ up = <<>> /\ down = <<>>
          \/ up = <<i>> /\ down = <<>>
          \/ up = <<>> /\ \E ok \in BOOLEAN :
                             down = <<Answer(ok)>> /\ (ok => image[i] = "new")

(* A success is one of the block in hand. *)
ResInv == pc = "result" /\ res /\ ~dry => connected /\ image[i] = "new"

(* Neither the blocks that are not finished yet nor those that are on      *)
(* their way count as acknowledged, so a late message tears none that does. *)
Unacked(b) == "Acknowledged" \notin {ack[b], saved[b]}
StrayInv ==
    ~dry => /\ \A b \in Blocks : b >= i => Unacked(b)
            /\ \A k \in 1 .. Len(up) : Unacked(up[k])

IInv == TypeOK /\ LoopInv /\ TxInv /\ NetInv /\ ResInv /\ StrayInv /\ AckedMeansStored

USE TransferAssumption

(* The loop has just begun: nothing is on its way or acknowledged. *)
LEMMA InitIInv == Init => IInv
  BY DEF Init, IInv, TypeOK, LoopInv, TxInv, NetInv, ResInv, StrayInv, AckedMeansStored,
         Unacked, Blocks, Statuses

(* The next block. *)
LEMMA BlockKeeps == IInv /\ Block => IInv'
<1> SUFFICES ASSUME IInv, Block PROVE IInv'
    OBVIOUS
<1> USE DEF IInv, Block, netVars
<1>1. TypeOK'
  <2>1. i' \in 0 .. N /\ retry' \in 0 .. RetryCount
      BY DEF TypeOK
  <2>2. pc' \in {"block", "try", "done"} /\ trouble' \in BOOLEAN
      BY DEF TypeOK
  <2> QED
      BY <2>1, <2>2 DEF TypeOK
<1>2. LoopInv' /\ TxInv'
    BY DEF TypeOK, LoopInv, TxInv, Blocks
<1>3. NetInv' /\ ResInv'
    BY DEF TypeOK, NetInv, ResInv
<1>4. StrayInv' /\ AckedMeansStored'
    BY DEF TypeOK, StrayInv, AckedMeansStored, Unacked, Blocks
<1> QED
    BY <1>1, <1>2, <1>3, <1>4

(* An attempt begins: the buffers are empty if there is a connection. *)
LEMMA TryKeeps == IInv /\ Try => IInv'
<1> SUFFICES ASSUME IInv, Try PROVE IInv'
    OBVIOUS
<1> USE DEF IInv
<1>1. i \in Blocks /\ i < N /\ pc = "try"
    BY DEF Try, TypeOK, LoopInv, Blocks
<1>2. up' \in Seq(Blocks)
  <2>1. Append(up, i) \in Seq(Blocks)
      BY <1>1 DEF TypeOK
  <2>2. up' = up \/ up' = Append(up, i)
      BY DEF Try
  <2> QED
      BY <2>1, <2>2 DEF TypeOK
<1>3. TypeOK'
  <2>1. ack' \in [Blocks -> Statuses]
      BY <1>1 DEF Try, TypeOK, Statuses
  <2>2. tx' \in [Blocks -> 0 .. RetryCount + 1]
      BY <1>1 DEF Try, TypeOK, TxInv
  <2> QED
      BY <1>2, <2>1, <2>2 DEF Try, TypeOK
<1>4. LoopInv' /\ TxInv'
    BY <1>1 DEF Try, TypeOK, LoopInv, TxInv, Blocks
<1>5. NetInv'
  <2>1. connected => up = <<>> /\ down = <<>>
      BY <1>1 DEF NetInv
  <2>2. connected /\ server => Append(up, i) = <<i>>
      BY <2>1, <1>1
  <2>3. CASE connected' /\ ~dry
    <3>1. pc' = "recv" /\ down' = down /\ up' \in {<<>>, <<i>>} /\ i' = i /\ connected
        BY <1>1, <2>1, <2>2, <2>3 DEF Try
    <3> QED
        BY <2>1, <2>3, <3>1 DEF NetInv, Try
  <2>4. CASE ~(connected' /\ ~dry)
      BY <1>1, <2>4 DEF Try, NetInv
  <2> QED
      BY <2>3, <2>4 DEF TypeOK
<1>6. ResInv'
    BY <1>1 DEF Try, ResInv, TypeOK
<1>7. StrayInv'
  <2> SUFFICES ASSUME ~dry PROVE StrayInv'
      BY DEF StrayInv, Try
  <2>1. UNCHANGED <<ack, saved, i, dry>>
      BY DEF Try
  <2>2. Unacked(i)
      BY <1>1 DEF StrayInv, Blocks
  <2>3. up' = up \/ up' = Append(up, i)
      BY DEF Try
  <2>4. \A k \in 1 .. Len(up') : up'[k] = i \/ (k \in 1 .. Len(up) /\ up'[k] = up[k])
      BY <2>3, <1>1 DEF TypeOK
  <2> QED
      BY <2>1, <2>2, <2>4 DEF StrayInv, Unacked
<1>8. AckedMeansStored'
    BY <1>1 DEF Try, AckedMeansStored, TypeOK
<1> QED
    BY <1>3, <1>4, <1>5, <1>6, <1>7, <1>8

(* The answer that is read is the only one there. *)
LEMMA ReceiveAckKeeps == IInv /\ ReceiveAck => IInv'
<1> SUFFICES ASSUME IInv, ReceiveAck PROVE IInv'
    OBVIOUS
<1> USE DEF IInv, ReceiveAck
<1>1. PICK ok \in BOOLEAN : /\ down = <<Answer(ok)>> /\ (ok => image[i] = "new")
                            /\ up = <<>>
    BY DEF NetInv
<1>2. down' = <<>> /\ res' = ok
    BY <1>1 DEF Answer
<1>3. TypeOK'
    BY <1>2 DEF TypeOK
<1>4. LoopInv' /\ TxInv'
    BY DEF TypeOK, LoopInv, TxInv
<1>5. NetInv' /\ ResInv'
    BY <1>1, <1>2 DEF TypeOK, NetInv, ResInv
<1>6. StrayInv' /\ AckedMeansStored'
    BY DEF StrayInv, AckedMeansStored, Unacked
<1> QED
    BY <1>3, <1>4, <1>5, <1>6

(* The connection is given up: what is still on its way stays unread. *)
LEMMA RecvFailsKeeps == IInv /\ RecvFails => IInv'
  BY DEF IInv, RecvFails, TypeOK, LoopInv, TxInv, NetInv, ResInv, StrayInv,
         AckedMeansStored, Unacked, netVars

(* The result is recorded. *)
LEMMA ResultKeeps == IInv /\ Result => IInv'
<1> SUFFICES ASSUME IInv, Result PROVE IInv'
    OBVIOUS
<1> USE DEF IInv, netVars
<1>1. i \in Blocks /\ i < N /\ pc = "result"
    BY DEF Result, TypeOK, LoopInv, Blocks
<1>2. ack' = [ack EXCEPT ![i] = IF res THEN "Acknowledged" ELSE "Failed"]
    BY DEF Result
<1>3. ack' \in [Blocks -> Statuses]
    BY <1>1, <1>2 DEF TypeOK, Statuses
<1>4. saved' = saved \/ saved' = ack'
    BY DEF Result
<1>5. (i' = i /\ ~res /\ saved' = saved) \/ i' = i + 1
    BY DEF Result
<1>6. TypeOK'
  <2>1. saved' \in [Blocks -> Statuses \cup {"none"}]
      BY <1>3, <1>4 DEF TypeOK
  <2>2. sent' \in 0 .. N
      BY <1>1 DEF Result, TypeOK, LoopInv
  <2>3. i' \in 0 .. N /\ retry' \in 0 .. RetryCount
      BY <1>1 DEF Result, TypeOK
  <2> QED
      BY <1>3, <2>1, <2>2, <2>3 DEF Result, TypeOK
<1>7. LoopInv' /\ TxInv'
  <2>1. LoopInv'
      BY <1>1 DEF Result, TypeOK, LoopInv
  <2>2. TxInv'
      BY <1>1 DEF Result, TypeOK, TxInv, Blocks
  <2> QED
      BY <2>1, <2>2
<1>8. NetInv' /\ ResInv'
    BY <1>1 DEF Result, TypeOK, NetInv, ResInv
<1>9. StrayInv' /\ AckedMeansStored'
  <2> SUFFICES ASSUME ~dry PROVE StrayInv' /\ AckedMeansStored'
      BY DEF Result, StrayInv, AckedMeansStored
  <2>1. \A b \in Blocks : b # i => ack'[b] = ack[b]
      BY <1>1, <1>2 DEF TypeOK
  <2>2. ack'[i] = IF res THEN "Acknowledged" ELSE "Failed"
      BY <1>1, <1>2 DEF TypeOK
  <2>3. ASSUME NEW b \in Blocks, Unacked(b), b # i \/ ~res
        PROVE  Unacked(b)'
      BY <1>4, <2>1, <2>2, <2>3 DEF Unacked
  <2>4. \A b \in Blocks : b >= i' => Unacked(b)'
    <3> SUFFICES ASSUME NEW b \in Blocks, b >= i' PROVE Unacked(b)'
        OBVIOUS
    <3>1. b >= i /\ (b # i \/ ~res)
        BY <1>1, <1>5 DEF Blocks
    <3> QED
        BY <2>3, <3>1 DEF StrayInv
  <2>5. \A k \in 1 .. Len(up') : Unacked(up[k])'
    <3>1. up' = up
        BY DEF Result
    <3>2. CASE res
      <4>1. up = <<>>
          BY <1>1, <3>2 DEF ResInv, NetInv
      <4> QED
          BY <3>1, <4>1
    <3>3. CASE ~res
        BY <2>3, <3>1, <3>3 DEF StrayInv, TypeOK
    <3> QED
        BY <3>2, <3>3 DEF TypeOK
  <2>6. AckedMeansStored'
    <3>1. image' = image /\ dry' = dry
        BY DEF Result
    <3>2. res => image[i] = "new"
        BY <1>1 DEF ResInv
    <3>3. ~res => Unacked(i)
        BY <1>1 DEF StrayInv, Blocks
    <3> QED
        BY <1>1, <1>4, <2>1, <2>2, <3>1, <3>2, <3>3 DEF AckedMeansStored, Unacked
  <2>7. up' = up /\ dry' = dry
      BY DEF Result
  <2> QED
      BY <2>4, <2>5, <2>6, <2>7 DEF StrayInv, Unacked
<1> QED
    BY <1>6, <1>7, <1>8, <1>9

(* The server stores or refuses the next block, which is unacknowledged. *)
LEMMA ServeKeeps == IInv /\ Serve => IInv'
<1> SUFFICES ASSUME IInv, Serve PROVE IInv'
    OBVIOUS
<1> DEFINE h == Head(up)
<1> USE DEF IInv
<1>1. h \in Blocks /\ up # <<>> /\ up' = Tail(up) /\ h = up[1] /\ 1 \in 1 .. Len(up)
    BY DEF Serve, TypeOK
<1>2. UNCHANGED <<dry, pc, i, retry, res, ack, saved, sent, connected, server, tx>>
    BY DEF Serve
<1>3. PICK ok \in BOOLEAN, c \in {"old", "new", "torn"} :
         /\ image' = [image EXCEPT ![h] = c]
         /\ down' = Append(down, [b |-> h, ok |-> ok])
         /\ ok => c = "new"
    BY <1>1 DEF Serve, TypeOK
<1>4. TypeOK'
  <2>1. up' \in Seq(Blocks)
      BY <1>1 DEF TypeOK
  <2>2. [b |-> h, ok |-> ok] \in [b : Blocks, ok : BOOLEAN]
      BY <1>1
  <2>3. down' \in Seq([b : Blocks, ok : BOOLEAN])
      BY <1>3, <2>2 DEF TypeOK
  <2>4. trouble' \in BOOLEAN
      BY DEF Serve, TypeOK
  <2> QED
      BY <1>1, <1>2, <1>3, <2>1, <2>3, <2>4 DEF TypeOK
<1>5. LoopInv' /\ TxInv'
    BY <1>2 DEF LoopInv, TxInv
<1>6. NetInv'
  <2>1. connected => pc = "recv"
      BY <1>1 DEF NetInv
  <2>2. CASE pc = "recv"
    <3>1. up = <<i>> /\ down = <<>>
        BY <1>1, <2>2 DEF NetInv
    <3>2. up' = <<>> /\ h = i
        BY <1>1, <3>1
    <3>3. down' = <<Answer(ok)>>
        BY <1>3, <3>1, <3>2 DEF Answer
    <3>4. i \in Blocks /\ (ok => image'[i] = "new")
        BY <1>1, <1>3, <3>2 DEF TypeOK
    <3>5. Answer(ok)' = Answer(ok)
        BY <1>2 DEF Answer
    <3> QED
        BY <1>2, <2>2, <3>2, <3>3, <3>4, <3>5 DEF NetInv
  <2>3. CASE pc # "recv"
      BY <1>2, <2>1, <2>3 DEF NetInv
  <2> QED
      BY <2>2, <2>3
<1>7. ResInv'
    BY <1>1, <1>2 DEF ResInv, NetInv
<1>8. StrayInv' /\ AckedMeansStored'
  <2>1. \A k \in 1 .. Len(up') : k + 1 \in 1 .. Len(up) /\ up'[k] = up[k + 1]
      BY <1>1 DEF TypeOK
  <2>2. StrayInv'
      BY <1>2, <2>1 DEF StrayInv, Unacked
  <2>3. ~dry => Unacked(h)
      BY <1>1 DEF StrayInv
  <2>4. \A b \in Blocks : b # h => image'[b] = image[b]
      BY <1>1, <1>3 DEF TypeOK
  <2> QED
      BY <1>2, <2>2, <2>3, <2>4 DEF AckedMeansStored, Unacked
<1> QED
    BY <1>4, <1>5, <1>6, <1>7, <1>8

(* A broken connection leaves a prefix of at most one answer. *)
LEMMA BreakKeeps == IInv /\ Break => IInv'
<1> SUFFICES ASSUME IInv, Break PROVE IInv'
    OBVIOUS
<1> USE DEF IInv
<1>1. UNCHANGED <<dry, pc, i, retry, res, ack, saved, sent, connected, image, tx>>
    BY DEF Break
<1>2. up' = <<>> /\ server' = FALSE /\ trouble' = TRUE
    BY DEF Break
<1>3. PICK m \in 0 .. Len(down) : down' = SubSeq(down, 1, m)
    BY DEF Break
<1>4. TypeOK'
  <2>1. down' \in Seq([b : Blocks, ok : BOOLEAN])
    <3> DEFINE A == [b : Blocks, ok : BOOLEAN]
    <3>1. down \in Seq(A)
        BY DEF TypeOK
    <3> HIDE DEF A
    <3>2. Len(down) \in Nat /\ \A k \in 1 .. Len(down) : down[k] \in A
        BY <3>1, LenProperties, ElementOfSeq
    <3>3. SubSeq(down, 1, m) \in Seq(A)
        BY <3>2, SubSeqProperties
    <3> QED
        BY <1>3, <3>3 DEF A
  <2>2. up' \in Seq(Blocks)
      BY <1>2
  <2> QED
      BY <1>1, <1>2, <2>1, <2>2 DEF TypeOK
<1>5. LoopInv' /\ TxInv' /\ ResInv'
    BY <1>1 DEF LoopInv, TxInv, ResInv
<1>6. NetInv'
  <2>1. down = <<>> => down' = <<>>
      BY <1>3
  <2>2. ASSUME NEW a, down = <<a>> PROVE down' \in {<<>>, <<a>>}
    <3>1. m \in {0, 1}
        BY <1>3, <2>2
    <3>2. SubSeq(<<a>>, 1, 0) = <<>> /\ SubSeq(<<a>>, 1, 1) = <<a>>
      <4>1. SubSeq(<<a>>, 1, 0) = <<>>
          BY SubSeqEmpty
      <4>2. <<a>> \in Seq({a}) /\ Len(<<a>>) = 1
          OBVIOUS
      <4>3. SubSeq(<<a>>, 1, 1) = <<a>>
          BY <4>2, SubSeqFull
      <4> QED
          BY <4>1, <4>3
    <3> QED
        BY <1>3, <2>2, <3>1, <3>2
  <2> QED
      BY <1>1, <1>2, <2>1, <2>2 DEF NetInv, Answer
<1>7. StrayInv' /\ AckedMeansStored'
    BY <1>1, <1>2 DEF StrayInv, AckedMeansStored, Unacked
<1> QED
    BY <1>4, <1>5, <1>6, <1>7

(* The inductive invariant holds throughout. *)
THEOREM Invariance == Spec => []IInv
<1>1. IInv /\ [Next]_vars => IInv'
  <2> SUFFICES ASSUME IInv, [Next]_vars PROVE IInv'
      OBVIOUS
  <2>1. CASE Next /\ ~UNCHANGED vars
      BY <2>1, BlockKeeps, TryKeeps, ReceiveAckKeeps, RecvFailsKeeps, ResultKeeps,
         ServeKeeps, BreakKeeps DEF Next, Client, Finished
  <2>2. CASE UNCHANGED vars
      BY <2>2 DEF vars, netVars, IInv, TypeOK, LoopInv, TxInv, NetInv, ResInv,
                  StrayInv, AckedMeansStored, Unacked, Answer
  <2> QED
      BY <2>1, <2>2
<1> QED
    BY InitIInv, <1>1, PTL DEF Spec

(* The transfer keeps its types; in particular a block is sent at most     *)
(* 1 + RetryCount times, and no more blocks are counted than there are.    *)
THEOREM TypeCorrect == Spec => []TypeOK
<1>1. IInv => TypeOK
    BY DEF IInv
<1> QED
    BY Invariance, <1>1, PTL

(* ReceiveAck only ever reads the answer to the block in hand, although it *)
(* does not compare the numbers.                                           *)
THEOREM AnswersAreOwn == Spec => []AnswerIsOwn
<1>1. IInv => AnswerIsOwn
    BY DEF IInv, NetInv, Answer, AnswerIsOwn
<1> QED
    BY Invariance, <1>1, PTL

(* A block recorded as acknowledged, in memory or in the state file, is    *)
(* whole in the image, whatever is retried, lost or delayed.               *)
THEOREM AckedBlocksAreStored == Spec => []AckedMeansStored
<1>1. IInv => AckedMeansStored
    BY DEF IInv
<1> QED
    BY Invariance, <1>1, PTL

-----------------------------------------------------------------------------
(* The number of acknowledged blocks, and a run without failures. *)

(* The finished blocks that were acknowledged are the ones counted; of the *)
(* others only the block in hand of a dry run, which SimulatedAck marks    *)
(* before it is counted, can be acknowledged.                              *)
Counted == {b \in Blocks : b < i /\ ack[b] = "Acknowledged"}
CountInv ==
    /\ sent = Cardinality(Counted)
    /\ \A b \in Blocks : b > i \/ (b = i /\ ~(dry /\ pc = "result")) => ack[b] # "Acknowledged"
    /\ dry /\ pc = "result" => res

(* As long as nothing has failed, every finished block is acknowledged and *)
(* no refusal is on its way.                                               *)
FlawlessInv ==
    /\ pc = "done" => i = N
    /\ ~trouble => /\ \A b \in Blocks : b < i => ack[b] = "Acknowledged"
                   /\ pc = "result" => res
                   /\ \A k \in 1 .. Len(down) : down[k].ok

(* The counted blocks are finitely many. *)
LEMMA CountedFinite == IsFiniteSet(Counted)
<1>1. IsFiniteSet(Blocks)
    BY FS_Interval DEF Blocks
<1> QED
    BY <1>1, FS_Subset DEF Counted

(* Every step keeps the count. *)
LEMMA CountKeeps == ASSUME IInv, CountInv, Next PROVE CountInv'
<1>0. /\ i \in 0 .. N /\ N \in Nat /\ ack \in [Blocks -> Statuses] /\ sent \in 0 .. N
      /\ \A b \in Blocks : b \in Int
    BY DEF IInv, TypeOK, Blocks
<1>1. CASE Block
  <2>1. UNCHANGED <<dry, res, ack, sent>> /\ pc = "block" /\ pc' # "result" /\ i' \in {i, i + 1}
      BY <1>1 DEF Block
  <2>2. \A b \in Blocks : b >= i => ack[b] # "Acknowledged"
      BY <1>0, <2>1 DEF CountInv
  <2>3. Counted' = Counted
      BY <1>0, <2>1, <2>2 DEF Counted
  <2>4. \A b \in Blocks : b >= i' => ack'[b] # "Acknowledged"
      BY <1>0, <2>1, <2>2
  <2> QED
      BY <1>0, <2>1, <2>3, <2>4 DEF CountInv
<1>2. CASE Try
  <2>1. UNCHANGED <<dry, i, sent>> /\ pc = "try" /\ i \in Blocks
      BY <1>2 DEF Try, IInv, LoopInv, TypeOK, Blocks
  <2>2. CASE dry
    <3>1. ack' = [ack EXCEPT ![i] = "Acknowledged"] /\ pc' = "result" /\ res' = TRUE
        BY <1>2, <2>2 DEF Try
    <3>2. \A b \in Blocks : b # i => ack'[b] = ack[b]
        BY <1>0, <3>1
    <3>3. Counted' = Counted
      <4>1. \A b \in Blocks : b < i => ack'[b] = ack[b]
          BY <1>0, <3>2
      <4> QED
          BY <2>1, <4>1 DEF Counted
    <3> QED
        BY <1>0, <2>1, <2>2, <3>1, <3>2, <3>3 DEF CountInv
  <2>3. CASE ~dry
    <3>1. ack' = ack
        BY <1>2, <2>3 DEF Try
    <3>2. Counted' = Counted
        BY <2>1, <3>1 DEF Counted
    <3> QED
        BY <2>1, <2>3, <3>1, <3>2 DEF CountInv
  <2> QED
      BY <2>2, <2>3
<1>3. CASE ReceiveAck \/ RecvFails
  <2>1. UNCHANGED <<dry, i, sent, ack>> /\ pc = "recv"
      BY <1>3 DEF ReceiveAck, RecvFails
  <2>2. ~dry
      BY <2>1 DEF IInv, NetInv
  <2>3. Counted' = Counted
      BY <2>1 DEF Counted
  <2> QED
      BY <2>1, <2>2, <2>3 DEF CountInv
<1>4. CASE Result
  <2>0. i \in Blocks
      BY <1>0, <1>4 DEF Result, IInv, LoopInv, Blocks
  <2>1. /\ pc = "result" /\ dry' = dry /\ pc' # "result"
        /\ sent' = IF res THEN sent + 1 ELSE sent
        /\ ack' = [ack EXCEPT ![i] = IF res THEN "Acknowledged" ELSE "Failed"]
        /\ i' = i + 1 \/ (i' = i /\ ~res)
      BY <1>4 DEF Result
  <2>2. /\ \A b \in Blocks : b # i => ack'[b] = ack[b]
        /\ ack'[i] = IF res THEN "Acknowledged" ELSE "Failed"
      BY <1>0, <2>0, <2>1
  <2>3. \A b \in Blocks : b >= i' => ack'[b] # "Acknowledged"
      BY <1>0, <2>1, <2>2 DEF CountInv
  <2>4. i \notin Counted
      BY <1>0 DEF Counted
  <2>5. CASE res
    <3>1. Counted' = Counted \cup {i}
      <4>1. i' = i + 1 /\ ack'[i] = "Acknowledged"
          BY <2>1, <2>2, <2>5
      <4>2. \A b \in Blocks : (b < i' <=> b < i \/ b = i) /\ ~(i < i)
          BY <1>0, <4>1
      <4>3. \A b \in Blocks : b < i' /\ ack'[b] = "Acknowledged"
                                <=> (b < i /\ ack[b] = "Acknowledged") \/ b = i
          BY <1>0, <2>2, <4>1, <4>2
      <4> QED
          BY <2>0, <4>3 DEF Counted
    <3>2. Cardinality(Counted') = Cardinality(Counted) + 1
        BY <2>4, <3>1, CountedFinite, FS_AddElement
    <3>3. sent' = Cardinality(Counted')
        BY <2>1, <2>5, <3>2 DEF CountInv
    <3> QED
        BY <1>0, <2>1, <2>3, <3>3 DEF CountInv
  <2>6. CASE ~res
    <3>1. Counted' = Counted
      <4>1. ack'[i] # "Acknowledged"
          BY <2>2, <2>6
      <4>2. \A b \in Blocks : b < i' /\ b # i <=> b < i
          BY <1>0, <2>1
      <4>3. \A b \in Blocks : b < i' /\ ack'[b] = "Acknowledged" <=> b < i /\ ack[b] = "Acknowledged"
          BY <1>0, <2>2, <4>1, <4>2
      <4> QED
          BY <4>3 DEF Counted
    <3> QED
        BY <1>0, <2>1, <2>3, <2>6, <3>1 DEF CountInv
  <2> QED
      BY <2>5, <2>6
<1>5. CASE Serve \/ Break \/ Finished
  <2>1. UNCHANGED <<dry, pc, i, res, sent, ack>>
      BY <1>5 DEF Serve, Break, Finished, vars
  <2>2. Counted' = Counted
      BY <2>1 DEF Counted
  <2> QED
      BY <2>1, <2>2 DEF CountInv
<1> QED
    BY <1>1, <1>2, <1>3, <1>4, <1>5 DEF Next, Client

(* Every step that does not fail keeps the run flawless. *)
LEMMA FlawlessKeeps == ASSUME IInv, FlawlessInv, Next PROVE FlawlessInv'
<1>0. /\ i \in 0 .. N /\ N \in Nat /\ ack \in [Blocks -> Statuses] /\ trouble \in BOOLEAN
      /\ down \in Seq([b : Blocks, ok : BOOLEAN]) /\ \A b \in Blocks : b \in Int
    BY DEF IInv, TypeOK, Blocks
<1>1. CASE Block
    BY <1>0, <1>1 DEF Block, FlawlessInv, netVars
<1>2. CASE Try
  <2>1. i' = i /\ down' = down /\ i \in Blocks /\ pc' # "done"
      BY <1>2 DEF Try, IInv, LoopInv, TypeOK, Blocks
  <2>2. \A b \in Blocks : b < i => ack'[b] = ack[b]
      BY <1>0, <1>2 DEF Try
  <2>3. ~trouble' => (pc' = "result" => res' = TRUE)
      BY <1>0, <1>2 DEF Try, IInv, TypeOK
  <2>4. trouble => trouble'
      BY <1>2 DEF Try
  <2> QED
      BY <1>0, <1>2, <2>1, <2>2, <2>3, <2>4 DEF Try, FlawlessInv
<1>3. CASE ReceiveAck
  <2>1. PICK ok \in BOOLEAN : down = <<Answer(ok)>>
      BY <1>3 DEF ReceiveAck, IInv, NetInv
  <2>2. res' = ok /\ down' = <<>> /\ down[1].ok = ok /\ 1 \in 1 .. Len(down)
      BY <1>3, <2>1 DEF ReceiveAck, Answer
  <2>3. UNCHANGED <<i, ack, trouble>> /\ pc' = "result"
      BY <1>3 DEF ReceiveAck
  <2> QED
      BY <2>2, <2>3 DEF FlawlessInv
<1>4. CASE RecvFails
    BY <1>4 DEF RecvFails, FlawlessInv
<1>5. CASE Result
  <2>1. /\ pc = "result" /\ i \in Blocks /\ pc' \notin {"done", "result"}
        /\ ack' = [ack EXCEPT ![i] = IF res THEN "Acknowledged" ELSE "Failed"]
        /\ i' = i + 1 \/ (i' = i /\ ~res)
      BY <1>5 DEF Result, IInv, LoopInv, TypeOK, Blocks, netVars
  <2>2. trouble' = trouble /\ down' = down
      BY <1>5 DEF Result, netVars
  <2>3. ~trouble => \A b \in Blocks : b < i' => ack'[b] = "Acknowledged"
      BY <1>0, <2>1 DEF FlawlessInv
  <2> QED
      BY <2>1, <2>2, <2>3 DEF FlawlessInv
<1>6. CASE Serve
  <2>1. UNCHANGED <<pc, i, ack, res>> /\ (trouble => trouble')
      BY <1>6 DEF Serve
  <2>2. ~trouble' => /\ Len(down') = Len(down) + 1
                     /\ \A k \in 1 .. Len(down) : down'[k] = down[k]
                     /\ down'[Len(down) + 1].ok
    <3> DEFINE a == [b |-> Head(up), ok |-> TRUE]
    <3>1. ~trouble' => down' = Append(down, a)
        BY <1>6 DEF Serve
    <3>2. a.ok = TRUE
        OBVIOUS
    <3> HIDE DEF a
    <3>3. /\ Len(Append(down, a)) = Len(down) + 1
          /\ \A k \in 1 .. Len(down) : Append(down, a)[k] = down[k]
          /\ Append(down, a)[Len(down) + 1] = a
        BY <1>0
    <3> QED
        BY <3>1, <3>2, <3>3
  <2>3. Len(down) \in Nat
      BY <1>0
  <2>4. \A k \in 1 .. Len(down) + 1 : k \in 1 .. Len(down) \/ k = Len(down) + 1
      BY <2>3
  <2> QED
      BY <2>1, <2>2, <2>4 DEF FlawlessInv
<1>7. CASE Break
    BY <1>7 DEF Break, FlawlessInv
<1>8. CASE Finished
    BY <1>8 DEF Finished, vars, FlawlessInv, netVars
<1> QED
    BY <1>1, <1>2, <1>3, <1>4, <1>5, <1>6, <1>7, <1>8 DEF Next, Client

(* The count and the flawless run, throughout. *)
THEOREM CountInvariance == Spec => [](IInv /\ CountInv /\ FlawlessInv)
<1>1. Init => CountInv /\ FlawlessInv
  <2> SUFFICES ASSUME Init PROVE CountInv /\ FlawlessInv
      OBVIOUS
  <2>1. Counted = {}
      BY DEF Init, Counted
  <2>2. Cardinality(Counted) = 0
      BY <2>1, FS_EmptySet
  <2> QED
      BY <2>2 DEF Init, CountInv, FlawlessInv, Blocks
<1>2. IInv /\ CountInv /\ FlawlessInv /\ [Next]_vars => CountInv' /\ FlawlessInv'
  <2>1. ASSUME IInv, CountInv, FlawlessInv, Next PROVE CountInv' /\ FlawlessInv'
      BY <2>1, CountKeeps, FlawlessKeeps
  <2>2. ASSUME CountInv, FlawlessInv, UNCHANGED vars PROVE CountInv' /\ FlawlessInv'
      BY <2>2 DEF vars, netVars, CountInv, FlawlessInv, Counted
  <2> QED
      BY <2>1, <2>2
<1> QED
    BY <1>1, <1>2, Invariance, PTL DEF Spec

(* The reported number of acknowledged blocks is, between two blocks, the  *)
(* number of blocks in that state, through all retries and for any number  *)
(* of blocks.                                                              *)
THEOREM CountIsExact == Spec => []SentCountExact
<1>1. IInv /\ CountInv => SentCountExact
  <2> SUFFICES ASSUME IInv, CountInv, pc = "block" PROVE sent = Cardinality({b \in Blocks : ack[b] = "Acknowledged"})
      BY DEF SentCountExact
  <2>1. i \in Int /\ \A b \in Blocks : b \in Int
      BY DEF IInv, TypeOK, Blocks
  <2>2. Counted = {b \in Blocks : ack[b] = "Acknowledged"}
      BY <2>1 DEF Counted, CountInv
  <2> QED
      BY <2>2 DEF CountInv
<1> QED
    BY <1>1, CountInvariance, PTL

(* A transfer in which nothing fails acknowledges every pending block. *)
THEOREM FlawlessRunIsComplete == Spec => []CleanRunComplete
<1>1. IInv /\ FlawlessInv => CleanRunComplete
    BY DEF IInv, TypeOK, FlawlessInv, CleanRunComplete, Blocks
<1> QED
    BY <1>1, CountInvariance, PTL
=============================================================================
