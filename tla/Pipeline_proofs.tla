--------------------------- MODULE Pipeline_proofs ---------------------------
(***************************************************************************)
(* The full backup for any number of blocks, any window and any saving     *)
(* interval: its types and all its safety properties.                      *)
(*                                                                         *)
(* IInv is the inductive invariant.  Its parts say, in this order: where   *)
(* the two threads can be; that the stream keeps the order of the blocks;  *)
(* which slots carry which block; that every block on its way still has    *)
(* its slot; what is known of a block before and after its answer; what    *)
(* the counters count; and what a run without trouble has got done.        *)
(***************************************************************************)
EXTENDS Pipeline, FiniteSetTheorems, SequenceTheorems, WellFoundedInduction, TLAPS

USE PipelineAssumption

-----------------------------------------------------------------------------
(* Facts about numbers, finite sets and sequences. *)

(* A set of natural numbers has a least element: the window search, which   *)
(* goes through the slots in order, finds one whenever there is one.        *)
LEMMA LeastElement ==
    ASSUME NEW S \in SUBSET Nat, S # {}
    PROVE  \E s \in S : \A t \in S : s <= t
<1> DEFINE Below == {0 .. s : s \in S}
<1>1. Below \subseteq FiniteSubsetsOf(Nat)
  <2> SUFFICES ASSUME NEW s \in S PROVE 0 .. s \in FiniteSubsetsOf(Nat)
      OBVIOUS
  <2>1. s \in Nat /\ IsFiniteSet(0 .. s) /\ 0 .. s \subseteq Nat
      BY FS_Interval
  <2> QED
      BY <2>1 DEF FiniteSubsetsOf
<1>2. Below # {}
    OBVIOUS
<1>3. PICK X \in Below : \A Y \in Below : <<Y, X>> \notin StrictSubsetOrdering(Nat)
  <2> HIDE DEF Below
  <2>1. IsWellFoundedOn(StrictSubsetOrdering(Nat), FiniteSubsetsOf(Nat))
      BY FS_StrictSubsetOrderingWellFounded
  <2> QED
      BY <1>1, <1>2, <2>1, WFMin
<1>4. PICK s \in S : X = 0 .. s
    OBVIOUS
<1>5. ASSUME NEW t \in S, t < s PROVE FALSE
  <2>1. 0 .. t \in Below /\ 0 .. t \subseteq 0 .. s /\ 0 .. t # 0 .. s
      BY <1>5
  <2>2. 0 .. t \in SUBSET Nat /\ 0 .. s \in SUBSET Nat
      OBVIOUS
  <2>3. <<0 .. t, 0 .. s>> \in StrictSubsetOrdering(Nat)
      BY <2>1, <2>2 DEF StrictSubsetOrdering
  <2> QED
      BY <1>3, <1>4, <2>1, <2>3
<1> QED
    BY <1>5

(* The least element of a set of slots, as the two searches of the window  *)
(* compute it.                                                             *)
LEMMA LowestFound ==
    ASSUME NEW S \in SUBSET Slots, S # {}
    PROVE  /\ Lowest(S) \in S /\ Pick(S) \in S
           /\ \A t \in S : Lowest(S) <= t /\ Pick(S) <= t
<1>1. \E s \in S : \A t \in S : s <= t
    BY LeastElement DEF Slots
<1> QED
    BY <1>1 DEF Lowest, Pick

(* The changes of a queue, told by its length and its elements: an element *)
(* comes in at the end, the first one leaves, the end is cut off.          *)
Appended(t, s, e) ==
    /\ Len(t) = Len(s) + 1 /\ t[Len(s) + 1] = e
    /\ \A k \in 1 .. Len(s) : t[k] = s[k]
Popped(t, s) ==
    /\ Len(s) > 0 /\ Len(t) = Len(s) - 1
    /\ \A k \in 1 .. Len(t) : t[k] = s[k + 1]
Truncated(t, s) ==
    /\ Len(t) <= Len(s)
    /\ \A k \in 1 .. Len(t) : t[k] = s[k]

(* Append, in these terms. *)
LEMMA AppendIsAppended ==
    ASSUME NEW S, NEW s \in Seq(S), NEW e \in S
    PROVE  Append(s, e) \in Seq(S) /\ Appended(Append(s, e), s, e)
  BY AppendProperties DEF Appended

(* Tail, and the element that leaves. *)
LEMMA TailIsPopped ==
    ASSUME NEW S, NEW s \in Seq(S), s # <<>>
    PROVE  Tail(s) \in Seq(S) /\ Popped(Tail(s), s) /\ Head(s) = s[1] /\ Head(s) \in S
<1>1. Len(s) \in Nat \ {0}
    BY EmptySeq
<1> QED
    BY <1>1, HeadTailProperties DEF Popped

(* A prefix. *)
LEMMA SubSeqIsTruncated ==
    ASSUME NEW S, NEW s \in Seq(S), NEW n \in 0 .. Len(s)
    PROVE  SubSeq(s, 1, n) \in Seq(S) /\ Truncated(SubSeq(s, 1, n), s)
<1>1. Len(s) \in Nat /\ \A k \in 1 .. n : s[k] \in S
    BY LenProperties
<1>2. n \in Int /\ 1 \in Int
    BY <1>1
<1>3. /\ SubSeq(s, 1, n) \in Seq(S)
      /\ Len(SubSeq(s, 1, n)) = IF 1 <= n THEN n - 1 + 1 ELSE 0
      /\ \A k \in 1 .. n - 1 + 1 : SubSeq(s, 1, n)[k] = s[1 + k - 1]
    BY <1>1, <1>2, SubSeqProperties
<1>4. Len(SubSeq(s, 1, n)) = n
    BY <1>1, <1>3
<1> QED
    BY <1>1, <1>3, <1>4 DEF Truncated

(* Subsets of the slots and of the blocks are finite. *)
LEMMA FiniteParts ==
    /\ \A S \in SUBSET Slots : IsFiniteSet(S) /\ Cardinality(S) \in 0 .. W
    /\ \A S \in SUBSET Blocks : IsFiniteSet(S) /\ Cardinality(S) \in 0 .. N
<1>1. IsFiniteSet(Slots) /\ Cardinality(Slots) = W
    BY FS_Interval DEF Slots
<1>2. IsFiniteSet(Blocks) /\ Cardinality(Blocks) = N
    BY FS_Interval DEF Blocks
<1>3. ASSUME NEW S \in SUBSET Slots PROVE IsFiniteSet(S) /\ Cardinality(S) \in 0 .. W
    BY <1>1, FS_Subset, FS_CardinalityType
<1>4. ASSUME NEW S \in SUBSET Blocks PROVE IsFiniteSet(S) /\ Cardinality(S) \in 0 .. N
    BY <1>2, FS_Subset, FS_CardinalityType
<1> QED
    BY <1>3, <1>4

-----------------------------------------------------------------------------
(* The inductive invariant. *)

Answers == [b : Blocks, ok : BOOLEAN]

(* TypeOK, without the bounds of the counters. *)
Kinds ==
    /\ dry \in BOOLEAN /\ pc \in MainSteps /\ i \in 0 .. N /\ cur \in Slots
    /\ ret \in BOOLEAN
    /\ inUse \in [Slots -> BOOLEAN] /\ idx \in [Slots -> Blocks]
    /\ inFlight \in Int /\ perr \in BOOLEAN
    /\ ack \in [Blocks -> Statuses]
    /\ saved \in [Blocks -> Statuses \cup {"none"}]
    /\ sent \in Nat /\ acked \in Nat /\ failed \in Nat /\ skipped \in Nat
    /\ apc \in AckSteps /\ running \in BOOLEAN
    /\ msg \in [b : 0 .. N, ok : BOOLEAN] /\ freed \in Slots
    /\ connected \in BOOLEAN /\ server \in BOOLEAN
    /\ image \in [Blocks -> {"old", "new", "torn"}]
    /\ trouble \in BOOLEAN
NetKinds == up \in Seq(Blocks) /\ down \in Seq(Answers)

(* The answer in the ACK thread's hands, until ReleaseSlot has looked for  *)
(* its slot; the blocks of which a message or an answer is in the network; *)
(* those that have no answer recorded, and those that have no slot freed.  *)
Handling == apc \in {"apply", "release"}
InNet(b) == \/ \E k \in 1 .. Len(down) : down[k].b = b
            \/ \E k \in 1 .. Len(up) : up[k] = b
Waiting(b) == InNet(b) \/ (apc = "apply" /\ msg.b = b)
OnWay(b) == InNet(b) \/ (Handling /\ msg.b = b)

Looping == {"dry", "acquire", "dozeA", "asleepA", "tag", "prepare", "send", "count",
            "trim"}
Ending == {"drain", "wait", "dozeW", "asleepW", "stop", "join", "close", "done"}

(* The block in hand has been given to SendBlockNoWait, as far as main's   *)
(* place tells.                                                            *)
Given == pc \in Ending \cup {"count", "trim", "crashed"}

(* Where the two threads can be at the same time, and what a dry run does  *)
(* not have.                                                               *)
ControlInv ==
    /\ pc \in Looping \cup {"crashed"} => i < N
    /\ pc = "dry" => dry
    /\ pc \in {"connect", "open"} => apc = "off" /\ i = 0
    /\ pc \in {"close", "done"} => apc \in {"off", "exit"}
    /\ pc = "crashed" <=> apc = "crashed"
    /\ Handling => msg.b \in Blocks
    /\ dry => /\ apc = "off" /\ ~connected /\ ~server /\ up = <<>> /\ down = <<>>
              /\ pc \notin Looping \ {"dry"}

(* The stream keeps the order of the blocks, each is in it once, and main  *)
(* has sent no block beyond the one in hand.                               *)
UpOrder == \A j, k \in 1 .. Len(up) : j < k => up[j] < up[k]
DownOrder == \A j, k \in 1 .. Len(down) : j < k => down[j].b < down[k].b
CrossOrder == \A j \in 1 .. Len(down), k \in 1 .. Len(up) : down[j].b < up[k]
HandOrder == Handling => /\ \A k \in 1 .. Len(up) : msg.b < up[k]
                         /\ \A k \in 1 .. Len(down) : msg.b < down[k].b
OrderInv == UpOrder /\ DownOrder /\ CrossOrder /\ HandOrder
SentInv == \A b \in Blocks : OnWay(b) => b < i \/ (b = i /\ Given)

(* The numbers in the slots: set once per block; 0 is also what the window *)
(* starts with, but block 0 itself is in slot 0.                           *)
SlotInv ==
    /\ \A s, t \in Slots : s # t /\ idx[s] = idx[t] => idx[s] = 0
    /\ \A s \in Slots : \/ idx[s] < i \/ idx[s] = 0
                        \/ /\ idx[s] = i
                           /\ pc \notin {"top", "acquire", "dozeA", "asleepA", "tag"}
    /\ pc \in {"prepare", "send"} => idx[cur] = i
    /\ i = 0 /\ pc \in {"tag", "prepare", "send"} => cur = 0
    /\ i = 0 /\ pc \in {"connect", "open", "top", "acquire", "dozeA", "asleepA"} =>
          \A s \in Slots : ~inUse[s]

(* Every block on its way has the slot it was sent from, except the last   *)
(* one if its send failed, which has lost the slot but left its number.    *)
Home(b, s) ==
    /\ idx[s] = b
    /\ b = 0 => s = 0
    /\ \/ inUse[s] /\ (pc \in {"tag", "prepare", "send"} => s # cur)
       \/ b = i /\ pc \in Ending
HomeInv == \A b \in Blocks : OnWay(b) => \E s \in Slots : Home(b, s)

(* What is not answered is pending; what is answered with success is       *)
(* stored.                                                                 *)
Unanswered(b) == b > i \/ (b = i /\ ~Given) \/ Waiting(b)
AnswerInv ==
    /\ \A b \in Blocks : Unanswered(b) => ack[b] = "Pending" /\ saved[b] # "Acknowledged"
    /\ \A b \in Blocks : saved[b] \in {"none", "Pending", ack[b]}
    /\ \A k \in 1 .. Len(down) : down[k].ok => image[down[k].b] = "new"
    /\ apc = "apply" /\ msg.ok => image[msg.b] = "new"

(* The counters are those of the block states, and no more than one answer *)
(* per block can still come.                                               *)
Acknowledged == {b \in Blocks : ack[b] = "Acknowledged"}
Refused == {b \in Blocks : ack[b] = "Failed"}
Load == acked + failed + skipped + Len(up) + Len(down) + (IF apc = "apply" THEN 1 ELSE 0)
Room == i + (IF pc \in {"count", "trim", "crashed"} \/ (pc \in Ending /\ i < N)
             THEN 1 ELSE 0)
StatInv ==
    /\ acked = Cardinality(Acknowledged)
    /\ failed = Cardinality(Refused)
    /\ Load <= Room
    /\ sent <= i + (IF pc \in {"trim", "crashed"} THEN 1 ELSE 0)

(* m_inFlightCount may be one ahead or one behind, also in a crash. *)
BoundInv == inFlight \in -1 .. W + 1

(* main goes to sleep in AcquireSlot with the mutex held and no slot free. *)
DozeInv == pc = "dozeA" => FreeSlots = {}

(* Without trouble every block so far is acknowledged or on its way, and   *)
(* main ends with a zero count.                                            *)
CleanFlags ==
    /\ ~perr /\ failed = 0 /\ skipped = 0
    /\ ~dry /\ pc # "connect" => server
CleanAnswers ==
    /\ \A k \in 1 .. Len(down) : down[k].ok
    /\ apc = "apply" => msg.ok
CleanCounts ==
    /\ pc # "crashed" => sent = i + (IF pc = "trim" THEN 1 ELSE 0)
    /\ pc \in Ending => i = N
    /\ pc \in {"stop", "join", "close", "done"} => inFlight = 0
CleanVerdict == pc = "done" => ret /\ saved = ack
CleanBlocks ==
    \A b \in Blocks : b < i \/ (b = i /\ pc \in {"count", "trim"}) =>
        ack[b] = "Acknowledged" \/ Waiting(b)
CleanInv ==
    ~trouble => CleanFlags /\ CleanAnswers /\ CleanCounts /\ CleanVerdict /\ CleanBlocks

IInv ==
    /\ Kinds /\ NetKinds /\ ControlInv
    /\ OrderInv /\ SentInv /\ SlotInv /\ SlotNotStolen /\ HomeInv
    /\ InFlightExact /\ BoundInv /\ DozeInv /\ SlotWakeup
    /\ AnswerInv /\ AckedMeansStored /\ StatInv /\ CleanInv

-----------------------------------------------------------------------------
(* What the steps do to the network. *)

(* Elements of the queues. *)
LEMMA NetFacts ==
    ASSUME NetKinds
    PROVE  /\ Len(up) \in Nat /\ Len(down) \in Nat
           /\ \A k \in 1 .. Len(up) : up[k] \in Blocks
           /\ \A k \in 1 .. Len(down) : down[k] \in Answers
           /\ \A k \in 1 .. Len(down) : down[k].b \in Blocks /\ down[k].ok \in BOOLEAN
           /\ \A b \in Blocks : b \in Nat /\ b < N
<1>1. Len(up) \in Nat /\ \A k \in 1 .. Len(up) : up[k] \in Blocks
    BY LenProperties, ElementOfSeq DEF NetKinds
<1>2. Len(down) \in Nat /\ \A k \in 1 .. Len(down) : down[k] \in Answers
    BY LenProperties, ElementOfSeq DEF NetKinds
<1>3. \A r \in Answers : r.b \in Blocks /\ r.ok \in BOOLEAN
    BY DEF Answers
<1> QED
    BY <1>1, <1>2, <1>3 DEF Blocks

(* SendBlockNoWait puts the block in hand at the end of the stream, or not. *)
LEMMA SendNet ==
    ASSUME IInv, Send
    PROVE  NetKinds' /\ down' = down /\ (up' = up \/ Appended(up', up, i))
<1>1. i \in Blocks /\ up \in Seq(Blocks)
    BY DEF IInv, Kinds, ControlInv, Looping, Send, Blocks, NetKinds
<1>2. up' = up \/ up' = Append(up, i)
    BY DEF Send
<1>3. down' = down
    BY DEF Send
<1> QED
    BY <1>1, <1>2, <1>3, AppendIsAppended DEF IInv, NetKinds

(* Receive takes the first answer, if it takes one. *)
LEMMA ReceiveNet ==
    ASSUME IInv, Receive
    PROVE  /\ NetKinds' /\ up' = up
           /\ \/ /\ apc' = "apply" /\ Popped(down', down)
                 /\ msg' = down[1] /\ msg' \in Answers
                 /\ UNCHANGED <<perr, connected>>
              \/ apc' \in {"poll", "lost"} /\ UNCHANGED <<down, msg>>
<1>1. CASE down # <<>> /\ msg' = Head(down) /\ down' = Tail(down) /\ apc' = "apply"
    BY <1>1, TailIsPopped DEF IInv, NetKinds, Receive
<1>2. CASE apc' \in {"poll", "lost"} /\ UNCHANGED <<down, msg>>
    BY <1>2 DEF IInv, NetKinds, Receive
<1> QED
    BY <1>1, <1>2 DEF Receive

(* The server takes the first message and answers it. *)
LEMMA ServeNet ==
    ASSUME IInv, Serve
    PROVE  /\ NetKinds' /\ Popped(up', up) /\ up[1] \in Blocks
           /\ \E ok \in BOOLEAN :
                 /\ Appended(down', down, [b |-> up[1], ok |-> ok])
                 /\ ok => image' = [image EXCEPT ![up[1]] = "new"] /\ UNCHANGED trouble
                 /\ ~ok => /\ \E c \in {"old", "torn"} : image' = [image EXCEPT ![up[1]] = c]
                           /\ trouble' = TRUE
<1>1. up' \in Seq(Blocks) /\ Popped(up', up) /\ Head(up) = up[1] /\ up[1] \in Blocks
    BY TailIsPopped DEF IInv, NetKinds, Serve
<1>2. PICK ok \in BOOLEAN :
         /\ down' = Append(down, [b |-> up[1], ok |-> ok])
         /\ ok => image' = [image EXCEPT ![up[1]] = "new"] /\ UNCHANGED trouble
         /\ ~ok => /\ \E c \in {"old", "torn"} : image' = [image EXCEPT ![up[1]] = c]
                   /\ trouble' = TRUE
    BY <1>1 DEF Serve
<1>3. [b |-> up[1], ok |-> ok] \in Answers
    BY <1>1 DEF Answers
<1>4. down' \in Seq(Answers) /\ Appended(down', down, [b |-> up[1], ok |-> ok])
    BY <1>2, <1>3, AppendIsAppended DEF IInv, NetKinds
<1> QED
    BY <1>1, <1>2, <1>4 DEF NetKinds

(* A broken connection loses the messages and the last answers. *)
LEMMA BreakNet ==
    ASSUME IInv, Break
    PROVE  NetKinds' /\ Len(up') = 0 /\ Truncated(down', down)
<1>1. up' = <<>> /\ up' \in Seq(Blocks) /\ Len(up') = 0
    BY EmptySeq DEF Break
<1>2. PICK n \in 0 .. Len(down) : down' = SubSeq(down, 1, n)
    BY DEF Break
<1> QED
    BY <1>1, <1>2, SubSeqIsTruncated DEF IInv, NetKinds

(* The queues stay queues. *)
LEMMA NetKindsKeeps == IInv /\ [Next]_vars => NetKinds'
<1> SUFFICES ASSUME IInv, [Next]_vars PROVE NetKinds'
    OBVIOUS
<1>1. CASE UNCHANGED <<up, down>>
    BY <1>1 DEF IInv, NetKinds
<1>2. CASE Send \/ Receive \/ Serve \/ Break
    BY <1>2, SendNet, ReceiveNet, ServeNet, BreakNet
<1> QED
    BY <1>1, <1>2 DEF Next, Main, AckThread, Connect, Open, LoopTop, DryBlock, Acquire,
       Doze, AcquireTimeout, Tag, Prepare, Count, Trim, Drain, WaitForAllAcks, WaitTimeout,
       Stop, Join, Close, Poll, Apply, Release, Clear, Decrement, Notify, Crash, Finished,
       vars, netVars

(* What a notification does, said without CASE. *)
LEMMA NotifyEffect ==
    ASSUME Notify
    PROVE  /\ apc \in {"notify", "lost"} /\ apc' \in {"poll", "exit"}
           /\ pc = "asleepA" => pc' = "acquire"
           /\ pc = "asleepW" => pc' = "wait"
           /\ pc \notin {"asleepA", "asleepW"} => pc' = pc
           /\ msg' = NoMsg
           /\ UNCHANGED <<dry, i, cur, ret, inUse, idx, inFlight, perr, ack, saved,
                          sent, acked, failed, skipped, freed, running, connected,
                          server, up, down, image, trouble>>
<1>1. /\ apc \in {"notify", "lost"} /\ apc' \in {"poll", "exit"} /\ msg' = NoMsg
      /\ UNCHANGED <<dry, i, cur, ret, inUse, idx, inFlight, perr, ack, saved,
                     sent, acked, failed, skipped, freed, running, connected,
                     server, up, down, image, trouble>>
    BY DEF Notify, statVars, netVars
<1>2. pc' = CASE pc = "asleepA" -> "acquire"
              [] pc = "asleepW" -> "wait"
              [] OTHER          -> pc
    BY DEF Notify
<1>3. /\ pc = "asleepA" => pc' = "acquire"
      /\ pc = "asleepW" => pc' = "wait"
      /\ pc \notin {"asleepA", "asleepW"} => pc' = pc
    BY <1>2, Zenon
<1> QED
    BY <1>1, <1>3

(* What AcquireSlot does: it goes on with the first free slot, gives up or *)
(* goes to sleep.                                                          *)
LEMMA AcquireEffect ==
    ASSUME IInv, Acquire \/ AcquireTimeout
    PROVE  /\ pc \in {"acquire", "asleepA"} /\ apc # "clear"
           /\ \/ /\ pc' = "tag" /\ ~perr /\ cur' \in Slots /\ ~inUse[cur']
                 /\ \A s \in Slots : ~inUse[s] => cur' <= s
                 /\ inUse' = [inUse EXCEPT ![cur'] = TRUE]
                 /\ trouble' = trouble
              \/ /\ pc' = "drain" /\ UNCHANGED <<inUse, cur>>
                 /\ (perr \/ trouble') /\ (trouble => trouble')
              \/ pc' = "dozeA" /\ UNCHANGED <<inUse, cur, trouble>> /\ FreeSlots = {}
           /\ trouble' \in BOOLEAN
           /\ UNCHANGED <<dry, i, ret, idx, inFlight, perr, ack, saved, sent, acked, failed,
                          skipped, apc, msg, freed, running, connected, server, up, down,
                          image>>
<1> USE DEF IInv, Kinds
<1>1. FreeSlots # {} => /\ Lowest(FreeSlots) \in Slots /\ ~inUse[Lowest(FreeSlots)]
                        /\ \A s \in Slots : ~inUse[s] => Lowest(FreeSlots) <= s
    BY LowestFound DEF FreeSlots
<1>2. CASE SlotReady /\ perr
    BY <1>2 DEF Acquire, AcquireTimeout, TakeSlot, AckHoldsMutex, statVars, ackVars, netVars
<1>3. CASE SlotReady /\ ~perr
  <2>1. FreeSlots # {} /\ TakeSlot /\ pc \in {"acquire", "asleepA"} /\ trouble' = trouble
      BY <1>3 DEF SlotReady, Acquire, AcquireTimeout
  <2>2. pc' = "tag" /\ cur' = Lowest(FreeSlots) /\ inUse' = [inUse EXCEPT ![cur'] = TRUE]
      BY <1>3, <2>1 DEF TakeSlot
  <2> QED
      BY <1>1, <1>3, <2>1, <2>2 DEF Acquire, AcquireTimeout, AckHoldsMutex, statVars,
         ackVars, netVars
<1>4. CASE ~SlotReady
  <2>1. FreeSlots = {}
      BY <1>4 DEF SlotReady
  <2> QED
      BY <1>4, <2>1 DEF Acquire, AcquireTimeout, AckHoldsMutex, statVars, ackVars, netVars
<1> QED
    BY <1>2, <1>3, <1>4

(* What ReleaseSlot does: it frees the first slot in use that carries the  *)
(* block's number, if there is one.                                        *)
LEMMA ReleaseEffect ==
    ASSUME IInv, Release
    PROVE  /\ apc = "release" /\ pc \notin {"dozeA", "dozeW"}
           /\ \/ /\ apc' = "notify" /\ UNCHANGED <<inUse, freed>>
                 /\ \A s \in Slots : ~(inUse[s] /\ idx[s] = msg.b)
              \/ /\ apc' = "clear" /\ freed' \in Slots
                 /\ inUse[freed'] /\ idx[freed'] = msg.b
                 /\ \A s \in Slots : inUse[s] /\ idx[s] = msg.b => freed' <= s
                 /\ inUse' = [inUse EXCEPT ![freed'] = FALSE]
           /\ UNCHANGED <<dry, pc, i, cur, ret, idx, inFlight, perr, ack, saved, sent,
                          acked, failed, skipped, msg, running, connected, server, up,
                          down, image, trouble>>
<1>1. SlotsOf(msg.b) # {} =>
         /\ Pick(SlotsOf(msg.b)) \in Slots
         /\ inUse[Pick(SlotsOf(msg.b))] /\ idx[Pick(SlotsOf(msg.b))] = msg.b
         /\ \A s \in Slots : inUse[s] /\ idx[s] = msg.b => Pick(SlotsOf(msg.b)) <= s
    BY LowestFound DEF SlotsOf
<1>2. CASE SlotsOf(msg.b) = {}
    BY <1>2 DEF Release, SlotsOf, MutexFree, MainHoldsMutex, mainVars, statVars, netVars
<1>3. CASE SlotsOf(msg.b) # {}
    BY <1>1, <1>3 DEF Release, MutexFree, MainHoldsMutex, mainVars, statVars, netVars
<1> QED
    BY <1>2, <1>3

-----------------------------------------------------------------------------
(* Types and control. *)

(* The backup has just begun. *)
LEMMA InitIInv == Init => IInv
<1> SUFFICES ASSUME Init PROVE IInv
    OBVIOUS
<1> USE DEF Init
<1>1. Kinds /\ NetKinds
  <2>1. msg \in [b : 0 .. N, ok : BOOLEAN] /\ 0 \in Slots /\ 0 \in Blocks
      BY DEF NoMsg, Slots, Blocks
  <2>2. NetKinds
      BY EmptySeq DEF NetKinds
  <2>3. /\ inUse \in [Slots -> BOOLEAN] /\ idx \in [Slots -> Blocks]
        /\ ack \in [Blocks -> Statuses] /\ saved \in [Blocks -> Statuses \cup {"none"}]
        /\ image \in [Blocks -> {"old", "new", "torn"}]
      BY <2>1 DEF Statuses
  <2>4. pc \in MainSteps /\ apc \in AckSteps
      BY DEF MainSteps, AckSteps
  <2> QED
      BY <2>1, <2>2, <2>3, <2>4 DEF Kinds
<1>2. Len(up) = 0 /\ Len(down) = 0
    BY EmptySeq
<1>3. ControlInv /\ OrderInv /\ SentInv /\ HomeInv
    BY <1>2 DEF ControlInv, OrderInv, UpOrder, DownOrder, CrossOrder, HandOrder, SentInv,
       HomeInv, OnWay, InNet, Handling, Looping
<1>4. SlotInv /\ SlotNotStolen /\ DozeInv /\ SlotWakeup
    BY DEF SlotInv, SlotNotStolen, DozeInv, SlotWakeup
<1>5. InFlightExact /\ BoundInv
  <2>1. {s \in Slots : inUse[s]} = {}
      OBVIOUS
  <2>2. Cardinality({s \in Slots : inUse[s]}) = 0
      BY <2>1, FS_EmptySet
  <2> HIDE DEF Init
  <2>3. pc = "connect" /\ apc = "off" /\ inFlight = 0
      BY DEF Init
  <2> QED
      BY <2>2, <2>3 DEF InFlightExact, BoundInv, Filling
<1>6. AnswerInv /\ AckedMeansStored
    BY <1>2 DEF AnswerInv, AckedMeansStored
<1>7. StatInv
  <2>1. Acknowledged = {} /\ Refused = {}
      BY DEF Acknowledged, Refused
  <2> QED
      BY <1>2, <2>1, FS_EmptySet DEF StatInv, Load, Room, Ending
<1>8. CleanInv
    BY <1>2 DEF CleanInv, CleanFlags, CleanAnswers, CleanCounts, CleanVerdict, CleanBlocks,
       Ending, Blocks
<1> QED
    BY <1>1, <1>3, <1>4, <1>5, <1>6, <1>7, <1>8 DEF IInv

(* The block in hand is one of the disk's wherever it is used. *)
LEMMA InHand == ASSUME IInv, pc \in Looping PROVE i \in Blocks /\ i + 1 \in 0 .. N
  BY DEF IInv, Kinds, ControlInv, Blocks

(* Every step keeps the types. *)
LEMMA KindsKeeps == IInv /\ [Next]_vars => Kinds'
<1> SUFFICES ASSUME IInv, [Next]_vars PROVE Kinds'
    OBVIOUS
<1> USE DEF mainVars, statVars, ackVars, netVars
<1>0. Kinds
    BY DEF IInv
<1>1. CASE Connect \/ Open \/ Stop \/ Join \/ Close
  <2>1. pc' \in MainSteps /\ apc' \in AckSteps
      BY <1>0, <1>1 DEF Kinds, Connect, Open, Stop, Join, Close, MainSteps, AckSteps
  <2>3. ret' \in BOOLEAN /\ connected' \in BOOLEAN /\ server' \in BOOLEAN
      BY <1>0, <1>1 DEF Kinds, Connect, Open, Stop, Join, Close
  <2>4. running' \in BOOLEAN /\ trouble' \in BOOLEAN
      BY <1>0, <1>1 DEF Kinds, Connect, Open, Stop, Join, Close
  <2>2. saved' \in [Blocks -> Statuses \cup {"none"}]
      BY <1>0, <1>1 DEF Kinds, Connect, Open, Stop, Join, Close
  <2> QED
      BY <1>0, <1>1, <2>1, <2>2, <2>3, <2>4 DEF Kinds, Connect, Open, Stop, Join, Close
<1>2. CASE LoopTop \/ Doze \/ Drain \/ WaitForAllAcks \/ WaitTimeout
    BY <1>0, <1>2 DEF Kinds, LoopTop, Doze, Drain, WaitForAllAcks, WaitTimeout, MainSteps
<1>3. CASE DryBlock
  <2>1. i \in Blocks /\ i + 1 \in 0 .. N
      BY <1>3, InHand DEF DryBlock, Looping
  <2>2. ack' \in [Blocks -> Statuses]
      BY <1>0, <1>3, <2>1 DEF Kinds, DryBlock, Statuses
  <2>3. saved' \in [Blocks -> Statuses \cup {"none"}]
      BY <1>0, <1>3, <2>2 DEF Kinds, DryBlock, SaveOnProgress
  <2>4. /\ acked' \in Nat /\ sent' \in Nat /\ skipped' \in Nat
        /\ i' \in 0 .. N /\ pc' \in MainSteps
      BY <1>0, <1>3, <2>1 DEF Kinds, DryBlock, MainSteps
  <2>5. trouble' \in BOOLEAN
      BY <1>0, <1>3 DEF Kinds, DryBlock
  <2> QED
      BY <1>0, <1>3, <2>2, <2>3, <2>4, <2>5 DEF Kinds, DryBlock
<1>4. CASE Acquire \/ AcquireTimeout
  <2>1. inUse' \in [Slots -> BOOLEAN] /\ cur' \in Slots
      BY <1>0, <1>4, AcquireEffect DEF Kinds
  <2> QED
      BY <1>0, <1>4, <2>1, AcquireEffect DEF Kinds, MainSteps
<1>5. CASE Tag
  <2>1. idx' \in [Slots -> Blocks]
      BY <1>0, <1>5, InHand DEF Kinds, Tag, Looping
  <2> QED
      BY <1>0, <1>5, <2>1 DEF Kinds, Tag, MainSteps
<1>6. CASE Prepare
  <2>1. i + 1 \in 0 .. N
      BY <1>6, InHand DEF Prepare, Looping
  <2>2. i' \in 0 .. N /\ skipped' \in Nat /\ pc' \in MainSteps
      BY <1>0, <1>6, <2>1 DEF Kinds, Prepare, MainSteps
  <2>3. inUse' \in [Slots -> BOOLEAN] /\ trouble' \in BOOLEAN
      BY <1>0, <1>6 DEF Kinds, Prepare
  <2> QED
      BY <1>0, <1>6, <2>2, <2>3 DEF Kinds, Prepare
<1>7. CASE Send
    BY <1>0, <1>7 DEF Kinds, Send, MainSteps
<1>8. CASE Count
    BY <1>0, <1>8 DEF Kinds, Count, MainSteps
<1>9. CASE Trim
  <2>1. i + 1 \in 0 .. N
      BY <1>9, InHand DEF Trim, Looping
  <2>2. saved' \in [Blocks -> Statuses \cup {"none"}]
      BY <1>0, <1>9 DEF Kinds, Trim, SaveOnProgress
  <2> QED
      BY <1>0, <1>9, <2>1, <2>2 DEF Kinds, Trim, MainSteps
<1>10. CASE Poll \/ Clear \/ Decrement \/ Crash
    BY <1>0, <1>10 DEF Kinds, Poll, Clear, Decrement, Crash, AckSteps, MainSteps
<1>11. CASE Receive
  <2>1. msg' \in [b : 0 .. N, ok : BOOLEAN]
      BY <1>0, <1>11, ReceiveNet DEF Kinds, Answers, Blocks
  <2> QED
      BY <1>0, <1>11, <2>1 DEF Kinds, Receive, AckSteps
<1>12. CASE Apply
  <2>1. ack' \in [Blocks -> Statuses]
      BY <1>0, <1>12 DEF Kinds, Apply, Statuses
  <2>2. acked' \in Nat /\ failed' \in Nat
      BY <1>0, <1>12 DEF Kinds, Apply
  <2> QED
      BY <1>0, <1>12, <2>1, <2>2 DEF Kinds, Apply, AckSteps
<1>13. CASE Release
  <2>1. inUse' \in [Slots -> BOOLEAN] /\ freed' \in Slots /\ apc' \in AckSteps
      BY <1>0, <1>13, ReleaseEffect DEF Kinds, AckSteps
  <2> QED
      BY <1>0, <1>13, <2>1, ReleaseEffect DEF Kinds
<1>14. CASE Notify
  <2>1. NoMsg \in [b : 0 .. N, ok : BOOLEAN]
      BY DEF NoMsg
  <2> QED
      BY <1>0, <1>14, <2>1, NotifyEffect DEF Kinds, AckSteps, MainSteps
<1>15. CASE Serve
  <2>1. \E c \in {"old", "new", "torn"} : image' = [image EXCEPT ![up[1]] = c]
      BY <1>15, ServeNet
  <2>2. image' \in [Blocks -> {"old", "new", "torn"}]
      BY <1>0, <2>1 DEF Kinds
  <2>3. trouble' \in BOOLEAN
      BY <1>0, <1>15 DEF Kinds, Serve
  <2> QED
      BY <1>0, <1>15, <2>2, <2>3 DEF Kinds, Serve
<1>16. CASE Break
    BY <1>0, <1>16 DEF Kinds, Break
<1>17. CASE UNCHANGED vars
    BY <1>0, <1>17 DEF Kinds, vars
<1> QED
    BY <1>1, <1>2, <1>3, <1>4, <1>5, <1>6, <1>7, <1>8, <1>9, <1>10, <1>11, <1>12, <1>13,
       <1>14, <1>15, <1>16, <1>17 DEF Next, Main, AckThread, Finished

(* Every step keeps the threads where they can be together. *)
LEMMA ControlKeeps == IInv /\ [Next]_vars => ControlInv'
<1> SUFFICES ASSUME IInv, [Next]_vars PROVE ControlInv'
    OBVIOUS
<1> USE DEF mainVars, statVars, ackVars, netVars, ControlInv, Handling, Looping
<1>0. /\ ControlInv /\ i \in 0 .. N /\ dry \in BOOLEAN /\ pc \in MainSteps
      /\ apc \in AckSteps /\ connected \in BOOLEAN /\ server \in BOOLEAN
    BY DEF IInv, Kinds
<1>1. CASE Connect \/ Open \/ Stop \/ Join \/ Close
    BY <1>0, <1>1 DEF Connect, Open, Stop, Join, Close
<1>2. CASE LoopTop \/ Doze \/ Drain \/ WaitForAllAcks \/ WaitTimeout
    BY <1>0, <1>2 DEF LoopTop, Doze, Drain, WaitForAllAcks, WaitTimeout
<1>3. CASE DryBlock
    BY <1>0, <1>3 DEF DryBlock
<1>4. CASE Acquire \/ AcquireTimeout
    BY <1>0, <1>4, AcquireEffect
<1>5. CASE Tag \/ Prepare \/ Count \/ Trim
    BY <1>0, <1>5 DEF Tag, Prepare, Count, Trim
<1>6. CASE Send
  <2>1. ~dry
      BY <1>0, <1>6 DEF Send
  <2> QED
      BY <1>0, <1>6, <2>1 DEF Send
<1>7. CASE Poll \/ Clear \/ Decrement \/ Crash \/ Apply
    BY <1>0, <1>7 DEF Poll, Clear, Decrement, Crash, Racing, Apply, AckSteps
<1>8. CASE Receive
  <2>1. ~dry /\ pc \notin {"connect", "open", "close", "done"} /\ pc' = pc /\ i' = i
      BY <1>0, <1>8 DEF Receive
  <2>2. apc' # "crashed" /\ pc # "crashed" /\ dry' = dry
      BY <1>0, <1>8 DEF Receive
  <2>3. apc' = "apply" => msg'.b \in Blocks
      BY <1>8, ReceiveNet DEF Answers
  <2>4. apc' # "release"
      BY <1>8 DEF Receive
  <2> QED
      BY <1>0, <2>1, <2>2, <2>3, <2>4
<1>9. CASE Release
    BY <1>0, <1>9, ReleaseEffect
<1>10. CASE Notify
    BY <1>0, <1>10, NotifyEffect
<1>11. CASE Serve \/ Break
    BY <1>0, <1>11 DEF Serve, Break
<1>12. CASE UNCHANGED vars
    BY <1>0, <1>12 DEF vars
<1> QED
    BY <1>1, <1>2, <1>3, <1>4, <1>5, <1>6, <1>7, <1>8, <1>9, <1>10, <1>11, <1>12
    DEF Next, Main, AckThread, Finished

-----------------------------------------------------------------------------
(* The stream. *)

(* main goes through the blocks in order, and does not take a block back. *)
LEMMA Progress ==
    ASSUME IInv, [Next]_vars
    PROVE  (i' = i /\ (Given => Given')) \/ i' = i + 1
<1> USE DEF mainVars, statVars, ackVars, netVars, Given, Ending
<1>1. CASE UNCHANGED <<i, pc>>
    BY <1>1
<1>2. CASE Connect \/ Open \/ Stop \/ Join \/ Close
    BY <1>2 DEF Connect, Open, Stop, Join, Close
<1>3. CASE LoopTop \/ Doze \/ Drain \/ WaitForAllAcks \/ WaitTimeout
    BY <1>3 DEF LoopTop, Doze, Drain, WaitForAllAcks, WaitTimeout
<1>4. CASE Acquire \/ AcquireTimeout
    BY <1>4, AcquireEffect
<1>5. CASE DryBlock \/ Tag \/ Prepare \/ Send \/ Count \/ Trim
    BY <1>5 DEF DryBlock, Tag, Prepare, Send, Count, Trim
<1>6. CASE Notify
    BY <1>6, NotifyEffect
<1>7. CASE Crash
    BY <1>7 DEF Crash
<1> QED
    BY <1>1, <1>2, <1>3, <1>4, <1>5, <1>6, <1>7 DEF Next, Main, AckThread, Finished, Poll,
       Receive, Apply, Release, Clear, Decrement, Serve, Break, vars

(* The steps that leave the network and the ACK thread's answer alone. *)
NetQuiet ==
    /\ UNCHANGED <<up, down>>
    /\ Handling' => Handling /\ UNCHANGED msg
    /\ apc' = "apply" => apc = "apply"

(* The other steps are these four. *)
LEMMA QuietOrNot ==
    ASSUME IInv, [Next]_vars
    PROVE  NetQuiet \/ Send \/ Receive \/ Serve \/ Break
<1> USE DEF mainVars, statVars, ackVars, netVars, NetQuiet, Handling
<1>1. CASE UNCHANGED <<up, down, apc, msg>>
    BY <1>1
<1>2. CASE Open
    BY <1>2 DEF Open
<1>3. CASE Poll \/ Apply \/ Clear \/ Decrement \/ Crash
    BY <1>3 DEF Poll, Apply, Clear, Decrement, Crash
<1>4. CASE Release
    BY <1>4, ReleaseEffect
<1>5. CASE Notify
    BY <1>5, NotifyEffect
<1>6. CASE Acquire \/ AcquireTimeout
    BY <1>6, AcquireEffect
<1> QED
    BY <1>1, <1>2, <1>3, <1>4, <1>5, <1>6 DEF Next, Main, AckThread, Finished, Connect,
       LoopTop, DryBlock, Doze, Tag, Prepare, Count, Trim, Drain, WaitForAllAcks,
       WaitTimeout, Stop, Join, Close, vars

(* Only Send puts a block on its way, and it is the block in hand. *)
LEMMA OnWayStep ==
    ASSUME IInv, [Next]_vars, NEW b \in Blocks, OnWay(b)'
    PROVE  OnWay(b) \/ (Send /\ b = i /\ InNet(b)')
<1>0. /\ Len(up) \in Nat /\ Len(down) \in Nat
      /\ \A k \in 1 .. Len(down) : down[k].b \in Blocks
    BY NetFacts DEF IInv
<1>1. CASE NetQuiet
    BY <1>1 DEF NetQuiet, OnWay, InNet
<1>2. CASE Send
  <2>1. down' = down /\ apc' = apc /\ msg' = msg
      BY <1>2 DEF Send, ackVars
  <2>2. up' = up \/ Appended(up', up, i)
      BY <1>2, SendNet
  <2> QED
      BY <1>0, <1>2, <2>1, <2>2 DEF OnWay, InNet, Appended, Handling
<1>3. CASE Receive
  <2>1. up' = up
      BY <1>3, ReceiveNet
  <2>2. CASE apc' = "apply" /\ Popped(down', down) /\ msg' = down[1]
      BY <1>0, <2>1, <2>2 DEF OnWay, InNet, Popped, Handling
  <2>3. CASE apc' \in {"poll", "lost"} /\ UNCHANGED <<down, msg>>
      BY <2>1, <2>3 DEF OnWay, InNet, Handling
  <2> QED
      BY <1>3, <2>2, <2>3, ReceiveNet
<1>4. CASE Serve
  <2>1. apc' = apc /\ msg' = msg
      BY <1>4 DEF Serve, ackVars
  <2>2. Popped(up', up) /\ \E ok \in BOOLEAN : Appended(down', down, [b |-> up[1], ok |-> ok])
      BY <1>4, ServeNet
  <2> QED
      BY <1>0, <2>1, <2>2 DEF OnWay, InNet, Popped, Appended, Handling
<1>5. CASE Break
  <2>1. apc' = apc /\ msg' = msg
      BY <1>5 DEF Break, ackVars
  <2>2. Len(up') = 0 /\ Truncated(down', down)
      BY <1>5, BreakNet
  <2>3. Len(down') \in Nat
      BY <1>5, BreakNet, LenProperties DEF NetKinds
  <2> QED
      BY <1>0, <2>1, <2>2, <2>3 DEF OnWay, InNet, Truncated, Handling
<1> QED
    BY <1>1, <1>2, <1>3, <1>4, <1>5, QuietOrNot

(* The same of the blocks that wait for their answer. *)
LEMMA WaitingStep ==
    ASSUME IInv, [Next]_vars, NEW b \in Blocks, Waiting(b)'
    PROVE  Waiting(b) \/ (Send /\ b = i /\ InNet(b)')
<1>0. /\ Len(up) \in Nat /\ Len(down) \in Nat
      /\ \A k \in 1 .. Len(down) : down[k].b \in Blocks
    BY NetFacts DEF IInv
<1>1. CASE NetQuiet
    BY <1>1 DEF NetQuiet, Waiting, InNet, Handling
<1>2. CASE Send
  <2>1. down' = down /\ apc' = apc /\ msg' = msg
      BY <1>2 DEF Send, ackVars
  <2>2. up' = up \/ Appended(up', up, i)
      BY <1>2, SendNet
  <2> QED
      BY <1>0, <1>2, <2>1, <2>2 DEF Waiting, InNet, Appended
<1>3. CASE Receive
  <2>1. up' = up
      BY <1>3, ReceiveNet
  <2>2. CASE apc' = "apply" /\ Popped(down', down) /\ msg' = down[1]
      BY <1>0, <2>1, <2>2 DEF Waiting, InNet, Popped
  <2>3. CASE apc' \in {"poll", "lost"} /\ UNCHANGED <<down, msg>>
      BY <2>1, <2>3 DEF Waiting, InNet
  <2> QED
      BY <1>3, <2>2, <2>3, ReceiveNet
<1>4. CASE Serve
  <2>1. apc' = apc /\ msg' = msg
      BY <1>4 DEF Serve, ackVars
  <2>2. Popped(up', up) /\ \E ok \in BOOLEAN : Appended(down', down, [b |-> up[1], ok |-> ok])
      BY <1>4, ServeNet
  <2> QED
      BY <1>0, <2>1, <2>2 DEF Waiting, InNet, Popped, Appended
<1>5. CASE Break
  <2>1. apc' = apc /\ msg' = msg
      BY <1>5 DEF Break, ackVars
  <2>2. Len(up') = 0 /\ Truncated(down', down)
      BY <1>5, BreakNet
  <2>3. Len(down') \in Nat
      BY <1>5, BreakNet, LenProperties DEF NetKinds
  <2> QED
      BY <1>0, <2>1, <2>2, <2>3 DEF Waiting, InNet, Truncated
<1> QED
    BY <1>1, <1>2, <1>3, <1>4, <1>5, QuietOrNot

(* Every step keeps the order of the stream. *)
LEMMA OrderKeeps == IInv /\ [Next]_vars => OrderInv'
<1> SUFFICES ASSUME IInv, [Next]_vars PROVE OrderInv'
    OBVIOUS
<1>0. /\ Len(up) \in Nat /\ Len(down) \in Nat
      /\ \A k \in 1 .. Len(up) : up[k] \in Blocks
      /\ \A k \in 1 .. Len(down) : down[k].b \in Blocks
      /\ \A b \in Blocks : b \in Nat
      /\ OrderInv /\ i \in Nat
    BY NetFacts DEF IInv, Kinds
<1>1. CASE NetQuiet
    BY <1>0, <1>1 DEF NetQuiet, OrderInv, UpOrder, DownOrder, CrossOrder, HandOrder
<1>2. CASE Send
  <2>1. down' = down /\ apc' = apc /\ msg' = msg
      BY <1>2 DEF Send, ackVars
  <2>2. \A b \in Blocks : OnWay(b) => b < i
      BY <1>2 DEF Send, IInv, SentInv, Given, Ending
  <2>3. /\ \A k \in 1 .. Len(up) : up[k] < i
        /\ \A k \in 1 .. Len(down) : down[k].b < i
      BY <1>0, <2>2 DEF OnWay, InNet
  <2>4. Handling => msg.b < i
      BY <2>2 DEF OnWay, IInv, ControlInv
  <2>5. CASE up' = up
      BY <1>0, <2>1, <2>5 DEF OrderInv, UpOrder, DownOrder, CrossOrder, HandOrder, Handling
  <2>6. CASE Appended(up', up, i)
    <3>1. \A k \in 1 .. Len(up') : \/ k \in 1 .. Len(up) /\ up'[k] = up[k]
                                   \/ k = Len(up) + 1 /\ up'[k] = i
        BY <1>0, <2>6 DEF Appended
    <3>2. UpOrder'
        BY <1>0, <2>3, <3>1 DEF OrderInv, UpOrder
    <3>3. DownOrder'
        BY <1>0, <2>1 DEF OrderInv, DownOrder
    <3>4. CrossOrder'
        BY <1>0, <2>1, <2>3, <3>1 DEF OrderInv, CrossOrder
    <3>5. HandOrder'
        BY <1>0, <2>1, <2>4, <3>1 DEF OrderInv, HandOrder, Handling
    <3> QED
        BY <3>2, <3>3, <3>4, <3>5 DEF OrderInv
  <2> QED
      BY <1>2, <2>5, <2>6, SendNet
<1>3. CASE Receive
  <2>1. up' = up
      BY <1>3, ReceiveNet
  <2>2. CASE apc' = "apply" /\ Popped(down', down) /\ msg' = down[1]
    <3>1. /\ 1 \in 1 .. Len(down)
          /\ \A k \in 1 .. Len(down') : k + 1 \in 1 .. Len(down) /\ down'[k] = down[k + 1]
        BY <1>0, <2>2 DEF Popped
    <3>2. Len(down') \in Int
        BY <1>0, <2>2 DEF Popped
    <3>3. UpOrder'
        BY <1>0, <2>1 DEF OrderInv, UpOrder
    <3>4. DownOrder'
        BY <1>0, <3>1, <3>2 DEF OrderInv, DownOrder
    <3>5. CrossOrder'
        BY <1>0, <2>1, <3>1, <3>2 DEF OrderInv, CrossOrder
    <3>6. HandOrder'
        BY <1>0, <2>1, <2>2, <3>1, <3>2 DEF OrderInv, HandOrder, DownOrder, CrossOrder
    <3> QED
        BY <3>3, <3>4, <3>5, <3>6 DEF OrderInv
  <2>3. CASE apc' \in {"poll", "lost"} /\ UNCHANGED <<down, msg>>
      BY <1>0, <2>1, <2>3 DEF OrderInv, UpOrder, DownOrder, CrossOrder, HandOrder, Handling
  <2> QED
      BY <1>3, <2>2, <2>3, ReceiveNet
<1>4. CASE Serve
  <2>1. apc' = apc /\ msg' = msg
      BY <1>4 DEF Serve, ackVars
  <2>2. Popped(up', up) /\ \E ok \in BOOLEAN : Appended(down', down, [b |-> up[1], ok |-> ok])
      BY <1>4, ServeNet
  <2>3. /\ 1 \in 1 .. Len(up) /\ Len(up') \in Int
        /\ \A k \in 1 .. Len(up') : k + 1 \in 1 .. Len(up) /\ up'[k] = up[k + 1]
      BY <1>0, <2>2 DEF Popped
  <2>4. \A k \in 1 .. Len(down') : \/ k \in 1 .. Len(down) /\ down'[k] = down[k]
                                   \/ k = Len(down) + 1 /\ down'[k].b = up[1]
      BY <1>0, <2>2 DEF Appended
  <2>5. UpOrder'
      BY <1>0, <2>3 DEF OrderInv, UpOrder
  <2>6. DownOrder'
      BY <1>0, <2>3, <2>4 DEF OrderInv, DownOrder, CrossOrder
  <2>7. CrossOrder'
    <3> SUFFICES ASSUME NEW j \in 1 .. Len(down'), NEW k \in 1 .. Len(up')
                 PROVE  down'[j].b < up'[k]
        BY DEF CrossOrder
    <3>1. k + 1 \in 1 .. Len(up) /\ up'[k] = up[k + 1] /\ up[1] < up[k + 1]
        BY <1>0, <2>3 DEF OrderInv, UpOrder
    <3>2. CASE j \in 1 .. Len(down) /\ down'[j] = down[j]
        BY <1>0, <3>1, <3>2 DEF OrderInv, CrossOrder
    <3>3. CASE down'[j].b = up[1]
        BY <3>1, <3>3
    <3> QED
        BY <2>4, <3>2, <3>3
  <2>8. HandOrder'
      BY <1>0, <2>1, <2>3, <2>4 DEF OrderInv, HandOrder, Handling
  <2> QED
      BY <2>5, <2>6, <2>7, <2>8 DEF OrderInv
<1>5. CASE Break
  <2>1. apc' = apc /\ msg' = msg
      BY <1>5 DEF Break, ackVars
  <2>2. Len(up') = 0 /\ Truncated(down', down)
      BY <1>5, BreakNet
  <2>3. Len(down') \in Nat
      BY <1>5, BreakNet, LenProperties DEF NetKinds
  <2>4. \A k \in 1 .. Len(down') : k \in 1 .. Len(down) /\ down'[k] = down[k]
      BY <1>0, <2>2, <2>3 DEF Truncated
  <2>5. UpOrder' /\ CrossOrder'
      BY <2>2 DEF UpOrder, CrossOrder
  <2>6. DownOrder'
      BY <1>0, <2>3, <2>4 DEF OrderInv, DownOrder
  <2>7. HandOrder'
      BY <1>0, <2>1, <2>2, <2>4 DEF OrderInv, HandOrder, Handling
  <2> QED
      BY <2>5, <2>6, <2>7 DEF OrderInv
<1> QED
    BY <1>1, <1>2, <1>3, <1>4, <1>5, QuietOrNot

(* Every step keeps the stream behind the block in hand. *)
LEMMA SentKeeps == IInv /\ [Next]_vars => SentInv'
<1> SUFFICES ASSUME IInv, [Next]_vars, NEW b \in Blocks, OnWay(b)'
             PROVE  b < i' \/ (b = i' /\ Given')
    BY DEF SentInv
<1>0. b \in Nat /\ i \in Nat
    BY DEF IInv, Kinds, Blocks
<1>1. CASE OnWay(b)
  <2>1. b < i \/ (b = i /\ Given)
      BY <1>1 DEF IInv, SentInv
  <2> QED
      BY <1>0, <2>1, Progress
<1>2. CASE Send /\ b = i
  <2>1. i' = i /\ Given'
      BY <1>2 DEF Send, Given, Ending
  <2> QED
      BY <1>2, <2>1
<1> QED
    BY <1>1, <1>2, OnWayStep

-----------------------------------------------------------------------------
(* The window. *)

(* Nothing but Tag writes a slot's number, and nothing but AcquireSlot      *)
(* changes main's slot.                                                     *)
LEMMA WindowStep ==
    ASSUME IInv, [Next]_vars
    PROVE  /\ idx' = idx \/ Tag
           /\ cur' = cur \/ Acquire \/ AcquireTimeout
           /\ inUse' = inUse \/ Acquire \/ AcquireTimeout \/ Prepare \/ Send \/ Release
<1> USE DEF mainVars, statVars, ackVars, netVars
<1>1. CASE UNCHANGED <<idx, cur, inUse>>
    BY <1>1
<1>2. CASE Acquire \/ AcquireTimeout
    BY <1>2, AcquireEffect
<1>3. CASE Tag \/ Prepare \/ Send
    BY <1>3 DEF Tag, Prepare, Send
<1>4. CASE Release
    BY <1>4, ReleaseEffect
<1>5. CASE Notify
    BY <1>5, NotifyEffect
<1> QED
    BY <1>1, <1>2, <1>3, <1>4, <1>5 DEF Next, Main, AckThread, Finished, Connect, Open,
       LoopTop, DryBlock, Doze, Count, Trim, Drain, WaitForAllAcks, WaitTimeout, Stop, Join,
       Close, Poll, Receive, Apply, Clear, Decrement, Crash, Serve, Break, vars

(* The places of main between the choice of a block and the tagging of its  *)
(* slot; the places where it owns a slot nobody may take away.              *)
Choosing == {"top", "acquire", "dozeA", "asleepA", "tag"}
Owning == {"tag", "prepare", "send"}

(* How main comes to these places. *)
LEMMA PlaceStep ==
    ASSUME IInv, [Next]_vars
    PROVE  /\ pc' \in Choosing => i' = i + 1 \/ (i' = i /\ (pc \in Choosing \/ i = 0))
           /\ pc' \in Owning => \/ pc \in Owning /\ i' = i /\ cur' = cur
                                \/ Acquire \/ AcquireTimeout
           /\ pc' \in {"prepare", "send"} => pc \in {"prepare", "send"} \/ Tag
           /\ pc' \in {"connect", "open", "top", "acquire", "dozeA", "asleepA"} =>
                 \/ i' = i + 1
                 \/ /\ pc \in {"connect", "open", "top", "acquire", "dozeA", "asleepA"}
                    /\ inUse' = inUse \/ Release
           /\ pc \in Ending => pc' \in Ending /\ i' = i
<1> USE DEF mainVars, statVars, ackVars, netVars, Choosing, Owning, Ending
<1>1. CASE UNCHANGED <<i, pc, cur, inUse>>
    BY <1>1
<1>2. CASE Connect \/ Open \/ Stop \/ Join \/ Close
    BY <1>2 DEF Connect, Open, Stop, Join, Close, IInv, ControlInv
<1>3. CASE LoopTop \/ Doze \/ Drain \/ WaitForAllAcks \/ WaitTimeout
    BY <1>3 DEF LoopTop, Doze, Drain, WaitForAllAcks, WaitTimeout
<1>4. CASE Acquire \/ AcquireTimeout
    BY <1>4, AcquireEffect
<1>5. CASE DryBlock \/ Tag \/ Prepare \/ Send \/ Count \/ Trim
    BY <1>5 DEF DryBlock, Tag, Prepare, Send, Count, Trim
<1>6. CASE Notify
    BY <1>6, NotifyEffect
<1>7. CASE Release
    BY <1>7, ReleaseEffect
<1>8. CASE Crash
    BY <1>8 DEF Crash, Racing
<1> QED
    BY <1>1, <1>2, <1>3, <1>4, <1>5, <1>6, <1>7, <1>8 DEF Next, Main, AckThread, Finished,
       Poll, Receive, Apply, Clear, Decrement, Serve, Break, vars

(* Every step keeps the numbers in the slots. *)
LEMMA SlotKeeps == IInv /\ [Next]_vars => SlotInv'
<1> SUFFICES ASSUME IInv, [Next]_vars PROVE SlotInv'
    OBVIOUS
<1>0. /\ SlotInv /\ i \in 0 .. N /\ cur \in Slots /\ idx \in [Slots -> Blocks]
      /\ i' \in 0 .. N /\ cur' \in Slots /\ idx' \in [Slots -> Blocks]
      /\ inUse \in [Slots -> BOOLEAN]
      /\ 0 \in Slots /\ \A s \in Slots : s \in Nat
      /\ \A b \in Blocks : b \in Nat
  <2>1. Kinds /\ Kinds' /\ SlotInv
      BY KindsKeeps DEF IInv
  <2>2. 0 \in Slots /\ (\A s \in Slots : s \in Nat) /\ \A b \in Blocks : b \in Nat
      BY DEF Slots, Blocks
  <2> QED
      BY <2>1, <2>2 DEF Kinds
<1>1. \A s, t \in Slots : s # t /\ idx'[s] = idx'[t] => idx'[s] = 0
  <2>1. CASE idx' = idx
      BY <1>0, <2>1 DEF SlotInv
  <2>2. CASE Tag
    <3>1. pc = "tag" /\ idx' = [idx EXCEPT ![cur] = i]
        BY <2>2 DEF Tag
    <3>2. \A s \in Slots : idx[s] < i \/ idx[s] = 0
        BY <1>0, <3>1 DEF SlotInv
    <3> QED
        BY <1>0, <3>1, <3>2 DEF SlotInv
  <2> QED
      BY <2>1, <2>2, WindowStep
<1>2. \A s \in Slots : idx'[s] < i' \/ idx'[s] = 0 \/ (idx'[s] = i' /\ pc' \notin Choosing)
  <2>1. CASE Tag
      BY <1>0, <2>1 DEF Tag, SlotInv, Choosing
  <2>2. CASE ~Tag
    <3>1. idx' = idx
        BY <2>2, WindowStep
    <3>2. ASSUME NEW s \in Slots
          PROVE  idx[s] < i' \/ idx[s] = 0 \/ (idx[s] = i' /\ pc' \notin Choosing)
      <4>1. idx[s] < i \/ idx[s] = 0 \/ (idx[s] = i /\ pc \notin Choosing)
          BY <1>0 DEF SlotInv, Choosing
      <4> QED
          BY <1>0, <4>1, PlaceStep, Progress
    <3> QED
        BY <3>1, <3>2
  <2> QED
      BY <2>1, <2>2
<1>3. pc' \in {"prepare", "send"} => idx'[cur'] = i'
  <2> SUFFICES ASSUME pc' \in {"prepare", "send"} PROVE idx'[cur'] = i'
      OBVIOUS
  <2>1. CASE Tag
      BY <1>0, <2>1 DEF Tag
  <2>2. CASE pc \in {"prepare", "send"} /\ ~Tag
    <3>1. ~Acquire /\ ~AcquireTimeout
        BY <2>2, AcquireEffect
    <3>2. i' = i /\ cur' = cur
        BY <2>2, <3>1, PlaceStep DEF Owning
    <3> QED
        BY <1>0, <2>2, <3>2, WindowStep DEF SlotInv
  <2> QED
      BY <2>1, <2>2, PlaceStep
<1>4. i' = 0 /\ pc' \in Owning => cur' = 0
  <2> SUFFICES ASSUME i' = 0, pc' \in Owning PROVE cur' = 0
      OBVIOUS
  <2>1. CASE pc \in Owning /\ i' = i /\ cur' = cur
      BY <1>0, <2>1 DEF SlotInv, Owning
  <2>2. CASE Acquire \/ AcquireTimeout
    <3>1. i = 0 /\ pc \in {"acquire", "asleepA"} /\ pc' = "tag"
        BY <2>2, AcquireEffect DEF Owning
    <3>2. ~inUse[0]
        BY <1>0, <3>1 DEF SlotInv
    <3>3. cur' <= 0
        BY <1>0, <2>2, <3>1, <3>2, AcquireEffect
    <3> QED
        BY <1>0, <3>3
  <2> QED
      BY <2>1, <2>2, PlaceStep
<1>5. i' = 0 /\ pc' \in {"connect", "open", "top", "acquire", "dozeA", "asleepA"} =>
          \A s \in Slots : ~inUse'[s]
  <2> SUFFICES ASSUME i' = 0,
                      pc' \in {"connect", "open", "top", "acquire", "dozeA", "asleepA"},
                      NEW s \in Slots
               PROVE  ~inUse'[s]
      OBVIOUS
  <2>1. i' = i /\ i' # i + 1
      BY <1>0, Progress
  <2>2. pc \in {"connect", "open", "top", "acquire", "dozeA", "asleepA"}
      BY <2>1, PlaceStep
  <2>3. ~inUse[s]
      BY <1>0, <2>1, <2>2 DEF SlotInv
  <2>4. CASE inUse' = inUse
      BY <2>3, <2>4
  <2>5. CASE Release
      BY <1>0, <2>3, <2>5, ReleaseEffect
  <2> QED
      BY <2>1, <2>4, <2>5, PlaceStep
<1> QED
    BY <1>1, <1>2, <1>3, <1>4, <1>5 DEF SlotInv, Choosing, Owning

(* Of the slots that carry the number of the block in the ACK thread's     *)
(* hands, ReleaseSlot frees the one the block was sent from.               *)
LEMMA ReleaseHome ==
    ASSUME IInv, Release, apc' = "clear", NEW s \in Slots, Home(msg.b, s), inUse[s]
    PROVE  freed' = s
<1>1. /\ freed' \in Slots /\ inUse[freed'] /\ idx[freed'] = msg.b /\ freed' <= s
      /\ idx[s] = msg.b /\ (msg.b = 0 => s = 0)
    BY ReleaseEffect DEF Home
<1>2. CASE msg.b = 0
    BY <1>1, <1>2 DEF Slots
<1>3. CASE msg.b # 0
    BY <1>1, <1>3 DEF IInv, SlotInv
<1> QED
    BY <1>2, <1>3

(* Every step keeps main's slot, and the slots of the blocks on their way. *)
LEMMA NotStolenKeeps == IInv /\ [Next]_vars => SlotNotStolen'
<1> SUFFICES ASSUME IInv, [Next]_vars, pc' \in Owning PROVE inUse'[cur']
    BY DEF SlotNotStolen, Owning
<1>0. cur \in Slots /\ inUse \in [Slots -> BOOLEAN] /\ HomeInv /\ SlotNotStolen
    BY DEF IInv, Kinds
<1>1. CASE Acquire \/ AcquireTimeout
    BY <1>0, <1>1, AcquireEffect DEF Owning
<1>2. CASE ~(Acquire \/ AcquireTimeout)
  <2>1. pc \in Owning /\ i' = i /\ cur' = cur
      BY <1>2, PlaceStep
  <2>2. inUse[cur]
      BY <1>0, <2>1 DEF SlotNotStolen, Owning
  <2>3. CASE Prepare \/ Send
      BY <2>2, <2>3 DEF Prepare, Send, Owning
  <2>4. CASE Release
    <3>1. CASE apc' = "clear"
      <4>1. apc = "release" /\ msg.b \in Blocks /\ OnWay(msg.b)
          BY <2>4, ReleaseEffect DEF IInv, ControlInv, Handling, OnWay
      <4>2. PICK s \in Slots : Home(msg.b, s)
          BY <1>0, <4>1 DEF HomeInv
      <4>3. inUse[s] /\ s # cur
          BY <2>1, <4>2 DEF Home, Owning, Ending
      <4>4. freed' = s
          BY <2>4, <3>1, <4>2, <4>3, ReleaseHome
      <4> QED
          BY <1>0, <2>1, <2>2, <2>4, <3>1, <4>3, <4>4, ReleaseEffect
    <3>2. CASE apc' # "clear"
        BY <2>1, <2>2, <2>4, <3>2, ReleaseEffect
    <3> QED
        BY <3>1, <3>2
  <2> QED
      BY <1>2, <2>1, <2>2, <2>3, <2>4, WindowStep
<1> QED
    BY <1>1, <1>2

(* A block on its way keeps its slot. *)
LEMMA HomeStep ==
    ASSUME IInv, [Next]_vars, NEW b \in Blocks, OnWay(b), OnWay(b)', NEW s \in Slots, Home(b, s)
    PROVE  Home(b, s)'
<1>0. cur \in Slots /\ inUse \in [Slots -> BOOLEAN] /\ idx \in [Slots -> Blocks] /\ i \in 0 .. N
    BY DEF IInv, Kinds
<1>1. idx[s] = b /\ (b = 0 => s = 0)
    BY DEF Home
<1>2. CASE b = i /\ pc \in Ending
  <2>1. b = i' /\ pc' \in Ending
      BY <1>2, PlaceStep
  <2>2. ~Tag
      BY <1>2 DEF Tag, Ending
  <2> QED
      BY <1>1, <2>1, <2>2, WindowStep DEF Home
<1>3. CASE inUse[s] /\ (pc \in Owning => s # cur)
  <2>1. idx'[s] = b
    <3>1. CASE Tag
        BY <1>0, <1>1, <1>3, <3>1 DEF Tag, Owning
    <3> QED
        BY <1>1, <3>1, WindowStep
  <2>2. pc' \in Owning => s # cur'
    <3> SUFFICES ASSUME pc' \in Owning PROVE s # cur'
        OBVIOUS
    <3>1. CASE Acquire \/ AcquireTimeout
        BY <1>3, <3>1, AcquireEffect DEF Owning
    <3> QED
        BY <1>3, <3>1, PlaceStep
  <2>3. inUse'[s]
    <3>1. CASE Acquire \/ AcquireTimeout
        BY <1>0, <1>3, <3>1, AcquireEffect
    <3>2. CASE Prepare \/ Send
        BY <1>0, <1>3, <3>2 DEF Prepare, Send, Owning
    <3>3. CASE Release
      <4>1. Handling /\ ~Handling' /\ up' = up /\ down' = down /\ apc = "release"
          BY <3>3, ReleaseEffect DEF Handling
      <4>2. InNet(b)
          BY <4>1 DEF OnWay, InNet
      <4>3. msg.b # b
        <5>1. /\ \A k \in 1 .. Len(up) : up[k] \in Nat
              /\ \A k \in 1 .. Len(down) : down[k].b \in Nat
            BY NetFacts DEF IInv
        <5>2. HandOrder
            BY DEF IInv, OrderInv
        <5>3. b \in Nat
            BY DEF Blocks
        <5> QED
            BY <4>1, <4>2, <5>1, <5>2, <5>3 DEF InNet, HandOrder
      <4> QED
          BY <1>0, <1>1, <1>3, <3>3, <4>3, ReleaseEffect
    <3> QED
        BY <1>3, <3>1, <3>2, <3>3, WindowStep
  <2> QED
      BY <1>1, <2>1, <2>2, <2>3 DEF Home, Owning
<1> QED
    BY <1>2, <1>3 DEF Home, Owning

(* Every step keeps the slots of the blocks on their way; a block that is  *)
(* sent has main's slot.                                                   *)
LEMMA HomeKeeps == IInv /\ [Next]_vars => HomeInv'
<1> SUFFICES ASSUME IInv, [Next]_vars, NEW b \in Blocks, OnWay(b)'
             PROVE  \E s \in Slots : Home(b, s)'
    BY DEF HomeInv
<1>1. CASE OnWay(b)
  <2>1. PICK s \in Slots : Home(b, s)
      BY <1>1 DEF IInv, HomeInv
  <2>2. Home(b, s)'
      BY <1>1, <2>1, HomeStep
  <2> QED
      BY <2>2
<1>2. CASE Send /\ b = i
  <2>1. pc = "send" /\ i' = i /\ cur' = cur /\ idx' = idx
      BY <1>2 DEF Send
  <2>2. cur \in Slots /\ inUse[cur] /\ idx[cur] = i /\ (i = 0 => cur = 0)
      BY <2>1 DEF IInv, Kinds, SlotInv, SlotNotStolen
  <2>3. (pc' = "count" /\ inUse' = inUse) \/ pc' = "drain"
      BY <1>2 DEF Send
  <2>4. Home(b, cur)'
      BY <1>2, <2>1, <2>2, <2>3 DEF Home, Ending
  <2> QED
      BY <2>1, <2>2, <2>4 DEF Home
<1> QED
    BY <1>1, <1>2, OnWayStep

(* The slots in use. *)
Used == {s \in Slots : inUse[s]}

(* Their number, when one is taken or freed. *)
LEMMA UsedCount ==
    ASSUME IInv, NEW s \in Slots
    PROVE  /\ Cardinality(Used) \in Nat
           /\ ~inUse[s] /\ inUse' = [inUse EXCEPT ![s] = TRUE] =>
                 Cardinality(Used') = Cardinality(Used) + 1
           /\ inUse[s] /\ inUse' = [inUse EXCEPT ![s] = FALSE] =>
                 Cardinality(Used') = Cardinality(Used) - 1
<1>0. inUse \in [Slots -> BOOLEAN]
    BY DEF IInv, Kinds
<1>1. IsFiniteSet(Used) /\ Cardinality(Used) \in Nat
    BY FiniteParts DEF Used
<1>2. ASSUME ~inUse[s], inUse' = [inUse EXCEPT ![s] = TRUE]
      PROVE  Cardinality(Used') = Cardinality(Used) + 1
  <2>1. Used' = Used \cup {s} /\ s \notin Used
      BY <1>0, <1>2 DEF Used
  <2> QED
      BY <1>1, <2>1, FS_AddElement
<1>3. ASSUME inUse[s], inUse' = [inUse EXCEPT ![s] = FALSE]
      PROVE  Cardinality(Used') = Cardinality(Used) - 1
  <2>1. Used' = Used \ {s} /\ s \in Used
      BY <1>0, <1>3 DEF Used
  <2> QED
      BY <1>1, <2>1, FS_RemoveElement
<1> QED
    BY <1>1, <1>2, <1>3

(* Every step keeps the count of the blocks in flight. *)
LEMMA InFlightKeeps == IInv /\ [Next]_vars => InFlightExact'
<1> SUFFICES ASSUME IInv, [Next]_vars PROVE InFlightExact'
    OBVIOUS
<1> USE DEF mainVars, statVars, ackVars, netVars
<1> DEFINE Freeing == apc \in {"clear", "dec"}
           Count0 == inFlight = Cardinality(Used) - (IF Filling THEN 1 ELSE 0)
                                                  + (IF Freeing THEN 1 ELSE 0)
<1>0. (pc # "crashed" => Count0) /\ Cardinality(Used) \in Nat /\ inFlight \in Int /\ cur \in Slots
  <2>1. cur \in Slots /\ inFlight \in Int
      BY DEF IInv, Kinds
  <2> QED
      BY <2>1, UsedCount DEF IInv, InFlightExact, Used
<1> SUFFICES ASSUME pc' # "crashed" PROVE Count0'
    BY DEF InFlightExact, Used
<1>1. CASE UNCHANGED <<inFlight, inUse>> /\ (Filling <=> Filling') /\ (Freeing <=> Freeing')
             /\ pc # "crashed"
  <2>1. Used' = Used
      BY <1>1 DEF Used
  <2> QED
      BY <1>0, <1>1, <2>1
<1>2. CASE Acquire \/ AcquireTimeout
  <2>1. pc \in {"acquire", "asleepA"} /\ ~Filling /\ inFlight' = inFlight /\ apc' = apc
      BY <1>2, AcquireEffect DEF Filling
  <2>2. CASE pc' = "tag"
    <3>1. cur' \in Slots /\ ~inUse[cur'] /\ inUse' = [inUse EXCEPT ![cur'] = TRUE]
        BY <1>2, <2>2, AcquireEffect
    <3>2. Cardinality(Used') = Cardinality(Used) + 1
        BY <3>1, UsedCount
    <3>3. Filling'
        BY <2>2 DEF Filling
    <3> QED
        BY <1>0, <2>1, <3>2, <3>3
  <2>3. CASE pc' # "tag"
    <3>1. inUse' = inUse /\ ~Filling' /\ pc # "crashed"
        BY <1>2, <2>1, <2>3, AcquireEffect DEF Filling
    <3> QED
        BY <1>1, <2>1, <3>1
  <2> QED
      BY <2>2, <2>3
<1>3. CASE Prepare \/ Send
  <2>1. Filling /\ inUse[cur] /\ inFlight' = inFlight /\ apc' = apc /\ pc # "crashed"
      BY <1>3 DEF Prepare, Send, Filling, IInv, SlotNotStolen
  <2>2. CASE pc' \in {"send", "count"}
    <3>1. inUse' = inUse /\ Filling'
        BY <1>3, <2>2 DEF Prepare, Send, Filling
    <3> QED
        BY <1>1, <2>1, <3>1
  <2>3. CASE pc' \notin {"send", "count"}
    <3>1. inUse' = [inUse EXCEPT ![cur] = FALSE] /\ ~Filling'
        BY <1>3, <2>3 DEF Prepare, Send, Filling
    <3>2. Cardinality(Used') = Cardinality(Used) - 1
        BY <1>0, <2>1, <3>1, UsedCount
    <3> QED
        BY <1>0, <2>1, <3>1, <3>2
  <2> QED
      BY <2>2, <2>3
<1>4. CASE Count
  <2>1. /\ Filling /\ ~Filling' /\ inUse' = inUse /\ inFlight' = inFlight + 1 /\ apc' = apc
        /\ pc # "crashed"
      BY <1>4 DEF Count, Filling
  <2>2. Used' = Used
      BY <2>1 DEF Used
  <2> QED
      BY <1>0, <2>1, <2>2
<1>5. CASE Release
  <2>1. /\ (Filling <=> Filling') /\ inFlight' = inFlight /\ ~Freeing /\ pc # "crashed"
        /\ apc' \in {"notify", "clear"}
      BY <1>5, ReleaseEffect DEF Filling
  <2>2. CASE apc' = "notify"
    <3>1. inUse' = inUse /\ ~Freeing'
        BY <1>5, <2>2, ReleaseEffect
    <3> QED
        BY <1>1, <2>1, <3>1
  <2>3. CASE apc' = "clear"
    <3>1. freed' \in Slots /\ inUse[freed'] /\ inUse' = [inUse EXCEPT ![freed'] = FALSE]
        BY <1>5, <2>3, ReleaseEffect
    <3>2. Cardinality(Used') = Cardinality(Used) - 1
        BY <3>1, UsedCount
    <3>3. Freeing'
        BY <2>3
    <3> QED
        BY <1>0, <2>1, <3>2, <3>3
  <2> QED
      BY <2>1, <2>2, <2>3
<1>6. CASE Decrement
  <2>1. /\ (Filling <=> Filling') /\ inUse' = inUse /\ inFlight' = inFlight - 1
        /\ Freeing /\ ~Freeing' /\ pc # "crashed"
      BY <1>6 DEF Decrement, Filling
  <2>2. Used' = Used
      BY <2>1 DEF Used
  <2> QED
      BY <1>0, <2>1, <2>2
<1>7. CASE Connect \/ Open \/ LoopTop \/ DryBlock \/ Doze \/ Tag \/ Trim
  <2>1. (~Filling' /\ ~Filling) \/ (pc = "tag" /\ pc' = "prepare")
      BY <1>7 DEF Connect, Open, LoopTop, DryBlock, Doze, Tag, Trim, Filling
  <2>2. UNCHANGED <<inFlight, inUse>> /\ (Filling <=> Filling') /\ pc # "crashed"
      BY <1>7, <2>1 DEF Connect, Open, LoopTop, DryBlock, Doze, Tag, Trim, Filling
  <2>3. Freeing <=> Freeing'
      BY <1>7 DEF Connect, Open, LoopTop, DryBlock, Doze, Tag, Trim, IInv, ControlInv
  <2> QED
      BY <1>1, <2>2, <2>3
<1>8. CASE Drain \/ WaitForAllAcks \/ WaitTimeout \/ Stop \/ Join \/ Close
  <2>1. /\ UNCHANGED <<inFlight, inUse, apc>> /\ ~Filling /\ ~Filling' /\ pc # "crashed"
      BY <1>8 DEF Drain, WaitForAllAcks, WaitTimeout, Stop, Join, Close, Filling
  <2> QED
      BY <1>1, <2>1
<1>9. CASE Poll \/ Receive \/ Apply \/ Clear \/ Serve \/ Break
  <2>1. UNCHANGED <<inFlight, inUse, pc>> /\ (Freeing <=> Freeing')
      BY <1>9 DEF Poll, Receive, Apply, Clear, Serve, Break
  <2> QED
      BY <1>1, <2>1 DEF Filling
<1>10. CASE Notify
  <2>1. /\ UNCHANGED <<inFlight, inUse>> /\ ~Freeing /\ ~Freeing' /\ pc # "crashed"
        /\ (Filling <=> Filling')
      BY <1>10, NotifyEffect DEF Filling
  <2> QED
      BY <1>1, <2>1
<1>11. CASE UNCHANGED vars
    BY <1>1, <1>11 DEF vars, Filling
<1> QED
    BY <1>2, <1>3, <1>4, <1>5, <1>6, <1>7, <1>8, <1>9, <1>10, <1>11
    DEF Next, Main, AckThread, Finished, Crash

(* The count is bounded by the window, and a crash does not change it. *)
LEMMA BoundKeeps == IInv /\ [Next]_vars => BoundInv'
<1> SUFFICES ASSUME IInv, [Next]_vars PROVE BoundInv'
    OBVIOUS
<1>1. CASE pc' # "crashed"
  <2>1. Cardinality(Used') \in 0 .. W
      BY FiniteParts DEF Used
  <2> QED
      BY <1>1, <2>1, InFlightKeeps DEF InFlightExact, BoundInv, Used
<1>2. CASE pc' = "crashed"
  <2>1. ~Count /\ ~Decrement
      BY <1>2 DEF Count, Decrement, mainVars, IInv, ControlInv
  <2>2. inFlight' = inFlight
    <3>1. CASE Acquire \/ AcquireTimeout
        BY <3>1, AcquireEffect
    <3>2. CASE Release
        BY <3>2, ReleaseEffect
    <3>3. CASE Notify
        BY <3>3, NotifyEffect
    <3> QED
        BY <2>1, <3>1, <3>2, <3>3 DEF Next, Main, AckThread, Finished, Connect, Open,
           LoopTop, DryBlock, Doze, Tag, Prepare, Send, Trim, Drain, WaitForAllAcks,
           WaitTimeout, Stop, Join, Close, Poll, Receive, Apply, Clear, Crash, Serve, Break,
           vars
  <2> QED
      BY <2>2 DEF IInv, BoundInv
<1> QED
    BY <1>1, <1>2

(* main falls asleep in AcquireSlot only while no slot is free: it holds    *)
(* the mutex, and ReleaseSlot needs it.                                     *)
LEMMA DozeKeeps == IInv /\ [Next]_vars => DozeInv'
<1> SUFFICES ASSUME IInv, [Next]_vars, pc' = "dozeA" PROVE FreeSlots' = {}
    BY DEF DozeInv
<1>1. CASE Acquire \/ AcquireTimeout
    BY <1>1, AcquireEffect DEF FreeSlots
<1>2. CASE ~(Acquire \/ AcquireTimeout)
  <2>1. ~Prepare /\ ~Send /\ ~Release
      BY ReleaseEffect DEF Prepare, Send
  <2>2. inUse' = inUse
      BY <1>2, <2>1, WindowStep
  <2>3. pc = "dozeA"
    <3>1. CASE Notify
        BY <3>1, NotifyEffect
    <3> QED
        BY <1>2, <3>1 DEF Next, Main, AckThread, Finished, Connect, Open, LoopTop, DryBlock,
           Doze, Tag, Prepare, Send, Count, Trim, Drain, WaitForAllAcks, WaitTimeout, Stop,
           Join, Close, Poll, Receive, Apply, Release, Clear, Decrement, Crash, Serve, Break,
           vars, mainVars
  <2> QED
      BY <2>2, <2>3 DEF IInv, DozeInv, FreeSlots
<1> QED
    BY <1>1, <1>2

(* Every step keeps the wakeup to come. *)
LEMMA WakeupKeeps == IInv /\ [Next]_vars => SlotWakeup'
<1> SUFFICES ASSUME IInv, [Next]_vars, pc' = "asleepA", FreeSlots' # {}
             PROVE  apc' \in {"clear", "dec", "notify"}
    BY DEF SlotWakeup
<1> USE DEF mainVars, statVars, ackVars, netVars
<1>1. CASE Release
    BY <1>1, ReleaseEffect
<1>2. ~Acquire /\ ~AcquireTimeout /\ ~Prepare /\ ~Send /\ ~Notify
    BY AcquireEffect, NotifyEffect DEF Prepare, Send
<1>3. CASE ~Release
  <2>1. inUse' = inUse /\ FreeSlots' = FreeSlots
      BY <1>2, <1>3, WindowStep DEF FreeSlots
  <2>2. CASE Doze
      BY <2>1, <2>2 DEF Doze, IInv, DozeInv
  <2>3. CASE pc = "asleepA" /\ apc' = apc
      BY <2>1, <2>3 DEF IInv, SlotWakeup
  <2>4. CASE pc = "asleepA" /\ (Clear \/ Decrement \/ Poll \/ Receive \/ Apply)
      BY <2>1, <2>4 DEF IInv, SlotWakeup, Clear, Decrement, Poll, Receive, Apply
  <2> QED
      BY <1>2, <1>3, <2>2, <2>3, <2>4 DEF Next, Main, AckThread, Finished, Connect, Open,
         LoopTop, DryBlock, Tag, Count, Trim, Drain, WaitForAllAcks, WaitTimeout, Stop,
         Join, Close, Poll, Receive, Apply, Clear, Decrement, Crash, Serve, Break, vars
<1> QED
    BY <1>1, <1>3

-----------------------------------------------------------------------------
(* The block states. *)

(* Nothing comes to be unanswered that was not: it is the block in hand, a *)
(* later one, or on its way already.                                       *)
LEMMA UnansweredStep ==
    ASSUME IInv, [Next]_vars, NEW b \in Blocks, Unanswered(b)'
    PROVE  Unanswered(b)
<1>0. b \in Nat /\ i \in Nat
    BY DEF IInv, Kinds, Blocks
<1>1. CASE b > i' \/ (b = i' /\ ~Given')
    BY <1>0, <1>1, Progress DEF Unanswered
<1>2. CASE Waiting(b)'
  <2>1. CASE Send /\ b = i
      BY <2>1 DEF Send, Unanswered, Given, Ending
  <2> QED
      BY <1>2, <2>1, WaitingStep DEF Unanswered
<1> QED
    BY <1>1, <1>2 DEF Unanswered

(* Only a dry block and an answer change a block's state; Save copies them. *)
LEMMA StatesStep ==
    ASSUME IInv, [Next]_vars
    PROVE  /\ \/ ack' = ack
              \/ DryBlock /\ ack' = [ack EXCEPT ![i] = "Acknowledged"]
              \/ Apply
           /\ saved' = saved \/ saved' = ack'
           /\ dry' = dry
<1> USE DEF mainVars, statVars, ackVars, netVars
<1>1. CASE UNCHANGED <<ack, saved, dry>>
    BY <1>1
<1>2. CASE Connect \/ Close
    BY <1>2 DEF Connect, Close
<1>3. CASE DryBlock \/ Trim
    BY <1>3 DEF DryBlock, Trim, SaveOnProgress
<1>4. CASE Acquire \/ AcquireTimeout
    BY <1>4, AcquireEffect
<1>5. CASE Release
    BY <1>5, ReleaseEffect
<1>6. CASE Notify
    BY <1>6, NotifyEffect
<1>7. CASE Apply
    BY <1>7 DEF Apply
<1> QED
    BY <1>1, <1>2, <1>3, <1>4, <1>5, <1>6, <1>7 DEF Next, Main, AckThread, Finished, Open,
       LoopTop, Doze, Tag, Prepare, Send, Count, Drain, WaitForAllAcks, WaitTimeout, Stop,
       Join, Poll, Receive, Clear, Decrement, Crash, Serve, Break, vars

(* No block of a dry run is on its way. *)
LEMMA DryQuiet == ASSUME IInv, dry, NEW b PROVE ~Waiting(b)
<1>1. apc = "off" /\ up = <<>> /\ down = <<>>
    BY DEF IInv, ControlInv
<1>2. Len(up) = 0 /\ Len(down) = 0
    BY <1>1, EmptySeq
<1> QED
    BY <1>1, <1>2 DEF Waiting, InNet

(* The block whose state changes was unanswered, and is not any more. *)
LEMMA ChangedState ==
    ASSUME IInv, [Next]_vars, NEW b \in Blocks, ack'[b] # ack[b]
    PROVE  /\ Unanswered(b) /\ ~Unanswered(b)'
           /\ (DryBlock /\ b = i) \/ (Apply /\ b = msg.b)
<1>0. b \in Nat /\ i \in Nat /\ i < i + 1 /\ ack \in [Blocks -> Statuses]
    BY DEF IInv, Kinds, Blocks
<1>1. CASE DryBlock /\ b = i
  <2>1. dry /\ pc = "dry" /\ ~Given /\ i' = i + 1 /\ UNCHANGED <<up, down, apc, msg>>
      BY <1>1 DEF DryBlock, Given, Ending, IInv, ControlInv, ackVars, netVars
  <2>2. ~Waiting(b)
      BY <2>1, DryQuiet
  <2>3. ~Waiting(b)'
      BY <2>1, <2>2 DEF Waiting, InNet
  <2> QED
      BY <1>0, <1>1, <2>1, <2>3 DEF Unanswered
<1>2. CASE Apply /\ b = msg.b
  <2>1. /\ apc = "apply" /\ apc' = "release" /\ UNCHANGED <<up, down, msg, i, pc>>
      BY <1>2 DEF Apply, mainVars, netVars
  <2>2. /\ \A k \in 1 .. Len(up) : up[k] \in Nat /\ b < up[k]
        /\ \A k \in 1 .. Len(down) : down[k].b \in Nat /\ b < down[k].b
    <3>1. HandOrder /\ Handling
        BY <2>1 DEF IInv, OrderInv, Handling
    <3>2. /\ \A k \in 1 .. Len(up) : up[k] \in Nat
          /\ \A k \in 1 .. Len(down) : down[k].b \in Nat
        BY NetFacts DEF IInv
    <3> QED
        BY <1>2, <3>1, <3>2 DEF HandOrder
  <2>3. ~Waiting(b)'
    <3>1. ~InNet(b)
        BY <1>0, <2>2 DEF InNet
    <3> QED
        BY <2>1, <3>1 DEF Waiting, InNet
  <2>4. b < i \/ (b = i /\ Given)
      BY <1>2, <2>1 DEF IInv, SentInv, OnWay, Handling
  <2>5. ~Unanswered(b)'
      BY <1>0, <2>1, <2>3, <2>4 DEF Unanswered, Given
  <2> QED
      BY <1>2, <2>1, <2>5 DEF Unanswered, Waiting
<1>3. CASE DryBlock /\ ack' = [ack EXCEPT ![i] = "Acknowledged"]
    BY <1>0, <1>1, <1>3
<1>4. CASE Apply
    BY <1>0, <1>2, <1>4 DEF Apply
<1> QED
    BY <1>3, <1>4, StatesStep

(* Only the server changes its image, at the first message of the stream,   *)
(* which is unanswered.                                                     *)
LEMMA ImageStep ==
    ASSUME IInv, [Next]_vars, NEW b \in Blocks, image'[b] # image[b]
    PROVE  Serve /\ b = up[1] /\ Unanswered(b)
<1> USE DEF mainVars, statVars, ackVars, netVars
<1>1. Serve
  <2>1. CASE Acquire \/ AcquireTimeout
      BY <2>1, AcquireEffect
  <2>2. CASE Release
      BY <2>2, ReleaseEffect
  <2>3. CASE Notify
      BY <2>3, NotifyEffect
  <2> QED
      BY <2>1, <2>2, <2>3 DEF Next, Main, AckThread, Finished, Connect, Open, LoopTop,
         DryBlock, Doze, Tag, Prepare, Send, Count, Trim, Drain, WaitForAllAcks, WaitTimeout,
         Stop, Join, Close, Poll, Receive, Apply, Clear, Decrement, Crash, Break, vars
<1>2. \E c \in {"old", "new", "torn"} : image' = [image EXCEPT ![up[1]] = c]
    BY <1>1, ServeNet
<1>3. b = up[1]
    BY <1>2 DEF IInv, Kinds
<1>4. Len(up) \in Nat /\ Len(up) > 0
    BY <1>1, ServeNet, NetFacts DEF Popped, IInv
<1> QED
    BY <1>1, <1>3, <1>4 DEF Unanswered, Waiting, InNet

(* Every step keeps what is known of unanswered blocks and of answers. *)
LEMMA AnswerKeeps == IInv /\ [Next]_vars => AnswerInv'
<1> SUFFICES ASSUME IInv, [Next]_vars PROVE AnswerInv'
    OBVIOUS
<1>0. AnswerInv /\ image \in [Blocks -> {"old", "new", "torn"}]
    BY DEF IInv, Kinds
<1>1. \A b \in Blocks : Unanswered(b)' => ack'[b] = "Pending" /\ saved'[b] # "Acknowledged"
  <2> SUFFICES ASSUME NEW b \in Blocks, Unanswered(b)'
               PROVE  ack'[b] = "Pending" /\ saved'[b] # "Acknowledged"
      OBVIOUS
  <2>1. ack'[b] = ack[b]
      BY ChangedState
  <2>2. ack[b] = "Pending" /\ saved[b] # "Acknowledged"
      BY <1>0, UnansweredStep DEF AnswerInv
  <2> QED
      BY <2>1, <2>2, StatesStep
<1>2. \A b \in Blocks : saved'[b] \in {"none", "Pending", ack'[b]}
  <2> SUFFICES ASSUME NEW b \in Blocks, saved' = saved
               PROVE  saved[b] \in {"none", "Pending", ack'[b]}
      BY StatesStep
  <2>1. saved[b] \in {"none", "Pending", ack[b]}
      BY <1>0 DEF AnswerInv
  <2>2. CASE ack'[b] = ack[b]
      BY <2>1, <2>2
  <2>3. CASE ack'[b] # ack[b]
    <3>1. ack[b] = "Pending"
        BY <1>0, <2>3, ChangedState DEF AnswerInv
    <3> QED
        BY <2>1, <3>1
  <2> QED
      BY <2>2, <2>3
<1>3. ASSUME NEW k \in 1 .. Len(down)
      PROVE  down[k].b \in Blocks /\ image'[down[k].b] = image[down[k].b]
  <2>1. down[k].b \in Blocks /\ down[k].b \in Nat /\ Len(up) \in Nat
      BY NetFacts DEF IInv
  <2>2. ASSUME Serve PROVE down[k].b # up[1]
    <3>1. 1 \in 1 .. Len(up) /\ up[1] \in Nat
        BY <2>1, <2>2, ServeNet DEF Popped, Blocks
    <3> QED
        BY <2>1, <3>1 DEF IInv, OrderInv, CrossOrder
  <2> QED
      BY <2>1, <2>2, ImageStep
<1>4. ASSUME apc = "apply"
      PROVE  image'[msg.b] = image[msg.b]
  <2>1. msg.b \in Blocks /\ msg.b \in Nat /\ Len(up) \in Nat
      BY <1>4, NetFacts DEF IInv, ControlInv, Handling
  <2>2. ASSUME Serve PROVE msg.b # up[1]
    <3>1. 1 \in 1 .. Len(up) /\ up[1] \in Nat
        BY <2>1, <2>2, ServeNet DEF Popped, Blocks
    <3> QED
        BY <1>4, <2>1, <3>1 DEF IInv, OrderInv, HandOrder, Handling
  <2> QED
      BY <2>1, <2>2, ImageStep
<1>5. \A k \in 1 .. Len(down) : down[k].ok => image'[down[k].b] = "new"
    BY <1>0, <1>3 DEF AnswerInv
<1>6. apc = "apply" /\ msg.ok => image'[msg.b] = "new"
    BY <1>0, <1>4 DEF AnswerInv
<1>7. /\ \A k \in 1 .. Len(down') : down'[k].ok => image'[down'[k].b] = "new"
      /\ apc' = "apply" /\ msg'.ok => image'[msg'.b] = "new"
  <2>0. Len(down) \in Nat /\ Len(down') \in Nat
      BY NetFacts, NetKindsKeeps, LenProperties DEF IInv, NetKinds
  <2>1. CASE NetQuiet
      BY <1>5, <1>6, <2>1 DEF NetQuiet, Handling
  <2>2. CASE Send
      BY <1>5, <1>6, <2>2 DEF Send, ackVars
  <2>3. CASE Receive
    <3>1. CASE apc' = "apply" /\ Popped(down', down) /\ msg' = down[1]
        BY <1>5, <2>0, <3>1 DEF Popped
    <3>2. CASE apc' \in {"poll", "lost"} /\ UNCHANGED <<down, msg>>
        BY <1>5, <3>2
    <3> QED
        BY <2>3, <3>1, <3>2, ReceiveNet
  <2>4. CASE Serve
    <3>1. apc' = apc /\ msg' = msg /\ up[1] \in Blocks
        BY <2>4, ServeNet DEF Serve, ackVars
    <3>2. PICK ok \in BOOLEAN : /\ Appended(down', down, [b |-> up[1], ok |-> ok])
                                /\ ok => image' = [image EXCEPT ![up[1]] = "new"]
        BY <2>4, ServeNet
    <3>3. ok => image'[up[1]] = "new"
        BY <1>0, <3>1, <3>2
    <3>4. \A k \in 1 .. Len(down') :
             \/ k \in 1 .. Len(down) /\ down'[k] = down[k]
             \/ down'[k].b = up[1] /\ down'[k].ok = ok
        BY <2>0, <3>2 DEF Appended
    <3> QED
        BY <1>5, <1>6, <3>1, <3>3, <3>4
  <2>5. CASE Break
    <3>1. apc' = apc /\ msg' = msg
        BY <2>5 DEF Break, ackVars
    <3>2. \A k \in 1 .. Len(down') : k \in 1 .. Len(down) /\ down'[k] = down[k]
        BY <2>0, <2>5, BreakNet DEF Truncated
    <3> QED
        BY <1>5, <1>6, <3>1, <3>2
  <2> QED
      BY <2>1, <2>2, <2>3, <2>4, <2>5, QuietOrNot
<1> QED
    BY <1>1, <1>2, <1>7 DEF AnswerInv

(* Every step keeps acknowledged blocks stored: the block that becomes     *)
(* acknowledged was answered with success, and the server writes none that *)
(* is acknowledged already.                                                *)
LEMMA StoredKeeps == IInv /\ [Next]_vars => AckedMeansStored'
<1> SUFFICES ASSUME IInv, [Next]_vars, ~dry', NEW b \in Blocks,
                    "Acknowledged" \in {ack'[b], saved'[b]}
             PROVE  image'[b] = "new"
    BY DEF AckedMeansStored
<1>0. ~dry /\ AckedMeansStored /\ AnswerInv /\ ack \in [Blocks -> Statuses]
    BY StatesStep DEF IInv, Kinds
<1>1. CASE "Acknowledged" \in {ack[b], saved[b]}
  <2>1. image[b] = "new" /\ ~Unanswered(b)
      BY <1>0, <1>1 DEF AckedMeansStored, AnswerInv
  <2> QED
      BY <2>1, ImageStep
<1>2. CASE "Acknowledged" \notin {ack[b], saved[b]}
  <2>1. ack'[b] = "Acknowledged" /\ ack'[b] # ack[b]
      BY <1>2, StatesStep
  <2>2. ~DryBlock
      BY <1>0 DEF DryBlock, IInv, ControlInv
  <2>3. Apply /\ b = msg.b
      BY <2>1, <2>2, ChangedState
  <2>4. apc = "apply" /\ msg.ok /\ image' = image
      BY <1>0, <2>1, <2>3 DEF Apply, netVars
  <2> QED
      BY <1>0, <2>3, <2>4 DEF AnswerInv
<1> QED
    BY <1>1, <1>2

(* The counters follow the block states. *)
LEMMA CountersKeep ==
    ASSUME IInv, [Next]_vars
    PROVE  /\ acked' = Cardinality(Acknowledged') /\ failed' = Cardinality(Refused')
           /\ acked \in Nat /\ failed \in Nat
<1>0. /\ ack \in [Blocks -> Statuses] /\ acked \in Nat /\ failed \in Nat /\ i \in 0 .. N
      /\ acked = Cardinality(Acknowledged) /\ failed = Cardinality(Refused)
    BY DEF IInv, Kinds, StatInv
<1>1. IsFiniteSet(Acknowledged) /\ IsFiniteSet(Refused)
    BY FiniteParts DEF Acknowledged, Refused
<1>2. ASSUME NEW b \in Blocks, ack[b] = "Pending", ack' = [ack EXCEPT ![b] = "Acknowledged"]
      PROVE  Cardinality(Acknowledged') = acked + 1 /\ Refused' = Refused
  <2>1. Acknowledged' = Acknowledged \cup {b} /\ b \notin Acknowledged
      BY <1>0, <1>2 DEF Acknowledged
  <2>2. Refused' = Refused
      BY <1>0, <1>2 DEF Refused
  <2> QED
      BY <1>0, <1>1, <2>1, <2>2, FS_AddElement
<1>3. ASSUME NEW b \in Blocks, ack[b] = "Pending", ack' = [ack EXCEPT ![b] = "Failed"]
      PROVE  Cardinality(Refused') = failed + 1 /\ Acknowledged' = Acknowledged
  <2>1. Refused' = Refused \cup {b} /\ b \notin Refused
      BY <1>0, <1>3 DEF Refused
  <2>2. Acknowledged' = Acknowledged
      BY <1>0, <1>3 DEF Acknowledged
  <2> QED
      BY <1>0, <1>1, <2>1, <2>2, FS_AddElement
<1>4. CASE UNCHANGED <<ack, acked, failed>>
    BY <1>0, <1>4 DEF Acknowledged, Refused
<1>5. CASE DryBlock /\ ~UNCHANGED <<ack, acked, failed>>
  <2>1. /\ ack' = [ack EXCEPT ![i] = "Acknowledged"] /\ acked' = acked + 1 /\ failed' = failed
        /\ pc = "dry"
      BY <1>5 DEF DryBlock
  <2>2. i \in Blocks
      BY <2>1, InHand DEF Looping
  <2>3. ack[i] = "Pending"
      BY <2>1, <2>2 DEF IInv, AnswerInv, Unanswered, Given, Ending
  <2> QED
      BY <1>0, <1>2, <2>1, <2>2, <2>3
<1>6. CASE Apply
  <2>1. msg.b \in Blocks /\ apc = "apply"
      BY <1>6 DEF Apply, IInv, ControlInv, Handling
  <2>2. ack[msg.b] = "Pending"
      BY <2>1 DEF IInv, AnswerInv, Unanswered, Waiting
  <2>3. CASE msg.ok
      BY <1>0, <1>2, <1>6, <2>1, <2>2, <2>3 DEF Apply
  <2>4. CASE ~msg.ok
      BY <1>0, <1>3, <1>6, <2>1, <2>2, <2>4 DEF Apply
  <2> QED
      BY <2>3, <2>4
<1>7. UNCHANGED <<ack, acked, failed>> \/ DryBlock \/ Apply
  <2> USE DEF mainVars, statVars, ackVars, netVars
  <2>1. CASE Acquire \/ AcquireTimeout
      BY <2>1, AcquireEffect
  <2>2. CASE Release
      BY <2>2, ReleaseEffect
  <2>3. CASE Notify
      BY <2>3, NotifyEffect
  <2> QED
      BY <2>1, <2>2, <2>3 DEF Next, Main, AckThread, Finished, Connect, Open, LoopTop,
         Doze, Tag, Prepare, Send, Count, Trim, Drain, WaitForAllAcks, WaitTimeout,
         Stop, Join, Close, Poll, Receive, Clear, Decrement, Crash, Serve, Break, vars
<1> QED
    BY <1>0, <1>4, <1>5, <1>6, <1>7

(* Every step keeps the counters honest: what is counted, on its way or in *)
(* hand are different blocks.                                              *)
LEMMA StatKeeps == IInv /\ [Next]_vars => StatInv'
<1> SUFFICES ASSUME IInv, [Next]_vars PROVE StatInv'
    OBVIOUS
<1> USE DEF mainVars, statVars, ackVars, netVars
<1>0. /\ Len(up) \in Nat /\ Len(down) \in Nat /\ i \in Nat /\ i <= N
      /\ acked \in Nat /\ failed \in Nat /\ skipped \in Nat /\ sent \in Nat
      /\ pc \in Looping \cup {"crashed"} => i < N
      /\ Load <= Room
      /\ sent <= i + (IF pc \in {"trim", "crashed"} THEN 1 ELSE 0)
  <2>1. Len(up) \in Nat /\ Len(down) \in Nat
      BY NetFacts DEF IInv
  <2>2. Kinds /\ ControlInv /\ StatInv
      BY DEF IInv
  <2> QED
      BY <2>1, <2>2 DEF Kinds, ControlInv, StatInv
<1> DEFINE Sum == acked + failed + skipped
<1>1. Load \in Int /\ Room \in Int /\ Room' \in Int
  <2>1. i' \in Int
      BY KindsKeeps DEF Kinds
  <2> QED
      BY <1>0, <2>1 DEF Load, Room
<1>2. ASSUME UNCHANGED <<acked, failed, skipped, up, down>>, apc' = "apply" => apc = "apply",
             Room <= Room'
      PROVE  Load' <= Room'
  <2>1. Load' <= Load /\ Load' \in Int
      BY <1>0, <1>2 DEF Load
  <2> QED
      BY <1>0, <1>1, <1>2, <2>1
<1>3. CASE Connect \/ Open \/ LoopTop \/ Doze \/ Tag \/ Trim
  <2>1. /\ UNCHANGED <<acked, failed, skipped, sent, up, down>>
        /\ apc' = "apply" => apc = "apply"
      BY <1>3 DEF Connect, Open, LoopTop, Doze, Tag, Trim
  <2>2. Room <= Room'
      BY <1>0, <1>3 DEF Connect, Open, LoopTop, Doze, Tag, Trim, Room, Ending
  <2>3. sent' <= i' + (IF pc' \in {"trim", "crashed"} THEN 1 ELSE 0)
      BY <1>0, <1>3 DEF Connect, Open, LoopTop, Doze, Tag, Trim
  <2> QED
      BY <1>2, <2>1, <2>2, <2>3, CountersKeep DEF StatInv
<1>4. CASE Drain \/ WaitForAllAcks \/ WaitTimeout \/ Stop \/ Join \/ Close
  <2>1. UNCHANGED <<acked, failed, skipped, sent, up, down, apc, i>>
      BY <1>4 DEF Drain, WaitForAllAcks, WaitTimeout, Stop, Join, Close
  <2>2. pc \in Ending /\ pc' \in Ending
      BY <1>4 DEF Drain, WaitForAllAcks, WaitTimeout, Stop, Join, Close, Ending
  <2>3. Room <= Room'
      BY <1>0, <2>1, <2>2 DEF Room, Ending
  <2>4. sent' <= i' + (IF pc' \in {"trim", "crashed"} THEN 1 ELSE 0)
      BY <1>0, <2>1, <2>2 DEF Ending
  <2> QED
      BY <1>2, <2>1, <2>3, <2>4, CountersKeep DEF StatInv
<1>5. CASE DryBlock
  <2>1. UNCHANGED <<up, down, apc>> /\ i' = i + 1 /\ pc = "dry" /\ pc' = "top"
      BY <1>5 DEF DryBlock
  <2>2. Sum' = Sum + 1 /\ sent' <= sent + 1
      BY <1>0, <1>5 DEF DryBlock
  <2>3. Load' = Load + 1
      BY <1>0, <2>1, <2>2 DEF Load
  <2>4. Room' = Room + 1
      BY <1>0, <2>1 DEF Room, Ending
  <2>5. Load' <= Room'
      BY <1>0, <2>3, <2>4 DEF Load, Room
  <2>6. sent' <= i'
      BY <1>0, <1>5, <2>1 DEF DryBlock
  <2> QED
      BY <2>1, <2>5, <2>6, CountersKeep DEF StatInv
<1>6. CASE Acquire \/ AcquireTimeout
  <2>1. /\ UNCHANGED <<acked, failed, skipped, sent, up, down, apc, i>>
        /\ pc \in {"acquire", "asleepA"} /\ pc' \in {"tag", "drain", "dozeA"}
      BY <1>6, AcquireEffect
  <2>2. Room <= Room'
      BY <1>0, <2>1 DEF Room, Ending
  <2> QED
      BY <1>0, <1>2, <2>1, <2>2, CountersKeep DEF StatInv
<1>7. CASE Prepare
  <2>1. CASE pc' = "send"
    <3>1. UNCHANGED <<acked, failed, skipped, sent, up, down, apc, i>> /\ pc = "prepare"
        BY <1>7, <2>1 DEF Prepare
    <3>2. Room <= Room'
        BY <1>0, <2>1, <3>1 DEF Room, Ending
    <3> QED
        BY <1>0, <1>2, <2>1, <3>1, <3>2, CountersKeep DEF StatInv
  <2>2. CASE pc' = "top"
    <3>1. /\ UNCHANGED <<acked, failed, sent, up, down, apc>> /\ skipped' = skipped + 1
          /\ i' = i + 1 /\ pc = "prepare"
        BY <1>7, <2>2 DEF Prepare
    <3>2. Load' = Load + 1 /\ Room' = Room + 1 /\ Load \in Int /\ Room \in Int
        BY <1>0, <2>2, <3>1 DEF Load, Room, Ending
    <3> QED
        BY <1>0, <2>2, <3>1, <3>2, CountersKeep DEF StatInv
  <2> QED
      BY <1>7, <2>1, <2>2 DEF Prepare
<1>8. CASE Send
  <2>1. /\ UNCHANGED <<acked, failed, skipped, sent, down, apc, i>> /\ pc = "send"
        /\ pc' \in {"count", "drain"}
      BY <1>8 DEF Send
  <2>2. Len(up') = Len(up) \/ Len(up') = Len(up) + 1
      BY <1>8, SendNet DEF Appended
  <2>3. Load' <= Load + 1 /\ Room' = Room + 1 /\ Load \in Int /\ Load' \in Int /\ Room \in Int
      BY <1>0, <2>1, <2>2 DEF Load, Room, Ending, Looping
  <2> QED
      BY <1>0, <2>1, <2>3, CountersKeep DEF StatInv
<1>9. CASE Count
  <2>1. /\ UNCHANGED <<acked, failed, skipped, up, down, apc, i>> /\ sent' = sent + 1
        /\ pc = "count" /\ pc' = "trim"
      BY <1>9 DEF Count
  <2>2. Room <= Room'
      BY <1>0, <2>1 DEF Room
  <2> QED
      BY <1>0, <1>2, <2>1, <2>2, CountersKeep DEF StatInv
<1>10. CASE Poll \/ Clear \/ Decrement
  <2>1. UNCHANGED <<acked, failed, skipped, sent, up, down, i, pc>> /\ apc' # "apply"
      BY <1>10 DEF Poll, Clear, Decrement
  <2>2. Room <= Room'
      BY <1>0, <2>1 DEF Room
  <2> QED
      BY <1>0, <1>2, <2>1, <2>2, CountersKeep DEF StatInv
<1>11. CASE Release
  <2>1. UNCHANGED <<acked, failed, skipped, sent, up, down, i, pc>> /\ apc' # "apply"
      BY <1>11, ReleaseEffect
  <2>2. Room <= Room'
      BY <1>0, <2>1 DEF Room
  <2> QED
      BY <1>0, <1>2, <2>1, <2>2, CountersKeep DEF StatInv
<1>12. CASE Notify
  <2>1. /\ UNCHANGED <<acked, failed, skipped, sent, up, down, i>> /\ apc' # "apply"
        /\ pc = "asleepA" => pc' = "acquire"
        /\ pc = "asleepW" => pc' = "wait"
        /\ pc \notin {"asleepA", "asleepW"} => pc' = pc
      BY <1>12, NotifyEffect
  <2>2. Room <= Room'
      BY <1>0, <2>1 DEF Room, Ending
  <2> QED
      BY <1>0, <1>2, <2>1, <2>2, CountersKeep DEF StatInv
<1>13. CASE Receive
  <2>1. UNCHANGED <<acked, failed, skipped, sent, up, i, pc>> /\ apc = "select"
      BY <1>13 DEF Receive
  <2>2. \/ apc' = "apply" /\ Len(down') = Len(down) - 1
        \/ apc' # "apply" /\ down' = down
      BY <1>13, ReceiveNet DEF Popped
  <2>3. Load' = Load /\ Room' = Room
      BY <1>0, <2>1, <2>2 DEF Load, Room
  <2> QED
      BY <1>0, <2>1, <2>3, CountersKeep DEF StatInv
<1>14. CASE Apply
  <2>1. /\ UNCHANGED <<skipped, sent, up, down, i, pc>> /\ apc = "apply" /\ apc' = "release"
        /\ \/ acked' = acked + 1 /\ failed' = failed
           \/ failed' = failed + 1 /\ acked' = acked
      BY <1>14 DEF Apply
  <2>3. Load' = Load
    <3>1. CASE acked' = acked + 1 /\ failed' = failed
        BY <1>0, <2>1, <3>1 DEF Load
    <3>2. CASE failed' = failed + 1 /\ acked' = acked
        BY <1>0, <2>1, <3>2 DEF Load
    <3> QED
        BY <2>1, <3>1, <3>2
  <2>4. Room' = Room
      BY <2>1 DEF Room
  <2> QED
      BY <1>0, <2>1, <2>3, <2>4, CountersKeep DEF StatInv
<1>15. CASE Serve
  <2>1. UNCHANGED <<acked, failed, skipped, sent, apc, i, pc>>
      BY <1>15 DEF Serve
  <2>2. Len(up') = Len(up) - 1 /\ Len(down') = Len(down) + 1
      BY <1>15, ServeNet DEF Popped, Appended
  <2>3. Load' = Load /\ Room' = Room
      BY <1>0, <2>1, <2>2 DEF Load, Room
  <2> QED
      BY <1>0, <2>1, <2>3, CountersKeep DEF StatInv
<1>16. CASE Break
  <2>1. UNCHANGED <<acked, failed, skipped, sent, apc, i, pc>>
      BY <1>16 DEF Break
  <2>2. Len(up') = 0 /\ Len(down') <= Len(down) /\ Len(down') \in Nat
      BY <1>16, BreakNet, LenProperties DEF Truncated, NetKinds
  <2>3. Load' <= Load /\ Room' = Room /\ Load \in Int /\ Load' \in Int /\ Room \in Int
      BY <1>0, <2>1, <2>2 DEF Load, Room
  <2> QED
      BY <1>0, <2>1, <2>3, CountersKeep DEF StatInv
<1>17. CASE Crash
  <2>1. /\ UNCHANGED <<acked, failed, skipped, sent, up, down, i>> /\ apc' # "apply"
        /\ pc = "trim" /\ pc' = "crashed"
      BY <1>17 DEF Crash, Racing
  <2>2. Room <= Room'
      BY <1>0, <2>1 DEF Room
  <2> QED
      BY <1>0, <1>2, <2>1, <2>2, CountersKeep DEF StatInv
<1>18. CASE UNCHANGED vars
  <2>1. UNCHANGED <<acked, failed, skipped, sent, up, down, i, pc, apc>>
      BY <1>18 DEF vars
  <2>2. Room <= Room'
      BY <1>0, <2>1 DEF Room
  <2> QED
      BY <1>0, <1>2, <2>1, <2>2, CountersKeep DEF StatInv
<1> QED
    BY <1>3, <1>4, <1>5, <1>6, <1>7, <1>8, <1>9, <1>10, <1>11, <1>12, <1>13, <1>14, <1>15,
       <1>16, <1>17, <1>18 DEF Next, Main, AckThread, Finished

-----------------------------------------------------------------------------
(* A run without trouble. *)

(* The flags that stand for trouble. *)
LEMMA CleanFlagsKeep ==
    ASSUME IInv, [Next]_vars, ~trouble'
    PROVE  ~trouble /\ CleanFlags'
<1> USE DEF mainVars, statVars, ackVars, netVars, CleanFlags
<1>1. ~trouble
  <2>1. CASE Acquire \/ AcquireTimeout
      BY <2>1, AcquireEffect
  <2>2. CASE Release
      BY <2>2, ReleaseEffect
  <2>3. CASE Notify
      BY <2>3, NotifyEffect
  <2> QED
      BY <2>1, <2>2, <2>3 DEF Next, Main, AckThread, Finished, Connect, Open, LoopTop,
         DryBlock, Doze, Tag, Prepare, Send, Count, Trim, Drain, WaitForAllAcks, WaitTimeout,
         Stop, Join, Close, Poll, Receive, Apply, Clear, Decrement, Crash, Serve, Break, vars
<1>2. CleanFlags /\ CleanAnswers
    BY <1>1 DEF IInv, CleanInv
<1>3. CASE Acquire \/ AcquireTimeout
    BY <1>2, <1>3, AcquireEffect
<1>4. CASE Release
    BY <1>2, <1>4, ReleaseEffect
<1>5. CASE Notify
    BY <1>2, <1>5, NotifyEffect DEF IInv, ControlInv
<1>6. CASE Receive
  <2>1. ~dry /\ pc # "connect"
      BY <1>6 DEF Receive, IInv, ControlInv
  <2> QED
      BY <1>2, <1>6, <2>1 DEF Receive
<1>7. CASE Apply
    BY <1>2, <1>7 DEF Apply, CleanAnswers
<1>8. CASE Connect \/ Open \/ LoopTop \/ DryBlock \/ Doze \/ Tag \/ Prepare \/ Send \/ Count
    BY <1>2, <1>8 DEF Connect, Open, LoopTop, DryBlock, Doze, Tag, Prepare, Send, Count
<1>9. CASE Trim \/ Drain \/ WaitForAllAcks \/ WaitTimeout \/ Stop \/ Join \/ Close
  <2>1. UNCHANGED <<perr, failed, skipped, dry, server>> /\ pc # "connect"
      BY <1>9 DEF Trim, Drain, WaitForAllAcks, WaitTimeout, Stop, Join, Close
  <2> QED
      BY <1>1, <1>2, <2>1
<1>10. CASE Poll \/ Clear \/ Decrement \/ Crash \/ Serve \/ Break \/ UNCHANGED vars
    BY <1>2, <1>10 DEF Poll, Clear, Decrement, Crash, Racing, Serve, Break, vars
<1> QED
    BY <1>1, <1>3, <1>4, <1>5, <1>6, <1>7, <1>8, <1>9, <1>10
    DEF Next, Main, AckThread, Finished

(* All answers are good ones. *)
LEMMA CleanAnswersKeep ==
    ASSUME IInv, [Next]_vars, ~trouble'
    PROVE  CleanAnswers'
<1>0. /\ Len(down) \in Nat /\ Len(down') \in Nat
      /\ \A k \in 1 .. Len(down) : down[k].ok
      /\ apc = "apply" => msg.ok
  <2>1. CleanAnswers
      BY CleanFlagsKeep DEF IInv, CleanInv
  <2> QED
      BY <2>1, NetFacts, NetKindsKeeps, LenProperties DEF IInv, NetKinds, CleanAnswers
<1>1. CASE NetQuiet
    BY <1>0, <1>1 DEF NetQuiet, Handling, CleanAnswers
<1>2. CASE Send
    BY <1>0, <1>2 DEF Send, ackVars, CleanAnswers
<1>3. CASE Receive
  <2>1. CASE apc' = "apply" /\ Popped(down', down) /\ msg' = down[1]
      BY <1>0, <2>1 DEF Popped, CleanAnswers
  <2>2. CASE apc' \in {"poll", "lost"} /\ UNCHANGED <<down, msg>>
      BY <1>0, <2>2 DEF CleanAnswers
  <2> QED
      BY <1>3, <2>1, <2>2, ReceiveNet
<1>4. CASE Serve
  <2>1. apc' = apc /\ msg' = msg
      BY <1>4 DEF Serve, ackVars
  <2>2. Appended(down', down, [b |-> up[1], ok |-> TRUE])
      BY <1>4, ServeNet
  <2>3. \A k \in 1 .. Len(down') : \/ k \in 1 .. Len(down) /\ down'[k] = down[k]
                                   \/ down'[k].ok = TRUE
      BY <1>0, <2>2 DEF Appended
  <2> QED
      BY <1>0, <2>1, <2>2, <2>3 DEF CleanAnswers
<1>5. CASE Break
    BY <1>5 DEF Break
<1> QED
    BY <1>1, <1>2, <1>3, <1>4, <1>5, QuietOrNot

(* What main counts, and where it ends. *)
LEMMA CleanCountsKeep ==
    ASSUME IInv, [Next]_vars, ~trouble'
    PROVE  CleanCounts' /\ CleanVerdict'
<1> USE DEF mainVars, statVars, ackVars, netVars, CleanCounts, CleanVerdict
<1>0. /\ CleanCounts /\ CleanVerdict /\ ~perr /\ ~perr'
      /\ i \in Nat /\ sent \in Nat /\ inFlight \in Int
      /\ pc = "crashed" <=> apc = "crashed"
  <2>1. CleanCounts /\ CleanVerdict /\ CleanFlags /\ CleanFlags'
      BY CleanFlagsKeep DEF IInv, CleanInv
  <2>2. Kinds /\ ControlInv
      BY DEF IInv
  <2> QED
      BY <2>1, <2>2 DEF CleanFlags, Kinds, ControlInv
<1>1. pc \in Ending => inFlight >= (IF apc \in {"clear", "dec"} THEN 1 ELSE 0)
  <2>1. ASSUME pc \in Ending
        PROVE  inFlight = Cardinality(Used) + (IF apc \in {"clear", "dec"} THEN 1 ELSE 0)
    <3>1. Cardinality(Used) \in Nat
        BY UsedCount DEF IInv, Kinds
    <3>2. ~Filling /\ pc # "crashed"
        BY <2>1 DEF Filling, Ending
    <3> QED
        BY <3>1, <3>2 DEF IInv, InFlightExact, Used
  <2>2. Cardinality(Used) \in Nat
      BY UsedCount DEF IInv, Kinds
  <2> QED
      BY <2>1, <2>2
<1>2. CASE Connect \/ Open \/ LoopTop \/ Doze
    BY <1>0, <1>2 DEF Connect, Open, LoopTop, Doze, Ending
<1>3. CASE DryBlock \/ Prepare \/ Trim
    BY <1>0, <1>3 DEF DryBlock, Prepare, Trim, Ending
<1>4. CASE Tag \/ Send \/ Count
    BY <1>0, <1>4 DEF Tag, Send, Count, Ending
<1>5. CASE Acquire \/ AcquireTimeout
    BY <1>0, <1>5, AcquireEffect DEF Ending
<1>6. CASE Drain
  <2>1. pc = "drain" /\ inFlight >= 0
      BY <1>0, <1>1, <1>6 DEF Drain, Ending
  <2> QED
      BY <1>0, <1>6, <2>1 DEF Drain, Ending
<1>7. CASE WaitForAllAcks \/ WaitTimeout
    BY <1>0, <1>7 DEF WaitForAllAcks, WaitTimeout, AllAcked, Ending
<1>8. CASE Stop \/ Join \/ Close
    BY <1>0, <1>8 DEF Stop, Join, Close, Ending
<1>9. CASE Decrement
  <2>1. pc \in Ending => inFlight >= 1
      BY <1>1, <1>9 DEF Decrement
  <2>2. pc \notin {"stop", "join", "close", "done"}
      BY <1>0, <2>1 DEF Ending
  <2> QED
      BY <1>0, <1>9, <2>2 DEF Decrement
<1>10. CASE Apply
  <2>1. pc # "done"
      BY <1>10 DEF Apply, IInv, ControlInv
  <2> QED
      BY <1>0, <1>10, <2>1 DEF Apply
<1>11. CASE Release
    BY <1>0, <1>11, ReleaseEffect
<1>12. CASE Notify
    BY <1>0, <1>12, NotifyEffect DEF Ending
<1>13. CASE Crash
    BY <1>0, <1>13 DEF Crash, Ending
<1>14. CASE Poll \/ Receive \/ Clear \/ Serve \/ Break \/ UNCHANGED vars
    BY <1>0, <1>14 DEF Poll, Receive, Clear, Serve, Break, vars
<1> QED
    BY <1>2, <1>3, <1>4, <1>5, <1>6, <1>7, <1>8, <1>9, <1>10, <1>11, <1>12, <1>13, <1>14
    DEF Next, Main, AckThread, Finished

(* Without trouble only an answer takes a block off its way. *)
LEMMA WaitingKept ==
    ASSUME IInv, [Next]_vars, ~trouble', NEW b \in Blocks, Waiting(b)
    PROVE  Waiting(b)' \/ (Apply /\ b = msg.b)
<1> USE DEF mainVars, statVars, ackVars, netVars
<1>0. Len(up) \in Nat /\ Len(down) \in Nat
    BY NetFacts DEF IInv
<1>1. CASE UNCHANGED <<up, down>> /\ (apc = "apply" => apc' = apc /\ msg' = msg)
    BY <1>1 DEF Waiting, InNet
<1>2. CASE Apply
    BY <1>2 DEF Apply, Waiting, InNet
<1>3. CASE Send
  <2>1. down' = down /\ apc' = apc /\ msg' = msg
      BY <1>3 DEF Send
  <2>2. up' = up \/ Appended(up', up, i)
      BY <1>3, SendNet
  <2> QED
      BY <1>0, <2>1, <2>2 DEF Waiting, InNet, Appended
<1>4. CASE Receive
  <2>1. up' = up /\ apc = "select"
      BY <1>4, ReceiveNet DEF Receive
  <2>2. CASE apc' = "apply" /\ Popped(down', down) /\ msg' = down[1]
    <3>1. CASE \E k \in 1 .. Len(down) : down[k].b = b
      <4>1. PICK k \in 1 .. Len(down) : down[k].b = b
          BY <3>1
      <4>2. CASE k = 1
          BY <2>2, <4>1, <4>2 DEF Waiting
      <4>3. CASE k # 1
        <5>1. k - 1 \in 1 .. Len(down') /\ down'[k - 1] = down[k]
            BY <1>0, <2>2, <4>3 DEF Popped
        <5> QED
            BY <4>1, <5>1 DEF Waiting, InNet
      <4> QED
          BY <4>2, <4>3
    <3>2. CASE \E k \in 1 .. Len(up) : up[k] = b
        BY <2>1, <3>2 DEF Waiting, InNet
    <3> QED
        BY <2>1, <3>1, <3>2 DEF Waiting, InNet
  <2>3. CASE apc' \in {"poll", "lost"} /\ UNCHANGED <<down, msg>>
      BY <2>1, <2>3 DEF Waiting, InNet
  <2> QED
      BY <1>4, <2>2, <2>3, ReceiveNet
<1>5. CASE Serve
  <2>1. apc' = apc /\ msg' = msg
      BY <1>5 DEF Serve
  <2>2. Popped(up', up) /\ \E ok \in BOOLEAN : Appended(down', down, [b |-> up[1], ok |-> ok])
      BY <1>5, ServeNet
  <2>3. CASE \E k \in 1 .. Len(up) : up[k] = b
    <3>1. PICK k \in 1 .. Len(up) : up[k] = b
        BY <2>3
    <3>2. CASE k = 1
      <4>1. Len(down) + 1 \in 1 .. Len(down') /\ down'[Len(down) + 1].b = up[1]
          BY <1>0, <2>2 DEF Appended
      <4> QED
          BY <3>1, <3>2, <4>1 DEF Waiting, InNet
    <3>3. CASE k # 1
      <4>1. k - 1 \in 1 .. Len(up') /\ up'[k - 1] = up[k]
          BY <1>0, <2>2, <3>3 DEF Popped
      <4> QED
          BY <3>1, <4>1 DEF Waiting, InNet
    <3> QED
        BY <3>2, <3>3
  <2>4. CASE \E k \in 1 .. Len(down) : down[k].b = b
    <3>1. PICK k \in 1 .. Len(down) : down[k].b = b
        BY <2>4
    <3>2. k \in 1 .. Len(down') /\ down'[k] = down[k]
        BY <1>0, <2>2 DEF Appended
    <3> QED
        BY <3>1, <3>2 DEF Waiting, InNet
  <2>5. CASE apc = "apply" /\ msg.b = b
      BY <2>1, <2>5 DEF Waiting
  <2> QED
      BY <2>3, <2>4, <2>5 DEF Waiting, InNet
<1>6. CASE Break
    BY <1>6 DEF Break
<1>7. CASE Acquire \/ AcquireTimeout
    BY <1>1, <1>7, AcquireEffect
<1>8. CASE Release
    BY <1>1, <1>8, ReleaseEffect
<1>9. CASE Notify
    BY <1>1, <1>9, NotifyEffect
<1> QED
    BY <1>1, <1>2, <1>3, <1>4, <1>5, <1>6, <1>7, <1>8, <1>9 DEF Next, Main, AckThread,
       Finished, Connect, Open, LoopTop, DryBlock, Doze, Tag, Prepare, Count, Trim, Drain,
       WaitForAllAcks, WaitTimeout, Stop, Join, Close, Poll, Clear, Decrement, Crash, Racing,
       vars, IInv, ControlInv

(* How main comes to leave a block behind. *)
LEMMA BlockStep ==
    ASSUME IInv, [Next]_vars, ~trouble', NEW b \in Blocks,
           b < i' \/ (b = i' /\ pc' \in {"count", "trim"})
    PROVE  \/ b < i \/ (b = i /\ pc \in {"count", "trim"})
           \/ b = i /\ (Send \/ DryBlock)
<1> USE DEF mainVars, statVars, ackVars, netVars
<1>0. b \in Nat /\ i \in Nat
    BY DEF Blocks, IInv, Kinds
<1>1. CASE UNCHANGED <<i, pc>>
    BY <1>1
<1>2. CASE Acquire \/ AcquireTimeout
    BY <1>2, AcquireEffect
<1>3. CASE Notify
    BY <1>3, NotifyEffect
<1>4. CASE DryBlock \/ Trim \/ Prepare
    BY <1>0, <1>4 DEF DryBlock, Trim, Prepare
<1>5. CASE Tag \/ Send \/ Count \/ Crash
    BY <1>0, <1>5 DEF Tag, Send, Count, Crash
<1>6. CASE Connect \/ Open \/ LoopTop \/ Doze \/ Drain \/ WaitForAllAcks \/ WaitTimeout
    BY <1>6 DEF Connect, Open, LoopTop, Doze, Drain, WaitForAllAcks, WaitTimeout
<1>7. CASE Stop \/ Join \/ Close
    BY <1>7 DEF Stop, Join, Close
<1> QED
    BY <1>1, <1>2, <1>3, <1>4, <1>5, <1>6, <1>7 DEF Next, Main, AckThread, Finished, Poll,
       Receive, Apply, Release, Clear, Decrement, Serve, Break, vars

(* Every block so far is acknowledged or on its way. *)
LEMMA CleanBlocksKeep ==
    ASSUME IInv, [Next]_vars, ~trouble'
    PROVE  CleanBlocks'
<1> SUFFICES ASSUME NEW b \in Blocks, b < i' \/ (b = i' /\ pc' \in {"count", "trim"})
             PROVE  ack'[b] = "Acknowledged" \/ Waiting(b)'
    BY DEF CleanBlocks
<1>0. ~trouble /\ CleanBlocks /\ CleanFlags /\ CleanAnswers /\ ack \in [Blocks -> Statuses]
    BY CleanFlagsKeep DEF IInv, CleanInv, Kinds
<1>1. CASE b < i \/ (b = i /\ pc \in {"count", "trim"})
  <2>1. CASE ack[b] = "Acknowledged"
    <3>1. ~Unanswered(b)
        BY <2>1 DEF IInv, AnswerInv
    <3> QED
        BY <2>1, <3>1, ChangedState
  <2>2. CASE Waiting(b)
    <3>1. CASE Apply /\ b = msg.b
        BY <1>0, <3>1 DEF Apply, CleanAnswers
    <3> QED
        BY <2>2, <3>1, WaitingKept
  <2> QED
      BY <1>0, <1>1, <2>1, <2>2 DEF CleanBlocks
<1>2. CASE Send /\ b = i
  <2>1. pc = "send" /\ ~dry /\ server
      BY <1>0, <1>2 DEF Send, CleanFlags, IInv, ControlInv, Looping
  <2>2. up' = Append(up, i)
      BY <1>2, <2>1 DEF Send
  <2>3. Appended(up', up, i) /\ Len(up) \in Nat
      BY <1>2, <2>2, AppendIsAppended, InHand, NetFacts, <2>1 DEF IInv, NetKinds, Looping
  <2>4. Len(up) + 1 \in 1 .. Len(up') /\ up'[Len(up) + 1] = i
      BY <2>3 DEF Appended
  <2> QED
      BY <1>2, <2>4 DEF Waiting, InNet
<1>3. CASE DryBlock /\ b = i
    BY <1>0, <1>3 DEF DryBlock
<1> QED
    BY <1>1, <1>2, <1>3, BlockStep

(* Every step keeps a run without trouble complete. *)
LEMMA CleanKeeps == IInv /\ [Next]_vars => CleanInv'
  BY CleanFlagsKeep, CleanAnswersKeep, CleanCountsKeep, CleanBlocksKeep DEF CleanInv

-----------------------------------------------------------------------------
(* What follows from the invariant. *)

(* TypeOK, with the bounds of the counters. *)
LEMMA IInvType == IInv => TypeOK
<1> SUFFICES ASSUME IInv PROVE TypeOK
    OBVIOUS
<1>0. Kinds /\ ControlInv /\ StatInv /\ BoundInv /\ NetKinds
    BY DEF IInv
<1>1. Len(up) \in Nat /\ Len(down) \in Nat
    BY NetFacts DEF IInv
<1>2. Room <= N /\ Load <= Room /\ sent <= N /\ Room \in Int
    BY <1>0 DEF Kinds, StatInv, Room, ControlInv, Looping
<1>3. /\ acked \in Nat /\ failed \in Nat /\ skipped \in Nat /\ sent \in Nat
    BY <1>0 DEF Kinds
<1>4. acked \in 0 .. N /\ failed \in 0 .. N /\ skipped \in 0 .. N /\ sent \in 0 .. N
    BY <1>1, <1>2, <1>3 DEF Load
<1> QED
    BY <1>0, <1>4 DEF Kinds, TypeOK, NetKinds, BoundInv, Answers

(* Every message, every answer and the one in hand has a slot of its own. *)
LEMMA IInvWindow == IInv => WindowBound
<1> SUFFICES ASSUME IInv PROVE WindowBound
    OBVIOUS
<1> DEFINE h == IF apc \in {"apply", "release"} THEN 1 ELSE 0
           L == h + Len(down) + Len(up)
           Block(k) == IF k <= h THEN msg.b
                       ELSE IF k <= h + Len(down) THEN down[k - h].b
                       ELSE up[k - h - Len(down)]
           home == [k \in 1 .. L |-> CHOOSE s \in Slots : Home(Block(k), s)]
<1>0. Len(up) \in Nat /\ Len(down) \in Nat /\ h \in {0, 1}
    BY NetFacts DEF IInv
<1>1. ASSUME NEW k \in 1 .. L PROVE Block(k) \in Blocks /\ OnWay(Block(k))
  <2>1. CASE k <= h
    <3>1. h = 1 /\ Handling
        BY <1>0, <2>1 DEF Handling
    <3> QED
        BY <2>1, <3>1 DEF IInv, ControlInv, OnWay
  <2>2. CASE k > h /\ k <= h + Len(down)
    <3>1. k - h \in 1 .. Len(down) /\ Block(k) = down[k - h].b
        BY <1>0, <2>2
    <3> QED
        BY <3>1, NetFacts DEF IInv, OnWay, InNet
  <2>3. CASE k > h + Len(down)
    <3>1. k - h - Len(down) \in 1 .. Len(up) /\ Block(k) = up[k - h - Len(down)]
        BY <1>0, <2>3
    <3> QED
        BY <3>1, NetFacts DEF IInv, OnWay, InNet
  <2> QED
      BY <1>0, <2>1, <2>2, <2>3
<1>2. ASSUME NEW j \in 1 .. L, NEW k \in 1 .. L, j < k PROVE Block(j) < Block(k)
  <2>0. OrderInv
      BY DEF IInv
  <2>1. CASE j <= h
    <3>1. h = 1 /\ Handling /\ k > h /\ Block(j) = msg.b
        BY <1>0, <1>2, <2>1 DEF Handling
    <3>2. CASE k <= h + Len(down)
      <4>1. k - h \in 1 .. Len(down) /\ Block(k) = down[k - h].b
          BY <1>0, <3>1, <3>2
      <4> QED
          BY <2>0, <3>1, <4>1 DEF OrderInv, HandOrder
    <3>3. CASE k > h + Len(down)
      <4>1. k - h - Len(down) \in 1 .. Len(up) /\ Block(k) = up[k - h - Len(down)]
          BY <1>0, <3>3
      <4> QED
          BY <2>0, <3>1, <4>1 DEF OrderInv, HandOrder
    <3> QED
        BY <1>0, <3>2, <3>3
  <2>2. CASE j > h /\ k <= h + Len(down)
    <3>1. /\ j - h \in 1 .. Len(down) /\ Block(j) = down[j - h].b
          /\ k - h \in 1 .. Len(down) /\ Block(k) = down[k - h].b
          /\ j - h < k - h
        BY <1>0, <1>2, <2>2
    <3> QED
        BY <2>0, <3>1 DEF OrderInv, DownOrder
  <2>3. CASE j > h /\ j <= h + Len(down) /\ k > h + Len(down)
    <3>1. /\ j - h \in 1 .. Len(down) /\ Block(j) = down[j - h].b
          /\ k - h - Len(down) \in 1 .. Len(up) /\ Block(k) = up[k - h - Len(down)]
        BY <1>0, <2>3
    <3> QED
        BY <2>0, <3>1 DEF OrderInv, CrossOrder
  <2>4. CASE j > h + Len(down)
    <3>1. /\ j - h - Len(down) \in 1 .. Len(up) /\ Block(j) = up[j - h - Len(down)]
          /\ k - h - Len(down) \in 1 .. Len(up) /\ Block(k) = up[k - h - Len(down)]
          /\ j - h - Len(down) < k - h - Len(down)
        BY <1>0, <1>2, <2>4
    <3> QED
        BY <2>0, <3>1 DEF OrderInv, UpOrder
  <2> QED
      BY <1>0, <2>1, <2>2, <2>3, <2>4
<1> HIDE DEF Block, L
<1>3. \A k \in 1 .. L : home[k] \in Slots /\ Home(Block(k), home[k])
    BY <1>1 DEF IInv, HomeInv
<1> HIDE DEF home
<1>4. home \in [1 .. L -> Slots]
    BY <1>3 DEF home
<1>5. ASSUME NEW j \in 1 .. L, NEW k \in 1 .. L, j # k PROVE home[j] # home[k]
  <2>0. L \in Int /\ j \in Int /\ k \in Int
      BY <1>0 DEF L
  <2>1. Block(j) # Block(k)
    <3>1. Block(j) \in Nat /\ Block(k) \in Nat
        BY <1>1 DEF Blocks
    <3>2. j < k \/ k < j
        BY <1>5, <2>0
    <3>3. Block(j) < Block(k) \/ Block(k) < Block(j)
        BY <1>2, <3>2
    <3> QED
        BY <3>1, <3>3
  <2>2. idx[home[j]] = Block(j) /\ idx[home[k]] = Block(k)
      BY <1>3 DEF Home
  <2> QED
      BY <2>1, <2>2
<1>6. L \in Nat /\ IsFiniteSet(1 .. L) /\ Cardinality(1 .. L) = L
  <2>1. L \in Nat
      BY <1>0 DEF L
  <2> QED
      BY <2>1, FS_Interval
<1>7. IsFiniteSet(Slots) /\ Cardinality(Slots) = W
    BY FS_Interval DEF Slots
<1>8. L <= W
  <2> SUFFICES ASSUME W < L PROVE FALSE
      BY <1>6
  <2>1. \E x, y \in 1 .. L : x # y /\ home[x] = home[y]
      BY <1>4, <1>6, <1>7, FS_PigeonHole
  <2> QED
      BY <1>5, <2>1
<1> QED
    BY <1>0, <1>8 DEF L, WindowBound

(* At the end the counters are those of the block states. *)
LEMMA IInvStats == IInv => StatsHonest
<1> SUFFICES ASSUME IInv, pc = "done" PROVE StatsHonest
    BY DEF StatsHonest
<1>1. Len(up) \in Nat /\ Len(down) \in Nat /\ i \in 0 .. N
    BY NetFacts DEF IInv, Kinds
<1>0. acked \in Nat /\ failed \in Nat /\ skipped \in Nat
    BY DEF IInv, Kinds
<1>2. Load <= Room /\ acked = Cardinality(Acknowledged) /\ failed = Cardinality(Refused)
    BY DEF IInv, StatInv
<1>3. Room <= N /\ Room \in Int
    BY <1>1 DEF Room
<1>4. failed + acked + skipped <= N
  <2>1. failed + acked + skipped <= Load /\ Load \in Int
      BY <1>0, <1>1 DEF Load
  <2> QED
      BY <1>0, <1>2, <1>3, <2>1
<1> QED
    BY <1>2, <1>4 DEF StatsHonest, Acknowledged, Refused

(* With a zero count no slot is in use, so no block is on its way. *)
LEMMA IInvClean == IInv => CleanRunComplete
<1> SUFFICES ASSUME IInv, pc = "done", ~trouble PROVE CleanRunComplete
    BY DEF CleanRunComplete
<1>0. CleanCounts /\ CleanVerdict /\ CleanBlocks
    BY DEF IInv, CleanInv
<1>1. i = N /\ sent = N /\ inFlight = 0 /\ ret /\ saved = ack
    BY <1>0 DEF CleanCounts, CleanVerdict, Ending, IInv, Kinds
<1>2. Used = {}
  <2>1. IsFiniteSet(Used) /\ Cardinality(Used) \in Nat
      BY FiniteParts DEF Used
  <2>2. inFlight >= Cardinality(Used)
      BY <2>1 DEF IInv, InFlightExact, Used, Filling
  <2> QED
      BY <1>1, <2>1, <2>2, FS_EmptySet
<1>3. ASSUME NEW b \in Blocks PROVE ack[b] = "Acknowledged"
  <2>1. b \in Nat /\ b < N /\ b # N
      BY DEF Blocks
  <2>2. ASSUME Waiting(b) PROVE FALSE
    <3>1. OnWay(b)
        BY <2>2 DEF Waiting, OnWay, Handling
    <3>2. PICK s \in Slots : Home(b, s)
        BY <3>1 DEF IInv, HomeInv
    <3>3. inUse[s]
        BY <1>1, <2>1, <3>2 DEF Home
    <3> QED
        BY <1>2, <3>3 DEF Used
  <2> QED
      BY <1>0, <1>1, <2>1, <2>2 DEF CleanBlocks
<1> QED
    BY <1>1, <1>3 DEF CleanRunComplete

-----------------------------------------------------------------------------
(* The theorems. *)

(* IInv holds at every moment of a full backup. *)
LEMMA Invariance == Spec => []IInv
<1>1. IInv /\ [Next]_vars => IInv'
    BY KindsKeeps, NetKindsKeeps, ControlKeeps, OrderKeeps, SentKeeps, SlotKeeps,
       NotStolenKeeps, HomeKeeps, InFlightKeeps, BoundKeeps, DozeKeeps, WakeupKeeps,
       AnswerKeeps, StoredKeeps, StatKeeps, CleanKeeps DEF IInv
<1> QED
    BY InitIInv, <1>1, PTL DEF Spec

(* Types: in particular no index leaves the window or the disk, and no     *)
(* counter runs away, whatever the threads and the server do.              *)
THEOREM TypeCorrect == Spec => []TypeOK
  BY Invariance, IInvType, PTL

(* The window bounds the traffic: AcquireSlot hands out no slot whose      *)
(* block may still be on its way.                                          *)
THEOREM WindowBounded == Spec => []WindowBound
  BY Invariance, IInvWindow, PTL

(* m_inFlightCount never drifts, although two threads keep it without a    *)
(* lock and a block's answer may be subtracted before the block is added.  *)
THEOREM CountExact == Spec => []InFlightExact
<1>1. IInv => InFlightExact
    BY DEF IInv
<1> QED
    BY Invariance, <1>1, PTL

(* ReleaseSlot never frees the slot main is filling.                       *)
THEOREM SlotKept == Spec => []SlotNotStolen
<1>1. IInv => SlotNotStolen
    BY DEF IInv
<1> QED
    BY Invariance, <1>1, PTL

(* main never sleeps in AcquireSlot with a slot free and nobody to wake it. *)
THEOREM NoLostWakeup == Spec => []SlotWakeup
<1>1. IInv => SlotWakeup
    BY DEF IInv
<1> QED
    BY Invariance, <1>1, PTL

(* A block recorded as acknowledged, in memory or in the state file, is    *)
(* whole in the server's image.                                            *)
THEOREM AckedIsStored == Spec => []AckedMeansStored
<1>1. IInv => AckedMeansStored
    BY DEF IInv
<1> QED
    BY Invariance, <1>1, PTL

(* The statistics reported at the end are those of the block states.       *)
THEOREM HonestStatistics == Spec => []StatsHonest
  BY Invariance, IInvStats, PTL

(* A backup without trouble leaves every block acknowledged and saved.     *)
THEOREM CleanRunIsComplete == Spec => []CleanRunComplete
  BY Invariance, IInvClean, PTL

=============================================================================
