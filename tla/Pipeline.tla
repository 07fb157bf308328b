------------------------------ MODULE Pipeline ------------------------------
(***************************************************************************)
(* A full backup of one disk, from the connection to the server to the     *)
(* verdict FullBackup returns (client/BackupEngine.cpp), with the two      *)
(* threads that share the transfer window:                                 *)
(*   - the main thread, in PipelineTransferBlocks, takes a free slot,      *)
(*     reads, hashes and compresses a block into it and sends it without   *)
(*     waiting for the answer;                                             *)
(*   - the ACK thread, in NetworkClient::AckReceiverLoop, receives the     *)
(*     server's answers, records them in the block states, and frees the   *)
(*     slots.                                                              *)
(* The server is external here: it stores or rejects the blocks in the     *)
(* order of the TCP stream and may vanish at any time.                     *)
(*                                                                         *)
(* A step of a thread ends where the other can observe or overtake it: at  *)
(* the window mutex, at an atomic counter, at the socket.                  *)
(***************************************************************************)
EXTENDS Integers, Sequences, FiniteSets

CONSTANTS
    N,          \* blocks of the disk
    W,          \* m_windowSize
    SaveEvery   \* sent blocks between two saves of the state file (100)

ASSUME PipelineAssumption ==
    /\ N \in Nat \ {0}
    /\ W \in Nat \ {0}
    /\ SaveEvery \in Nat \ {0}

Blocks == 0 .. N - 1
Slots == 0 .. W - 1

VARIABLES
    (* the backup *)
    dry,        \* config.DryRun
    pc,         \* where the main thread is
    i,          \* the loop variable
    cur,        \* slotIdx
    ret,        \* what FullBackup returns, once pc = "done"
    (* shared by the threads *)
    inUse,      \* m_window[s].InUse
    idx,        \* m_window[s].BlockIndex
    inFlight,   \* m_inFlightCount
    perr,       \* m_pipelineError
    ack,        \* the acknowledgement status of each block
    saved,      \* what the state file on disk says of each block
    (* statistics *)
    sent,       \* sentCount
    acked,      \* m_ackedCount
    failed,     \* m_failedCount
    skipped,    \* stats.FailedBlocks before m_failedCount is added to it
    (* the ACK thread *)
    apc,        \* where it is
    msg,        \* the answer it is handling
    freed,      \* the slot it is freeing
    running,    \* m_ackReceiverRunning
    (* the network and the server *)
    connected,  \* m_connected
    server,     \* the server holds its end of the connection
    up, down,   \* block messages and answers on their way
    image,      \* what the server's image file holds of each block
    (* history *)
    trouble     \* something failed: a call, the network, the server

mainVars == <<dry, pc, i, cur, ret>>
statVars == <<sent, acked, failed, skipped>>
ackVars == <<apc, msg, freed, running>>
netVars == <<server, up, down, image>>
vars == <<mainVars, inUse, idx, inFlight, perr, ack, saved, statVars, ackVars,
          connected, netVars, trouble>>

NoMsg == [b |-> N, ok |-> FALSE]

Init ==
    /\ dry \in BOOLEAN
    /\ pc = "connect" /\ i = 0 /\ cur = 0 /\ ret = FALSE
    /\ inUse = [s \in Slots |-> FALSE]     \* ResetPipelineWindow
    /\ idx = [s \in Slots |-> 0]
    /\ inFlight = 0 /\ perr = FALSE
    /\ ack = [b \in Blocks |-> "Pending"]  \* InitFullBlocksEmpty
    /\ saved = [b \in Blocks |-> "none"]
    /\ sent = 0 /\ acked = 0 /\ failed = 0 /\ skipped = 0
    /\ apc = "off" /\ msg = NoMsg /\ freed = 0 /\ running = FALSE
    /\ connected = FALSE /\ server = FALSE
    /\ up = <<>> /\ down = <<>>
    /\ image = [b \in Blocks |-> "old"]
    /\ trouble = FALSE

-----------------------------------------------------------------------------
(* The main thread. *)

(* Connect and SendHello, which waits for the server's answer.  A failure   *)
(* ends the backup; the state file is written by Save or by the destructor. *)
Connect ==
    /\ pc = "connect"
    /\ \/ /\ dry
          /\ pc' = "open"
          /\ UNCHANGED <<ret, saved, connected, server, trouble>>
       \/ /\ ~dry
          /\ pc' = "open" /\ connected' = TRUE /\ server' = TRUE
          /\ UNCHANGED <<ret, saved, trouble>>
       \/ /\ ~dry
          /\ pc' = "done" /\ ret' = FALSE /\ saved' = ack
          /\ trouble' = TRUE
          /\ UNCHANGED <<connected, server>>
    /\ UNCHANGED <<dry, i, cur, inUse, idx, inFlight, perr, ack, statVars,
                   ackVars, up, down, image>>

(* CreateFile on the data source; StartAckReceiver.  When the source cannot *)
(* be opened PipelineTransferBlocks returns 0 and FullBackup goes on.       *)
Open ==
    /\ pc = "open"
    /\ \/ /\ pc' = "top"
          /\ apc' = IF dry THEN "off" ELSE "poll"
          /\ running' = ~dry
          /\ UNCHANGED trouble
       \/ /\ pc' = "close" /\ trouble' = TRUE
          /\ UNCHANGED <<apc, running>>
    /\ UNCHANGED <<dry, i, cur, ret, inUse, idx, inFlight, perr, ack, saved,
                   statVars, msg, freed, connected, netVars>>

\* Mutant: the loop runs one block too far.
LoopTopPastEnd ==
    /\ pc = "top"
    /\ pc' = IF i > N \/ perr THEN "drain"
             ELSE IF dry THEN "dry" ELSE "acquire"
    /\ UNCHANGED <<dry, i, cur, ret, inUse, idx, inFlight, perr, ack, saved,
                   statVars, ackVars, connected, netVars, trouble>>

(* The head of the block loop: all blocks done, or an error seen. *)
LoopTop ==
    /\ pc = "top"
    /\ pc' = IF i = N \/ perr THEN "drain"
             ELSE IF dry THEN "dry" ELSE "acquire"
    /\ UNCHANGED <<dry, i, cur, ret, inUse, idx, inFlight, perr, ack, saved,
                   statVars, ackVars, connected, netVars, trouble>>

\* Save on every SaveEvery-th sent block.
SaveOnProgress(n, states) ==
    saved' = IF n % SaveEvery = 0 /\ n > 0 THEN states ELSE saved

(* A dry run reads and hashes the block and records it as acknowledged. *)
DryBlock ==
    /\ pc = "dry"
    /\ \/ /\ ack' = [ack EXCEPT ![i] = "Acknowledged"]
          /\ acked' = acked + 1 /\ sent' = sent + 1
          /\ SaveOnProgress(sent + 1, ack')
          /\ UNCHANGED <<skipped, trouble>>
       \/ /\ skipped' = skipped + 1 /\ trouble' = TRUE
          /\ UNCHANGED <<ack, acked, sent, saved>>
    /\ i' = i + 1 /\ pc' = "top"
    /\ UNCHANGED <<dry, cur, ret, inUse, idx, inFlight, perr, failed, ackVars,
                   connected, netVars>>

\* The mutex m_windowMutex is held by main between a predicate that is false
\* and the sleep, and by the ACK thread while it clears a slot.
MainHoldsMutex == pc \in {"dozeA", "dozeW"}
AckHoldsMutex == apc = "clear"

FreeSlots == {s \in Slots : ~inUse[s]}
Lowest(S) == CHOOSE s \in S : \A t \in S : s <= t

\* The predicates the two waits of the main thread are woken for.
SlotReady == perr \/ FreeSlots # {}
AllAcked == inFlight = 0 \/ perr

\* Mutant: the slot is handed out without being marked in use.
TakeSlotUnmarked ==
    IF perr THEN /\ pc' = "drain"
                 /\ UNCHANGED <<inUse, cur>>
    ELSE /\ cur' = Lowest(FreeSlots)
         /\ UNCHANGED inUse
         /\ pc' = "tag"

\* AcquireSlot after its wait: an error, or the first free slot.
TakeSlot ==
    IF perr THEN /\ pc' = "drain"
                 /\ UNCHANGED <<inUse, cur>>
    ELSE /\ cur' = Lowest(FreeSlots)
         /\ inUse' = [inUse EXCEPT ![cur'] = TRUE]
         /\ pc' = "tag"

(* AcquireSlot, first look; awoken by a notification it looks again. *)
Acquire ==
    /\ pc = "acquire" /\ ~AckHoldsMutex
    /\ IF SlotReady THEN TakeSlot
       ELSE pc' = "dozeA" /\ UNCHANGED <<inUse, cur>>
    /\ UNCHANGED <<dry, i, ret, idx, inFlight, perr, ack, saved, statVars,
                   ackVars, connected, netVars, trouble>>

(* wait_for releases the mutex and sleeps. *)
Doze ==
    /\ pc \in {"dozeA", "dozeW"}
    /\ pc' = IF pc = "dozeA" THEN "asleepA" ELSE "asleepW"
    /\ UNCHANGED <<dry, i, cur, ret, inUse, idx, inFlight, perr, ack, saved,
                   statVars, ackVars, connected, netVars, trouble>>

(* The time of AcquireSlot is up: one last look at the predicate. *)
AcquireTimeout ==
    /\ pc = "asleepA" /\ ~AckHoldsMutex
    /\ IF SlotReady THEN TakeSlot /\ UNCHANGED trouble
       ELSE /\ pc' = "drain" /\ trouble' = TRUE
            /\ UNCHANGED <<inUse, cur>>
    /\ UNCHANGED <<dry, i, ret, idx, inFlight, perr, ack, saved, statVars,
                   ackVars, connected, netVars>>

(* The slot gets its block number, outside the mutex. *)
Tag ==
    /\ pc = "tag"
    /\ idx' = [idx EXCEPT ![cur] = i]
    /\ pc' = "prepare"
    /\ UNCHANGED <<dry, i, cur, ret, inUse, inFlight, perr, ack, saved,
                   statVars, ackVars, connected, netVars, trouble>>

(* Read, hash and compress; a failure frees the slot and skips the block. *)
Prepare ==
    /\ pc = "prepare"
    /\ \/ /\ pc' = "send"
          /\ UNCHANGED <<i, inUse, skipped, trouble>>
       \/ /\ pc' = "top" /\ i' = i + 1
          /\ inUse' = [inUse EXCEPT ![cur] = FALSE]
          /\ skipped' = skipped + 1 /\ trouble' = TRUE
    /\ UNCHANGED <<dry, cur, ret, idx, inFlight, perr, ack, saved, sent, acked,
                   failed, ackVars, connected, netVars>>

(* SendBlockNoWait.  It fails at once when the connection is known to be    *)
(* lost; otherwise when the socket fails or the send times out, and then    *)
(* the message may have got through in spite of it.                         *)
Send ==
    /\ pc = "send"
    /\ \/ /\ connected
          /\ up' = IF server THEN Append(up, i) ELSE up
          /\ pc' = "count"
          /\ UNCHANGED <<inUse, perr, connected, trouble>>
       \/ /\ up' \in IF connected /\ server THEN {up, Append(up, i)} ELSE {up}
          /\ inUse' = [inUse EXCEPT ![cur] = FALSE]
          /\ perr' = TRUE /\ connected' = FALSE /\ trouble' = TRUE
          /\ pc' = "drain"
    /\ UNCHANGED <<dry, i, cur, ret, idx, inFlight, ack, saved, statVars,
                   ackVars, server, down, image>>

(* sentCount++ and m_inFlightCount++, after the block is on its way. *)
Count ==
    /\ pc = "count"
    /\ sent' = sent + 1 /\ inFlight' = inFlight + 1
    /\ pc' = "trim"
    /\ UNCHANGED <<dry, i, cur, ret, inUse, idx, perr, ack, saved, acked,
                   failed, skipped, ackVars, connected, netVars, trouble>>

(* The raw data of the slot is freed, outside the mutex; then the progress  *)
(* report, with its Save.                                                   *)
Trim ==
    /\ pc = "trim"
    /\ SaveOnProgress(sent, ack)
    /\ i' = i + 1 /\ pc' = "top"
    /\ UNCHANGED <<dry, cur, ret, inUse, idx, inFlight, perr, ack, statVars,
                   ackVars, connected, netVars, trouble>>

\* Mutant: the transfer ends without waiting for the last answers.
DrainNoWait ==
    /\ pc = "drain"
    /\ pc' = "stop"
    /\ UNCHANGED <<dry, i, cur, ret, inUse, idx, inFlight, perr, ack, saved,
                   statVars, ackVars, connected, netVars, trouble>>

(* After the loop: is there anything to wait for? *)
Drain ==
    /\ pc = "drain"
    /\ pc' = IF inFlight > 0 /\ ~perr THEN "wait" ELSE "stop"
    /\ UNCHANGED <<dry, i, cur, ret, inUse, idx, inFlight, perr, ack, saved,
                   statVars, ackVars, connected, netVars, trouble>>

(* WaitForAllAcks, first look; and its timeout, with the last one. *)
WaitForAllAcks ==
    /\ pc = "wait" /\ ~AckHoldsMutex
    /\ pc' = IF AllAcked THEN "stop" ELSE "dozeW"
    /\ UNCHANGED <<dry, i, cur, ret, inUse, idx, inFlight, perr, ack, saved,
                   statVars, ackVars, connected, netVars, trouble>>

WaitTimeout ==
    /\ pc = "asleepW" /\ ~AckHoldsMutex
    /\ pc' = "stop"
    /\ trouble' = (trouble \/ ~AllAcked)
    /\ UNCHANGED <<dry, i, cur, ret, inUse, idx, inFlight, perr, ack, saved,
                   statVars, ackVars, connected, netVars>>

\* Mutant: the flag that ends the ACK thread's loop is not cleared.
StopFlagForgotten ==
    /\ pc = "stop"
    /\ pc' = IF dry THEN "close" ELSE "join"
    /\ UNCHANGED <<dry, i, cur, ret, inUse, idx, inFlight, perr, ack, saved,
                   statVars, ackVars, connected, netVars, trouble>>

(* StopAckReceiver: clear the flag, join the thread. *)
Stop ==
    /\ pc = "stop"
    /\ running' = FALSE
    /\ pc' = IF dry THEN "close" ELSE "join"
    /\ UNCHANGED <<dry, i, cur, ret, inUse, idx, inFlight, perr, ack, saved,
                   statVars, apc, msg, freed, connected, netVars, trouble>>

Join ==
    /\ pc = "join" /\ apc = "exit"
    /\ pc' = "close"
    /\ UNCHANGED <<dry, i, cur, ret, inUse, idx, inFlight, perr, ack, saved,
                   statVars, ackVars, connected, netVars, trouble>>

(* CloseConnection, Save, and the verdict. *)
Close ==
    /\ pc = "close"
    /\ connected' = FALSE
    /\ saved' = ack
    /\ ret' = TRUE /\ pc' = "done"
    /\ UNCHANGED <<dry, i, cur, inUse, idx, inFlight, perr, ack, statVars,
                   ackVars, netVars, trouble>>

Main ==
    \/ Connect \/ Open \/ LoopTop \/ DryBlock
    \/ Acquire \/ Doze \/ AcquireTimeout
    \/ Tag \/ Prepare \/ Send \/ Count \/ Trim
    \/ Drain \/ WaitForAllAcks \/ WaitTimeout
    \/ Stop \/ Join \/ Close

-----------------------------------------------------------------------------
(* The ACK thread. *)

(* The loop condition. *)
Poll ==
    /\ apc = "poll"
    /\ apc' = IF running THEN "select" ELSE "exit"
    /\ UNCHANGED <<mainVars, inUse, idx, inFlight, perr, ack, saved, statVars,
                   msg, freed, running, connected, netVars, trouble>>

(* select and the two RecvAll: an answer, nothing within a second, or the   *)
(* end of the connection, which the callback turns into m_pipelineError.    *)
Receive ==
    /\ apc = "select"
    /\ \/ /\ down # <<>>
          /\ msg' = Head(down) /\ down' = Tail(down)
          /\ apc' = "apply"
          /\ UNCHANGED <<connected, perr>>
       \/ /\ down = <<>> /\ server
          /\ apc' = "poll"
          /\ UNCHANGED <<msg, down, connected, perr>>
       \/ /\ down = <<>> /\ ~server
          /\ connected' = FALSE /\ perr' = TRUE
          /\ apc' = "lost"
          /\ UNCHANGED <<msg, down>>
    /\ UNCHANGED <<mainVars, inUse, idx, inFlight, ack, saved, statVars,
                   freed, running, server, up, image, trouble>>

\* Mutant: the status of the answer is ignored.
ApplyAnyStatus ==
    /\ apc = "apply"
    /\ ack' = [ack EXCEPT ![msg.b] = "Acknowledged"]
    /\ acked' = acked + 1
    /\ apc' = "release"
    /\ UNCHANGED <<mainVars, inUse, idx, inFlight, perr, saved, sent, failed,
                   skipped, msg, freed, running, connected, netVars, trouble>>

\* Mutant: an error answer is logged and not counted.
ApplyFailedUncounted ==
    /\ apc = "apply"
    /\ ack' = [ack EXCEPT ![msg.b] = IF msg.ok THEN "Acknowledged" ELSE "Failed"]
    /\ acked' = IF msg.ok THEN acked + 1 ELSE acked
    /\ apc' = "release"
    /\ UNCHANGED <<mainVars, inUse, idx, inFlight, perr, saved, sent, failed,
                   skipped, msg, freed, running, connected, netVars, trouble>>

(* The callback records the answer. *)
Apply ==
    /\ apc = "apply"
    /\ ack' = [ack EXCEPT ![msg.b] = IF msg.ok THEN "Acknowledged" ELSE "Failed"]
    /\ IF msg.ok THEN acked' = acked + 1 /\ UNCHANGED failed
                 ELSE failed' = failed + 1 /\ UNCHANGED acked
    /\ apc' = "release"
    /\ UNCHANGED <<mainVars, inUse, idx, inFlight, perr, saved, sent, skipped,
                   msg, freed, running, connected, netVars, trouble>>

SlotsOf(b) == {s \in Slots : inUse[s] /\ idx[s] = b}

\* Mutant: the window is searched from its end.
PickLast(S) == CHOOSE s \in S : \A t \in S : s >= t

\* ReleaseSlot takes the first slot in use with the block's number.
Pick(S) == CHOOSE s \in S : \A t \in S : s <= t

\* Mutant: a slot is released without taking the mutex.
MutexFreeAlways == TRUE

MutexFree == ~MainHoldsMutex

\* Mutant: m_inFlightCount-- whatever ReleaseSlot returns.
ReleaseUnchecked ==
    /\ apc = "release" /\ MutexFree
    /\ IF SlotsOf(msg.b) = {}
       THEN apc' = "dec" /\ UNCHANGED <<inUse, freed>>
       ELSE /\ freed' = Pick(SlotsOf(msg.b))
            /\ inUse' = [inUse EXCEPT ![freed'] = FALSE]
            /\ apc' = "clear"
    /\ UNCHANGED <<mainVars, idx, inFlight, perr, ack, saved, statVars, msg,
                   running, connected, netVars, trouble>>

(* ReleaseSlot up to InUse = false; the mutex stays held until the slot's   *)
(* buffers are freed.  No slot may be found (its send failed after all).    *)
Release ==
    /\ apc = "release" /\ MutexFree
    /\ IF SlotsOf(msg.b) = {}
       THEN apc' = "notify" /\ UNCHANGED <<inUse, freed>>
       ELSE /\ freed' = Pick(SlotsOf(msg.b))
            /\ inUse' = [inUse EXCEPT ![freed'] = FALSE]
            /\ apc' = "clear"
    /\ UNCHANGED <<mainVars, idx, inFlight, perr, ack, saved, statVars, msg,
                   running, connected, netVars, trouble>>

Clear ==
    /\ apc = "clear"
    /\ apc' = "dec"
    /\ UNCHANGED <<mainVars, inUse, idx, inFlight, perr, ack, saved, statVars,
                   msg, freed, running, connected, netVars, trouble>>

(* m_inFlightCount--, after the mutex is released. *)
Decrement ==
    /\ apc = "dec"
    /\ inFlight' = inFlight - 1
    /\ apc' = "notify"
    /\ UNCHANGED <<mainVars, inUse, idx, perr, ack, saved, statVars, msg, freed,
                   running, connected, netVars, trouble>>

(* m_windowCv.notify_all, without the mutex: it wakes main only if main is  *)
(* asleep already.  After the loss of the connection the thread ends.       *)
Notify ==
    /\ apc \in {"notify", "lost"}
    /\ pc' = CASE pc = "asleepA" -> "acquire"
               [] pc = "asleepW" -> "wait"
               [] OTHER          -> pc
    /\ apc' = IF apc = "lost" THEN "exit" ELSE "poll"
    /\ msg' = NoMsg
    /\ UNCHANGED <<dry, i, cur, ret, inUse, idx, inFlight, perr, ack, saved,
                   statVars, freed, running, connected, netVars, trouble>>

AckThread ==
    \/ Poll \/ Receive \/ Apply \/ Release \/ Clear \/ Decrement \/ Notify

-----------------------------------------------------------------------------
(* Both threads inside the same vector (main frees BlockData outside the    *)
(* mutex while ReleaseSlot frees it): undefined behaviour, here a crash.    *)

Racing == pc = "trim" /\ apc = "clear" /\ freed = cur

Crash ==
    /\ Racing
    /\ pc' = "crashed" /\ apc' = "crashed"
    /\ UNCHANGED <<dry, i, cur, ret, inUse, idx, inFlight, perr, ack, saved,
                   statVars, msg, freed, running, connected, netVars, trouble>>

-----------------------------------------------------------------------------
(* The server and the network (external). *)

(* The next block is written to the image and acknowledged; or it is        *)
(* refused, in which case a short write may have torn the image's block.    *)
Serve ==
    /\ server /\ up # <<>>
    /\ up' = Tail(up)
    /\ \/ /\ image' = [image EXCEPT ![Head(up)] = "new"]
          /\ down' = Append(down, [b |-> Head(up), ok |-> TRUE])
          /\ UNCHANGED trouble
       \/ /\ \E c \in {"old", "torn"} :
                 image' = [image EXCEPT ![Head(up)] = c]
          /\ down' = Append(down, [b |-> Head(up), ok |-> FALSE])
          /\ trouble' = TRUE
    /\ UNCHANGED <<mainVars, inUse, idx, inFlight, perr, ack, saved, statVars,
                   ackVars, connected, server>>

(* The connection breaks: blocks not yet read and a tail of the answers are *)
(* lost.                                                                    *)
Break ==
    /\ server
    /\ server' = FALSE /\ up' = <<>>
    /\ \E n \in 0 .. Len(down) : down' = SubSeq(down, 1, n)
    /\ trouble' = TRUE
    /\ UNCHANGED <<mainVars, inUse, idx, inFlight, perr, ack, saved, statVars,
                   ackVars, connected, image>>

Finished == pc \in {"done", "crashed"} /\ UNCHANGED vars

Next == Main \/ AckThread \/ Crash \/ Serve \/ Break \/ Finished

Spec == Init /\ [][Next]_vars

\* The operating system runs both threads, and every wait of main and every
\* socket call has a timeout.  Nothing is assumed of the server.
FairSpec == Spec /\ WF_vars(Main) /\ WF_vars(AckThread)

-----------------------------------------------------------------------------
(* Properties. *)

Statuses == {"Pending", "Acknowledged", "Failed"}
MainSteps == {"connect", "open", "top", "dry", "acquire", "dozeA", "asleepA",
              "tag", "prepare", "send", "count", "trim", "drain", "wait",
              "dozeW", "asleepW", "stop", "join", "close", "done", "crashed"}
AckSteps == {"off", "poll", "select", "apply", "release", "clear", "dec",
             "notify", "lost", "exit", "crashed"}

(* Types of the backup's variables. *)
TypeOK ==
    /\ dry \in BOOLEAN /\ pc \in MainSteps /\ i \in 0 .. N /\ cur \in Slots
    /\ ret \in BOOLEAN
    /\ inUse \in [Slots -> BOOLEAN] /\ idx \in [Slots -> Blocks]
    /\ inFlight \in -1 .. W + 1 /\ perr \in BOOLEAN
    /\ ack \in [Blocks -> Statuses]
    /\ saved \in [Blocks -> Statuses \cup {"none"}]
    /\ sent \in 0 .. N /\ acked \in 0 .. N /\ failed \in 0 .. N /\ skipped \in 0 .. N
    /\ apc \in AckSteps /\ running \in BOOLEAN
    /\ msg \in [b : 0 .. N, ok : BOOLEAN] /\ freed \in Slots
    /\ connected \in BOOLEAN /\ server \in BOOLEAN
    /\ up \in Seq(Blocks) /\ down \in Seq([b : Blocks, ok : BOOLEAN])
    /\ image \in [Blocks -> {"old", "new", "torn"}]
    /\ trouble \in BOOLEAN

\* The main thread has a slot whose block it has not counted as in flight.
Filling == pc \in {"tag", "prepare", "send", "count"}

(* The window bounds the traffic: block messages and answers in the network, *)
(* with the answer the ACK thread is handling, never outnumber the slots     *)
(* AcquireSlot hands out.                                                    *)
WindowBound ==
    Len(up) + Len(down) + (IF apc \in {"apply", "release"} THEN 1 ELSE 0) <= W

(* m_inFlightCount, kept by two threads without a lock, never drifts: it is  *)
(* the number of slots in use, but for the block main is filling and the     *)
(* slot the ACK thread has just freed.  In particular main's final wait for  *)
(* a zero count waits for exactly the blocks not yet answered, although an   *)
(* answer may be subtracted before its block is added.                       *)
InFlightExact ==
    pc # "crashed" => inFlight = Cardinality({s \in Slots : inUse[s]})
                 - (IF Filling THEN 1 ELSE 0)
                 + (IF apc \in {"clear", "dec"} THEN 1 ELSE 0)

(* The slot main is filling is never freed under it by an answer to the      *)
(* block that had the slot before, although its number is set after the slot *)
(* is taken and outside the mutex.                                           *)
SlotNotStolen == pc \in {"tag", "prepare", "send"} => inUse[cur]

(* A freed slot always reaches a waiting main thread: when main sleeps in    *)
(* AcquireSlot and a slot is free, the ACK thread has the notification still *)
(* to come.                                                                  *)
SlotWakeup ==
    pc = "asleepA" /\ FreeSlots # {} => apc \in {"clear", "dec", "notify"}

(* A block the client records as acknowledged, in memory or in the state     *)
(* file, is whole in the server's image, at every moment of a backup that is *)
(* not a dry run.                                                            *)
AckedMeansStored ==
    ~dry => \A b \in Blocks :
                "Acknowledged" \in {ack[b], saved[b]} => image[b] = "new"

(* The statistics the backup reports are the block states it leaves: as many *)
(* acknowledged blocks as counted, and failed and skipped blocks together    *)
(* make up the failures.                                                     *)
StatsHonest ==
    pc = "done" =>
        /\ acked = Cardinality({b \in Blocks : ack[b] = "Acknowledged"})
        /\ failed = Cardinality({b \in Blocks : ack[b] = "Failed"})
        /\ failed + acked + skipped <= N

(* Nothing is left behind in a run without trouble: all blocks are sent,     *)
(* acknowledged and saved as such, and no slot or counter is left over.      *)
CleanRunComplete ==
    pc = "done" /\ ~trouble =>
        /\ ret /\ sent = N /\ inFlight = 0
        /\ \A b \in Blocks : saved[b] = "Acknowledged"

(* A full backup always comes to an end, whatever the server does or fails   *)
(* to do: no lost notification and no silent server blocks it for good.      *)
Terminates == <>(pc \in {"done", "crashed"})

(* "true = all succeeded" (BackupEngine.h on Run): when FullBackup returns   *)
(* true every block is acknowledged.                                         *)
SuccessMeansAllAcked ==
    pc = "done" /\ ret => \A b \in Blocks : ack[b] = "Acknowledged"

=============================================================================
