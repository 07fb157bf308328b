------------------------------ MODULE Transfer ------------------------------
(***************************************************************************)
(* The synchronous transfer of an incremental backup: TransferBlocks in    *)
(* client/BackupEngine.cpp over NetworkClient::SendBlock, which sends one  *)
(* block and waits for its answer, with a timeout on every socket call and *)
(* a number of retries per block.                                          *)
(*                                                                         *)
(* An answer names its block, but ReceiveAck does not compare the name: it *)
(* takes the next answer on the stream for the one it waits for.  That a   *)
(* late answer is never mistaken for another block's rests on the client   *)
(* giving up the connection at the first timeout.                          *)
(***************************************************************************)
EXTENDS Integers, Sequences, FiniteSets

CONSTANTS
    N,           \* blocks that GetPendingBlocks returns, in order
    RetryCount,  \* config.RetryCount
    SaveEvery    \* sent blocks between two saves of the state file (100)

ASSUME TransferAssumption ==
    /\ N \in Nat \ {0}
    /\ RetryCount \in Nat
    /\ SaveEvery \in Nat \ {0}

Blocks == 0 .. N - 1

VARIABLES
    dry,        \* config.DryRun
    pc,         \* where the transfer is: "block", "try", "recv", "result", "done"
    i,          \* the block
    retry,      \* retries of this block so far
    res,        \* what SendBlock returned
    ack,        \* the acknowledgement status of each block
    saved,      \* what the state file on disk says of each block
    sent,       \* sentCount, and stats.AckedBlocks
    connected,  \* m_connected
    server,     \* the server holds its end of the connection
    up, down,   \* block messages and answers on their way
    image,      \* what the server's image file holds of each block
    tx,         \* history: how often each block has been sent
    trouble     \* history: something failed

netVars == <<server, up, down, image>>
vars == <<dry, pc, i, retry, res, ack, saved, sent, connected, netVars, tx,
          trouble>>

(* The connection is made and the server has answered SendHello. *)
Init ==
    /\ dry \in BOOLEAN
    /\ pc = "block" /\ i = 0 /\ retry = 0 /\ res = FALSE
    /\ ack = [b \in Blocks |-> "Pending"]
    /\ saved = [b \in Blocks |-> "none"]
    /\ sent = 0
    /\ connected = ~dry /\ server = ~dry
    /\ up = <<>> /\ down = <<>>
    /\ image = [b \in Blocks |-> "old"]
    /\ tx = [b \in Blocks |-> 0]
    /\ trouble = FALSE

-----------------------------------------------------------------------------
(* The transfer loop. *)

\* Mutant: the last pending block is left out.
BlockButLast ==
    /\ pc = "block"
    /\ \/ /\ i = N - 1
          /\ pc' = "done"
          /\ UNCHANGED <<i, retry, trouble>>
       \/ /\ i < N - 1
          /\ pc' = "try" /\ retry' = 0
          /\ UNCHANGED <<i, trouble>>
       \/ /\ i < N - 1
          /\ i' = i + 1 /\ trouble' = TRUE
          /\ UNCHANGED <<pc, retry>>
    /\ UNCHANGED <<dry, res, ack, saved, sent, connected, netVars, tx>>

(* Read and compress the next block; when that fails it is skipped. *)
Block ==
    /\ pc = "block"
    /\ \/ /\ i = N
          /\ pc' = "done"
          /\ UNCHANGED <<i, retry, trouble>>
       \/ /\ i < N
          /\ pc' = "try" /\ retry' = 0
          /\ UNCHANGED <<i, trouble>>
       \/ /\ i < N
          /\ i' = i + 1 /\ trouble' = TRUE
          /\ UNCHANGED <<pc, retry>>
    /\ UNCHANGED <<dry, res, ack, saved, sent, connected, netVars, tx>>

(* One attempt: SimulatedAck of a dry run, or the sending half of SendBlock. *)
(* A send that fails may have got through.                                   *)
Try ==
    /\ pc = "try"
    /\ \/ /\ dry
          /\ ack' = [ack EXCEPT ![i] = "Acknowledged"]
          /\ pc' = "result" /\ res' = TRUE
          /\ UNCHANGED <<connected, up, tx, trouble>>
       \/ /\ ~dry /\ connected
          /\ up' = IF server THEN Append(up, i) ELSE up
          /\ tx' = [tx EXCEPT ![i] = @ + 1]
          /\ pc' = "recv"
          /\ UNCHANGED <<ack, res, connected, trouble>>
       \/ /\ ~dry
          /\ up' \in IF connected /\ server THEN {up, Append(up, i)} ELSE {up}
          /\ connected' = FALSE /\ trouble' = TRUE
          /\ pc' = "result" /\ res' = FALSE
          /\ UNCHANGED <<ack, tx>>
    /\ UNCHANGED <<dry, i, retry, saved, sent, server, down, image>>

(* ReceiveAck: the next answer on the stream, whichever block it names. *)
ReceiveAck ==
    /\ pc = "recv" /\ down # <<>>
    /\ res' = Head(down).ok
    /\ down' = Tail(down)
    /\ pc' = "result"
    /\ UNCHANGED <<dry, i, retry, ack, saved, sent, connected, server, up,
                   image, tx, trouble>>

\* Mutant: a timeout leaves the connection in use.
RecvFailsStaysConnected ==
    /\ pc = "recv" /\ down = <<>>
    /\ res' = FALSE /\ trouble' = TRUE
    /\ pc' = "result"
    /\ UNCHANGED <<dry, i, retry, ack, saved, sent, connected, netVars, tx>>

(* RecvAll gives up: no answer within the timeout, or the connection is     *)
(* closed.  Either way the client considers itself disconnected.            *)
RecvFails ==
    /\ pc = "recv" /\ down = <<>>
    /\ connected' = FALSE
    /\ res' = FALSE /\ trouble' = TRUE
    /\ pc' = "result"
    /\ UNCHANGED <<dry, i, retry, ack, saved, sent, netVars, tx>>

\* Mutant: the retry counter is not advanced.
ResultForever ==
    /\ pc = "result"
    /\ ack' = [ack EXCEPT ![i] = IF res THEN "Acknowledged" ELSE "Failed"]
    /\ sent' = IF res THEN sent + 1 ELSE sent
    /\ IF ~res
       THEN pc' = "try" /\ UNCHANGED <<i, retry, saved>>
       ELSE /\ pc' = "block" /\ i' = i + 1
            /\ saved' = IF sent' % SaveEvery = 0 /\ sent' > 0 THEN ack' ELSE saved
            /\ UNCHANGED retry
    /\ UNCHANGED <<dry, res, connected, netVars, tx, trouble>>

\* Mutant: every finished block counts as sent.
ResultCountsFailures ==
    /\ pc = "result"
    /\ ack' = [ack EXCEPT ![i] = IF res THEN "Acknowledged" ELSE "Failed"]
    /\ IF ~res /\ retry < RetryCount
       THEN pc' = "try" /\ retry' = retry + 1 /\ UNCHANGED <<i, saved, sent>>
       ELSE /\ pc' = "block" /\ i' = i + 1 /\ sent' = sent + 1
            /\ saved' = IF sent' % SaveEvery = 0 /\ sent' > 0 THEN ack' ELSE saved
            /\ UNCHANGED retry
    /\ UNCHANGED <<dry, res, connected, netVars, tx, trouble>>

\* Mutant: one retry too many.
ResultOneMoreRetry ==
    /\ pc = "result"
    /\ ack' = [ack EXCEPT ![i] = IF res THEN "Acknowledged" ELSE "Failed"]
    /\ sent' = IF res THEN sent + 1 ELSE sent
    /\ IF ~res /\ retry <= RetryCount
       THEN pc' = "try" /\ retry' = retry + 1 /\ UNCHANGED <<i, saved>>
       ELSE /\ pc' = "block" /\ i' = i + 1
            /\ saved' = IF sent' % SaveEvery = 0 /\ sent' > 0 THEN ack' ELSE saved
            /\ UNCHANGED retry
    /\ UNCHANGED <<dry, res, connected, netVars, tx, trouble>>

(* SetBlockAck, the retry loop, and the Save with every SaveEvery-th block. *)
Result ==
    /\ pc = "result"
    /\ ack' = [ack EXCEPT ![i] = IF res THEN "Acknowledged" ELSE "Failed"]
    /\ sent' = IF res THEN sent + 1 ELSE sent
    /\ IF ~res /\ retry < RetryCount
       THEN pc' = "try" /\ retry' = retry + 1 /\ UNCHANGED <<i, saved>>
       ELSE /\ pc' = "block" /\ i' = i + 1
            /\ saved' = IF sent' % SaveEvery = 0 /\ sent' > 0 THEN ack' ELSE saved
            /\ UNCHANGED retry
    /\ UNCHANGED <<dry, res, connected, netVars, tx, trouble>>

Client == Block \/ Try \/ ReceiveAck \/ RecvFails \/ Result

-----------------------------------------------------------------------------
(* The server and the network (external). *)

(* The next block is written to the image and acknowledged, or refused, in  *)
(* which case a short write may have torn the image's block.                *)
Serve ==
    /\ server /\ up # <<>>
    /\ up' = Tail(up)
    /\ \/ /\ image' = [image EXCEPT ![Head(up)] = "new"]
          /\ down' = Append(down, [b |-> Head(up), ok |-> TRUE])
          /\ UNCHANGED trouble
       \/ /\ \E c \in {image[Head(up)], "torn"} :
                 image' = [image EXCEPT ![Head(up)] = c]
          /\ down' = Append(down, [b |-> Head(up), ok |-> FALSE])
          /\ trouble' = TRUE
    /\ UNCHANGED <<dry, pc, i, retry, res, ack, saved, sent, connected, server, tx>>

(* The connection breaks: blocks not yet read and a tail of the answers are *)
(* lost.                                                                    *)
Break ==
    /\ server
    /\ server' = FALSE /\ up' = <<>>
    /\ \E n \in 0 .. Len(down) : down' = SubSeq(down, 1, n)
    /\ trouble' = TRUE
    /\ UNCHANGED <<dry, pc, i, retry, res, ack, saved, sent, connected, image, tx>>

Finished == pc = "done" /\ UNCHANGED vars

Next == Client \/ Serve \/ Break \/ Finished

Spec == Init /\ [][Next]_vars

\* The client runs, and every socket call has a timeout; nothing is assumed
\* of the server.
FairSpec == Spec /\ WF_vars(Client)

-----------------------------------------------------------------------------
(* Properties. *)

Statuses == {"Pending", "Acknowledged", "Failed"}

(* Types of the transfer's variables. *)
TypeOK ==
    /\ dry \in BOOLEAN /\ pc \in {"block", "try", "recv", "result", "done"}
    /\ i \in 0 .. N /\ retry \in 0 .. RetryCount /\ res \in BOOLEAN
    /\ ack \in [Blocks -> Statuses]
    /\ saved \in [Blocks -> Statuses \cup {"none"}]
    /\ sent \in 0 .. N
    /\ connected \in BOOLEAN /\ server \in BOOLEAN
    /\ up \in Seq(Blocks) /\ down \in Seq([b : Blocks, ok : BOOLEAN])
    /\ image \in [Blocks -> {"old", "new", "torn"}]
    /\ tx \in [Blocks -> 0 .. RetryCount + 1]
    /\ trouble \in BOOLEAN

(* No answer is taken for another block's: whenever ReceiveAck can read an   *)
(* answer it is the answer to the block being sent, although nothing         *)
(* compares the two, however late answers arrive and however often a block   *)
(* is retried.                                                               *)
AnswerIsOwn == pc = "recv" /\ down # <<>> => Head(down).b = i /\ Len(down) = 1

(* A block recorded as acknowledged, in memory or in the state file, was     *)
(* written whole to the server's image, and a retry or a late message has    *)
(* not torn it since.                                                        *)
AckedMeansStored ==
    ~dry => \A b \in Blocks :
                "Acknowledged" \in {ack[b], saved[b]} => image[b] = "new"

(* The reported number of acknowledged blocks is the number of blocks left   *)
(* in that state, through all retries.                                       *)
SentCountExact ==
    pc = "block" => sent = Cardinality({b \in Blocks : ack[b] = "Acknowledged"})

(* Without any failure every pending block ends up acknowledged.             *)
CleanRunComplete ==
    pc = "done" /\ ~trouble => \A b \in Blocks : ack[b] = "Acknowledged"

(* The transfer always ends, whatever the server does or fails to do.        *)
Terminates == <>(pc = "done")

=============================================================================
