----------------------------- MODULE BackupCycle -----------------------------
(***************************************************************************)
(* Backup after backup of one disk (BackupEngine::Run and below), against  *)
(* a disk that goes on being written and a driver that comes and goes:     *)
(* which changes are in the server's image, which are still reported by    *)
(* the change bitmap, and which are neither.                               *)
(*                                                                         *)
(* The bitmap is the atomic set ChangeSet promises, and a transferred      *)
(* block is stored or not, as Pipeline and Transfer work out in detail.    *)
(* The content of a block is a value; a hash is the content it is taken    *)
(* of.  A write is marked when HwReadWrite sees it and lands later.        *)
(***************************************************************************)
EXTENDS Integers, FiniteSets

CONSTANTS
    N,         \* blocks of the disk
    ByteBits,  \* bits of a byte of the bitmap (8)
    Data,      \* contents of a block
    None       \* no content: no write under way, no block in the image

ASSUME CycleAssumption ==
    /\ N \in Nat \ {0}
    /\ ByteBits \in Nat \ {0}
    /\ Data # {} /\ None \notin Data

Blocks == 0 .. N - 1

VARIABLES
    (* the machine *)
    vol,      \* first block of the first volume with a snapshot; -1: no volume
    disk,     \* content of each block
    landing,  \* landing[b]: the write of b that was issued and has not landed
    loaded,   \* the driver is loaded
    bits,     \* the blocks its bitmap reports
    (* the server, and the state file *)
    wire,     \* the block on its way to the server: its data, and whether all
              \* writes of it since that was read are reported (history)
    image,    \* what the image file holds of each block; None: nothing whole
    records,  \* the state file has block records
    (* the backup *)
    pc,       \* where it is
    kind,     \* "full" or "inc" (config.UseCbt)
    ret,      \* what the last backup returned
    changed,  \* cbtChanged
    have,     \* the state manager has block records
    snap,     \* content of the data source; Live: the physical disk
    hash,     \* the block hashes in the state manager
    pending,  \* blocks still to be transferred
    (* history *)
    seen,     \* the bits the last query returned, until its backup has reset
              \* the bitmap or succeeded
    fresh,    \* blocks all of whose writes since snap was taken are reported
    base      \* blocks all of whose writes since they were stored are reported

diskVars == <<vol, disk, landing, loaded, bits>>
runVars == <<kind, changed, have, snap, hash, pending>>
vars == <<diskVars, wire, image, records, pc, ret, runVars, seen, fresh, base>>

Live == [b \in Blocks |-> None]

Init ==
    /\ vol \in -1 .. N - 1
    /\ disk \in [Blocks -> Data]
    /\ landing = [b \in Blocks |-> None]
    /\ loaded = FALSE /\ bits = {}
    /\ wire = {} /\ image = [b \in Blocks |-> None]
    /\ records = FALSE
    /\ pc = "done" /\ kind = "full" /\ ret = FALSE
    /\ changed = {} /\ have = FALSE /\ snap = Live
    /\ hash = Live /\ pending = {}
    /\ seen = {} /\ fresh = {} /\ base = {}

-----------------------------------------------------------------------------
(* Writes. *)

\* Mutant: the bound is off by one, and the last block is never marked.
MarkButLast(b) == IF loaded /\ b < N - 1 THEN bits \cup {b} ELSE bits

\* HwReadWrite marks the block before it passes the write on.
Mark(b) == IF loaded THEN bits \cup {b} ELSE bits

Write(b, d) ==
    /\ landing[b] = None
    /\ landing' = [landing EXCEPT ![b] = d]
    /\ bits' = Mark(b)
    /\ UNCHANGED <<vol, disk, loaded, wire, image, records, pc, ret, runVars,
                   seen, fresh, base>>

Land(b) ==
    /\ landing[b] # None
    /\ disk' = [disk EXCEPT ![b] = landing[b]]
    /\ landing' = [landing EXCEPT ![b] = None]
    /\ UNCHANGED <<vol, loaded, bits, wire, image, records, pc, ret, runVars,
                   seen, fresh, base>>

-----------------------------------------------------------------------------
(* The driver. *)

\* What was reported is gone, and what is owed to the next backup with it.
Forget ==
    /\ bits' = {} /\ fresh' = {} /\ base' = {}
    /\ wire' = {[m EXCEPT !.reported = FALSE] : m \in wire}

\* The same, and the bits of the last query are given up.
Disturb == Forget /\ seen' = {}

\* DriverEntry: from now on writes are marked.
LoadDriver ==
    /\ ~loaded
    /\ loaded' = TRUE /\ Disturb
    /\ UNCHANGED <<vol, disk, landing, image, records, pc, ret, runVars>>

\* CbtUnload; not while an incremental backup has the device open.
HasDevice == kind = "inc" /\ pc \notin {"done", "connect", "saving"}

UnloadDriver ==
    /\ loaded /\ ~HasDevice
    /\ loaded' = FALSE /\ Disturb
    /\ UNCHANGED <<vol, disk, landing, image, records, pc, ret, runVars>>

(* "cbtctl reset", at any time. *)
OperatorReset ==
    /\ loaded
    /\ Disturb
    /\ UNCHANGED <<vol, disk, landing, loaded, image, records, pc, ret, runVars>>

-----------------------------------------------------------------------------
(* The backup. *)

\* The backup returns r; its local objects are destroyed.
Finish(r) ==
    /\ pc' = "done" /\ ret' = r
    /\ kind' = "full"
    /\ changed' = {} /\ have' = FALSE /\ snap' = Live
    /\ hash' = Live /\ pending' = {} /\ fresh' = {}

\* The backup goes on to its next step.
Goto(step) == pc' = step /\ UNCHANGED <<ret, kind>>

\* The block records a Save leaves in the state file.
Save == records' = have

Start(k) ==
    /\ pc = "done"
    /\ kind' = k
    /\ pc' = IF k = "inc" THEN "connect" ELSE "snapshot"
    /\ ret' = FALSE /\ seen' = {} /\ fresh' = {}
    /\ UNCHANGED <<diskVars, wire, image, records, changed, have, snap, hash,
                   pending, base>>

(* CbtClient::Connect, which starts the driver if need be. *)
Connect ==
    /\ pc = "connect"
    /\ \/ /\ Finish(FALSE)
          /\ UNCHANGED <<loaded, bits, wire, seen, base>>
       \/ /\ Goto("query")
          /\ loaded' = TRUE
          /\ IF loaded THEN UNCHANGED <<bits, wire, seen, fresh, base>> ELSE Disturb
          /\ UNCHANGED <<changed, have, snap, hash, pending>>
    /\ UNCHANGED <<vol, disk, landing, image, records>>

\* Mutant: the loop goes to the end of the last byte.
ParseAllBits(S) ==
    {i \in 0 .. N + ByteBits - 2 :
        (i \div ByteBits) * ByteBits + ByteBits - 1 - (i % ByteBits) \in S}

\* ParseChangedBlocks takes the bits of a byte from the highest to the lowest.
ParseChangedBlocks(S) ==
    {i \in Blocks : (i \div ByteBits) * ByteBits + ByteBits - 1 - (i % ByteBits) \in S}

\* Mutant: the bitmap is cleared as soon as it has been read.
QueryAndReset ==
    /\ pc = "query"
    /\ \/ /\ Finish(FALSE)
          /\ UNCHANGED <<bits, seen>>
       \/ /\ seen' = bits /\ bits' = {}
          /\ changed' = ParseChangedBlocks(bits) /\ changed' # {}
          /\ Goto("snapshot")
          /\ UNCHANGED <<have, snap, hash, pending, fresh>>
    /\ UNCHANGED <<vol, disk, landing, loaded, wire, image, records, base>>

(* CbtClient::Query and ParseChangedBlocks; without changes there is nothing *)
(* to do.                                                                    *)
Query ==
    /\ pc = "query"
    /\ \/ /\ Finish(FALSE)
          /\ UNCHANGED seen
       \/ /\ ParseChangedBlocks(bits) = {}
          /\ Finish(TRUE) /\ seen' = {}
       \/ /\ seen' = bits
          /\ changed' = ParseChangedBlocks(bits) /\ changed' # {}
          /\ Goto("snapshot")
          /\ UNCHANGED <<have, snap, hash, pending, fresh>>
    /\ UNCHANGED <<diskVars, wire, image, records, base>>

\* Writes of b after this moment are all reported.
Reported(b) == loaded /\ (landing[b] = None \/ b \in bits)

(* The VSS snapshot set: any step of it may fail and end the backup.  A disk *)
(* without a file system is read as it is.                                   *)
Snapshot ==
    /\ pc = "snapshot"
    /\ \/ Finish(FALSE)
       \/ /\ Goto("state")
          /\ snap' = IF vol >= 0 THEN disk ELSE Live
          /\ fresh' = {b \in Blocks : Reported(b)}
          /\ UNCHANGED <<changed, have, hash, pending>>
    /\ UNCHANGED <<diskVars, wire, image, records, seen, base>>

(* BlockStateManager::Initialize.  An incremental backup has the records of  *)
(* the file if Load accepts its checksum, which it compares with that of a   *)
(* different length: they agree by chance at most.  A full backup makes new  *)
(* records.                                                                  *)
State ==
    /\ pc = "state"
    /\ have' \in IF kind = "full" THEN {TRUE} ELSE {FALSE, records}
    /\ Goto("server")
    /\ UNCHANGED <<diskVars, wire, image, records, changed, snap, hash, pending,
                   seen, fresh, base>>

(* Connect to the server and SendHello.  A dry run does neither and goes on: *)
(* its sends, too, are among those that do not happen.                       *)
Server ==
    /\ pc = "server"
    /\ \/ /\ Finish(FALSE) /\ Save
       \/ /\ Goto(IF kind = "full" THEN "send" ELSE "hash")
          /\ pending' = IF kind = "full" THEN Blocks ELSE {}
          /\ UNCHANGED <<records, changed, have, snap, hash, fresh>>
    /\ UNCHANGED <<diskVars, wire, image, seen, base>>

(* ComputeBlockHashes on the physical disk, with a manifest whose offsets    *)
(* are all zero; then UpdateIncrementalBlocks, which refuses when there are  *)
(* no records or when hashing has failed.  After a refusal the records are   *)
(* what earlier backups left: any blocks may be pending, with any hash.      *)
(* cbtChanged is not used after it.                                          *)
Hash ==
    /\ pc = "hash"
    /\ Goto("send") /\ changed' = {}
    /\ \/ /\ ~have
          /\ UNCHANGED <<hash, pending>>
       \/ /\ have
          /\ hash' = [b \in Blocks |-> disk[0]] /\ pending' = changed
       \/ /\ have
          /\ hash' \in [Blocks -> Data] /\ pending' \in SUBSET Blocks
    /\ UNCHANGED <<diskVars, wire, image, records, have, snap,
                   seen, fresh, base>>

\* What is read for block b: the same offset of the snapshot volume, or of the
\* disk.  None: past the end of the volume.
Source(b) ==
    IF vol = -1 THEN disk[b]
    ELSE IF b + vol \in Blocks THEN snap[b + vol] ELSE None

\* Every write of b since the data now sent was read is reported.
Covered(b) == IF vol = -1 THEN Reported(b) ELSE b \in fresh

\* The server stores a block whose hash is right; a full backup hashes what
\* it sends.
Acceptable(b) == Source(b) # None /\ (kind = "full" \/ hash[b] = Source(b))

(* One block: sent, or given up (a dry run, a read error, the network, a      *)
(* hash the server refuses).  The client waits for its answer, or the window  *)
(* does; a timeout of that wait ends the connection.                          *)
Send ==
    /\ pc = "send"
    /\ \E b \in pending :
          /\ \A c \in pending : b <= c
          /\ pending' = pending \ {b}
          /\ \/ /\ Acceptable(b) /\ wire = {}
                /\ wire' = {[blk |-> b, data |-> Source(b), reported |-> Covered(b)]}
             \/ UNCHANGED wire
    /\ UNCHANGED <<diskVars, image, records, pc, ret, kind, changed, have,
                   snap, hash, seen, fresh, base>>

(* BlockProcessor::Process, be the client still there or not: a short write  *)
(* leaves a torn block.                                                      *)
Store ==
    \E m \in wire :
        /\ wire' = {}
        /\ \/ /\ image' = [image EXCEPT ![m.blk] = m.data]
              /\ base' = IF m.reported THEN base \cup {m.blk} ELSE base \ {m.blk}
           \/ /\ image' = [image EXCEPT ![m.blk] = None]
              /\ base' = base \ {m.blk}
        /\ UNCHANGED <<diskVars, records, pc, ret, kind, changed, have,
                       snap, hash, pending, seen, fresh>>

(* The connection loses it. *)
Lose ==
    /\ wire # {} /\ wire' = {}
    /\ UNCHANGED <<diskVars, image, records, pc, ret, runVars, seen, fresh, base>>

(* The end of a full backup: the bitmap is left alone. *)
EndFull ==
    /\ pc = "send" /\ pending = {} /\ kind = "full"
    /\ Finish(TRUE) /\ Save /\ seen' = {}
    /\ UNCHANGED <<diskVars, wire, image, base>>

(* After the transfer an incremental backup resets the bitmap, not looking   *)
(* at the result, and closes the device.                                     *)
Reset ==
    /\ pc = "send" /\ pending = {} /\ kind = "inc"
    /\ \/ Disturb
       \/ UNCHANGED <<bits, wire, seen, fresh, base>>
    /\ Goto("saving")
    /\ UNCHANGED <<vol, disk, landing, loaded, image, records, changed, have,
                   snap, hash, pending>>

(* The end of an incremental backup: vss.Cleanup and Save. *)
EndIncremental ==
    /\ pc = "saving"
    /\ Finish(TRUE) /\ Save /\ seen' = {}
    /\ UNCHANGED <<diskVars, wire, image, base>>

-----------------------------------------------------------------------------
(* Failures. *)

(* The client dies; the transfer, or the end of the backup, may have saved   *)
(* the records before.                                                       *)
ClientCrash ==
    /\ pc # "done"
    /\ Finish(FALSE)
    /\ records' \in IF pc = "saving" \/ (pc = "send" /\ have) THEN {records, have}
                   ELSE {records}
    /\ UNCHANGED <<diskVars, wire, image, seen, base>>

(* The machine restarts: writes under way are lost, and so is the bitmap.   *)
(* The driver is started on demand only.                                    *)
Reboot ==
    /\ landing' = [b \in Blocks |-> None]
    /\ loaded' = FALSE /\ Disturb
    /\ Finish(FALSE)
    /\ UNCHANGED <<vol, disk, image, records>>

Next ==
    \/ \E b \in Blocks : Land(b) \/ \E d \in Data : Write(b, d)
    \/ LoadDriver \/ UnloadDriver \/ OperatorReset
    \/ \E k \in {"full", "inc"} : Start(k)
    \/ Connect \/ Query \/ Snapshot \/ State \/ Server \/ Hash
    \/ Send \/ Store \/ Lose \/ EndFull \/ Reset \/ EndIncremental
    \/ ClientCrash \/ Reboot

Spec == Init /\ [][Next]_vars

-----------------------------------------------------------------------------
(* Properties. *)

(* Types of the machine's and the backup's variables. *)
TypeOK ==
    /\ vol \in -1 .. N - 1
    /\ disk \in [Blocks -> Data] /\ landing \in [Blocks -> Data \cup {None}]
    /\ loaded \in BOOLEAN /\ bits \subseteq Blocks
    /\ wire \subseteq [blk : Blocks, data : Data, reported : BOOLEAN]
    /\ image \in [Blocks -> Data \cup {None}] /\ records \in BOOLEAN
    /\ pc \in {"done", "connect", "query", "snapshot", "state", "server",
               "hash", "send", "saving"}
    /\ kind \in {"full", "inc"} /\ ret \in BOOLEAN
    /\ changed \subseteq Blocks /\ have \in BOOLEAN
    /\ snap \in [Blocks -> Data \cup {None}] /\ hash \in [Blocks -> Data \cup {None}]
    /\ pending \subseteq Blocks
    /\ seen \subseteq Blocks
    /\ fresh \subseteq Blocks /\ base \subseteq Blocks

(* No change escapes the bitmap: a block that differs from the server's      *)
(* image is reported, from the moment it was stored until the next reset or  *)
(* unload, although writes are marked before they land, the data is older    *)
(* than its arrival, and the snapshot is older still.  Excepted are only     *)
(* blocks with an unreported write under way when their data was taken (one  *)
(* issued before the driver was loaded or the bitmap reset), blocks on the   *)
(* wire at a reset, blocks the server has torn, and disks whose volume does  *)
(* not start at block 0.                                                     *)
BitsCoverStale ==
    vol <= 0 => \A b \in base : image[b] # disk[b] => b \in bits

(* A backup that fails or dies before it has reset the bitmap gives nothing  *)
(* up, be it at its query, its snapshot, the connection or a block: what its *)
(* query returned is reported to the next one, unless somebody else reset or *)
(* unloaded the bitmap.  One that dies after its reset, or whose reset was   *)
(* carried out, is not covered: its bits are gone although it has not        *)
(* succeeded.  A reset that the driver refused leaves them.                  *)
FailureKeepsBits == pc = "done" /\ ~ret => seen \subseteq bits

(* "backup complete, clear, enter the next cycle" (README.md): when a backup *)
(* resets the bitmap, the server holds some content at least of every block  *)
(* whose bit is cleared.                                                     *)
ResetAfterBackup ==
    [][Reset /\ bits' # bits => \A b \in bits : image[b] # None]_vars

(* "parse the bitmap and return the indexes of the blocks marked changed"    *)
(* (CbtClient.h): the blocks a backup takes for changed are the blocks the   *)
(* driver has marked.                                                        *)
ParsedAsMarked == [][Query /\ pc' = "snapshot" => changed' = bits]_vars

=============================================================================
