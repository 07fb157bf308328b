------------------------------ MODULE StateFile ------------------------------
(***************************************************************************)
(* BlockStateManager (client/BlockStateManager.cpp): the per-block backup  *)
(* state of one disk, its version table, and the state file that carries   *)
(* both from one run of the client to the next.                            *)
(*                                                                         *)
(* Every method runs under m_mutex and is one step, except Save, which     *)
(* holds the mutex over several file operations: the process may die       *)
(* between any two of them, and the ACK thread of a full backup waits to   *)
(* record an answer.  Hashes are left out, and a version is reduced to its *)
(* two counters.                                                           *)
(***************************************************************************)
EXTENDS Integers, Sequences, FiniteSets

CONSTANTS
    N,            \* blocks of the disk
    MaxVersions,  \* bound: versions one manager creates
    MaxAcked      \* bound: answers counted for one version

ASSUME StateFileAssumption ==
    /\ N \in Nat \ {0}
    /\ MaxVersions \in Nat \ {0}
    /\ MaxAcked \in Nat /\ N <= MaxAcked

VARIABLES
    alive,     \* a BlockStateManager exists
    blocks,    \* m_blocks
    total,     \* m_totalBlocks
    versions,  \* m_versions, by VersionId + 1; m_nextVersionId is its length
    dirty,     \* m_dirty
    spc,       \* "idle", or the step Save is at: "body", "crc", "move"
    ending,    \* Save was called by the destructor
    tmp,       \* the file .dat.tmp
    file,      \* the state file .dat
    hasSaved,  \* history: this manager has completed a Save
    regular    \* history: every answer was one that BackupEngine records

memVars == <<blocks, total, versions>>
vars == <<alive, memVars, dirty, spc, ending, tmp, file, hasSaved, regular>>

Acks == {"Pending", "Sent", "Acknowledged", "Failed", "Skipped"}
BlockRec == [changed : BOOLEAN, ack : Acks, ver : 0 .. MaxVersions - 1]
VersionRec == [changed : 0 .. N, acked : Nat]

-----------------------------------------------------------------------------
(* The file format. *)

HEADER_SIZE == 64
CRC_OFFSET == 36

\* ComputeCRC32 over the first n bytes of a header (with the CRC field zero):
\* two checksums agree when they cover the same bytes.
Checksum(n, f) == <<n, f.total, f.nver>>

NoCrc == <<0, 0, 0>>

\* No header: the file does not exist, or is shorter than a header.
NoFile == [hdr |-> FALSE, crc |-> NoCrc, total |-> 0, nver |-> 0,
           blocks |-> <<>>, vers |-> <<>>]

\* The header (its checksum still zero), the block records, the version table.
Body(bs, vs) == [hdr |-> TRUE, crc |-> NoCrc, total |-> total,
                 nver |-> Len(versions), blocks |-> bs, vers |-> vs]

Sealed(f) == IF f.hdr THEN [f EXCEPT !.crc = Checksum(CRC_OFFSET, f)] ELSE f

\* What a Save of the manager's present state puts in the file.
Image == Sealed(Body(blocks, versions))

\* The same when the volume has filled up: some records are missing at the
\* end, or the file is empty.
Parts ==
    {p \in (0 .. Len(blocks)) \X (0 .. Len(versions)) :
        p[2] > 0 => p[1] = Len(blocks)}
Part(n, m) == Body(SubSeq(blocks, 1, n), SubSeq(versions, 1, m))
Images == {NoFile} \cup {Sealed(Part(p[1], p[2])) : p \in Parts}

-----------------------------------------------------------------------------
Init ==
    /\ alive = FALSE
    /\ blocks = <<>> /\ total = 0 /\ versions = <<>>
    /\ dirty = FALSE /\ spc = "idle" /\ ending = FALSE
    /\ tmp = NoFile /\ file = NoFile
    /\ hasSaved = FALSE /\ regular = TRUE

\* Load accepts the file when the checksum of its whole header matches.
LoadOk == file.hdr /\ file.crc = Checksum(HEADER_SIZE, file)

\* Load reads m_totalBlocks before it checks the checksum; when it gives up,
\* the manager goes on with no blocks and no versions.
Load ==
    /\ total' = file.total
    /\ blocks' = IF LoadOk THEN file.blocks ELSE <<>>
    /\ versions' = IF LoadOk THEN file.vers ELSE <<>>

(* Constructor and Initialize. *)
Initialize ==
    /\ ~alive
    /\ alive' = TRUE
    /\ Load
    /\ dirty' = FALSE /\ hasSaved' = FALSE
    /\ UNCHANGED <<spc, ending, tmp, file, regular>>

\* Mutant: a method goes ahead while Save holds the mutex.
LockFreeAlways == alive

\* m_mutex is free: no Save is under way.
LockFree == alive /\ spc = "idle"

CreateVersion ==
    /\ LockFree /\ Len(versions) < MaxVersions
    /\ versions' = Append(versions, [changed |-> 0, acked |-> 0])
    /\ dirty' = TRUE
    /\ UNCHANGED <<alive, blocks, total, spc, ending, tmp, file, hasSaved, regular>>

Last == Len(versions)

\* Mutant: the loop goes on to i = m_totalBlocks.
FullBlocksOneMore ==
    [k \in 1 .. N + 1 |-> [changed |-> TRUE, ack |-> "Pending", ver |-> Last - 1]]

FullBlocks ==
    [k \in 1 .. N |-> [changed |-> TRUE, ack |-> "Pending", ver |-> Last - 1]]

(* InitFullBlocks, with the hashes of a manifest, and InitFullBlocksEmpty,  *)
(* without, on a version just created.                                      *)
InitFullBlocks ==
    /\ LockFree /\ Last > 0 /\ versions[Last].changed = 0
    /\ total' = N
    /\ blocks' = FullBlocks
    /\ versions' = [versions EXCEPT ![Last].changed = N]
    /\ dirty' = TRUE
    /\ UNCHANGED <<alive, spc, ending, tmp, file, hasSaved, regular>>

\* The states of an incremental version whose changed blocks are S.
Incremental(S) ==
    [b \in DOMAIN blocks |->
        IF b \in S THEN [changed |-> TRUE, ack |-> "Pending", ver |-> Last - 1]
        ELSE [blocks[b] EXCEPT !.changed = FALSE, !.ack = "Skipped"]]

\* Mutant: the other blocks keep their Changed flag.
UpdateKeepsChanged(S) ==
    /\ LockFree /\ blocks # <<>> /\ Last > 0
    /\ blocks' = [b \in DOMAIN blocks |->
                    IF b \in S THEN Incremental(S)[b]
                    ELSE [blocks[b] EXCEPT !.ack = "Skipped"]]
    /\ versions' = [versions EXCEPT ![Last] =
                      [changed |-> Cardinality(S), acked |-> 0]]
    /\ dirty' = TRUE
    /\ UNCHANGED <<alive, total, spc, ending, tmp, file, hasSaved, regular>>

\* Mutant: the version's AckedBlocks is not reset.
UpdateKeepsAcked(S) ==
    /\ LockFree /\ blocks # <<>> /\ Last > 0
    /\ blocks' = Incremental(S)
    /\ versions' = [versions EXCEPT ![Last].changed = Cardinality(S)]
    /\ dirty' = TRUE
    /\ UNCHANGED <<alive, total, spc, ending, tmp, file, hasSaved, regular>>

(* UpdateIncrementalBlocks; it refuses when there are no blocks. *)
UpdateIncrementalBlocks(S) ==
    /\ LockFree /\ blocks # <<>> /\ Last > 0
    /\ blocks' = Incremental(S)
    /\ versions' = [versions EXCEPT ![Last] =
                      [changed |-> Cardinality(S), acked |-> 0]]
    /\ dirty' = TRUE
    /\ UNCHANGED <<alive, total, spc, ending, tmp, file, hasSaved, regular>>

NeedsUpload(b) == blocks[b].changed /\ blocks[b].ack # "Acknowledged"

\* The answers BackupEngine records: acknowledged or failed, for blocks that
\* wait for an answer or already have this one.
RegularAnswer(S, status) ==
    /\ status \in {"Acknowledged", "Failed"}
    /\ \A b \in S : NeedsUpload(b) \/ blocks[b].ack = status

(* SetBlockAckRange; SetBlockAck is a range of one, SetBlockAckList a series *)
(* of them.  Any status is taken for any block.                              *)
SetBlockAckRange(first, last, status) ==
    LET S == (first .. last) \cap DOMAIN blocks
        newly(v) == {b \in S : /\ blocks[b].ack # "Acknowledged"
                               /\ status = "Acknowledged"
                               /\ blocks[b].ver = v - 1}
    IN  /\ LockFree
        /\ \A v \in DOMAIN versions :
               versions[v].acked + Cardinality(newly(v)) <= MaxAcked
        /\ blocks' = [b \in DOMAIN blocks |->
                        IF b \in S THEN [blocks[b] EXCEPT !.ack = status]
                                   ELSE blocks[b]]
        /\ versions' = [v \in DOMAIN versions |->
                          [versions[v] EXCEPT !.acked = @ + Cardinality(newly(v))]]
        /\ dirty' = TRUE
        /\ regular' = (regular /\ RegularAnswer(S, status))
        /\ UNCHANGED <<alive, total, spc, ending, tmp, file, hasSaved>>

(* SetBlockHash, of which only m_dirty is seen here. *)
SetBlockHash ==
    /\ LockFree /\ blocks # <<>>
    /\ dirty' = TRUE
    /\ UNCHANGED <<alive, memVars, spc, ending, tmp, file, hasSaved, regular>>

-----------------------------------------------------------------------------
(* Save, step by step. *)

(* Lock, and create .dat.tmp, empty; when that fails Save returns and has   *)
(* changed nothing.                                                         *)
SaveBegin ==
    /\ LockFree
    /\ tmp' = NoFile /\ spc' = "body"
    /\ UNCHANGED <<alive, memVars, dirty, ending, file, hasSaved, regular>>

(* The first header, the block records and the version table.  What a       *)
(* WriteFile really wrote is not looked at: on a volume that fills up (and  *)
(* stays full until Save ends) the rest is missing, and perhaps all of it.  *)
SaveBody ==
    /\ spc = "body"
    /\ \/ tmp' = NoFile
       \/ \E p \in Parts : tmp' = Part(p[1], p[2])
    /\ spc' = "crc"
    /\ UNCHANGED <<alive, memVars, dirty, ending, file, hasSaved, regular>>

(* The checksum over the first 36 bytes, the header again, the flush. *)
SaveCrc ==
    /\ spc = "crc"
    /\ tmp' = Sealed(tmp)
    /\ spc' = "move"
    /\ UNCHANGED <<alive, memVars, dirty, ending, file, hasSaved, regular>>

\* The manager's memory after a step: gone with the manager.
Gone == blocks' = <<>> /\ total' = 0 /\ versions' = <<>>

\* Save returns; after the destructor's Save the manager is gone.
SaveReturn ==
    /\ spc' = "idle" /\ ending' = FALSE
    /\ alive' = ~ending
    /\ tmp' = NoFile
    /\ IF ending THEN Gone ELSE UNCHANGED memVars

\* Mutant: m_dirty is cleared whether or not the file was replaced.
SaveMoveAlwaysClean ==
    /\ spc = "move"
    /\ \/ file' = tmp /\ hasSaved' = TRUE
       \/ UNCHANGED <<file, hasSaved>>
    /\ dirty' = FALSE
    /\ SaveReturn
    /\ UNCHANGED regular

(* MoveFileEx replaces .dat, or fails and the temporary file is deleted. *)
SaveMove ==
    /\ spc = "move"
    /\ \/ file' = tmp /\ dirty' = FALSE /\ hasSaved' = TRUE
       \/ UNCHANGED <<file, dirty, hasSaved>>
    /\ SaveReturn
    /\ UNCHANGED regular

(* The destructor saves what is dirty, if the temporary file can be made. *)
Destroy ==
    /\ LockFree
    /\ \/ /\ dirty
          /\ spc' = "body" /\ ending' = TRUE /\ tmp' = NoFile
          /\ UNCHANGED <<alive, memVars>>
       \/ alive' = FALSE /\ Gone /\ UNCHANGED <<spc, ending, tmp>>
    /\ UNCHANGED <<dirty, file, hasSaved, regular>>

(* The process dies; the state file stays.  What is left of .dat.tmp is     *)
(* never read: the next Save empties it first.                              *)
Crash ==
    /\ alive
    /\ alive' = FALSE /\ spc' = "idle" /\ ending' = FALSE
    /\ Gone /\ dirty' = FALSE /\ hasSaved' = FALSE
    /\ tmp' = NoFile
    /\ UNCHANGED <<file, regular>>

Next ==
    \/ Initialize
    \/ CreateVersion
    \/ InitFullBlocks
    \/ \E S \in SUBSET (1 .. N) : UpdateIncrementalBlocks(S)
    \/ \E f \in 1 .. N, l \in 1 .. N, status \in Acks :
           SetBlockAckRange(f, l, status)
    \/ SetBlockHash
    \/ SaveBegin \/ SaveBody \/ SaveCrc \/ SaveMove
    \/ Destroy \/ Crash

Spec == Init /\ [][Next]_vars

-----------------------------------------------------------------------------
(* Properties. *)

FileRec == [hdr : BOOLEAN, crc : Nat \X Nat \X Nat, total : 0 .. N,
            nver : 0 .. MaxVersions, blocks : Seq(BlockRec),
            vers : Seq(VersionRec)]

(* Types of the manager's members and of the files. *)
TypeOK ==
    /\ alive \in BOOLEAN
    /\ blocks \in Seq(BlockRec) /\ Len(blocks) <= N /\ total \in 0 .. N
    /\ versions \in Seq(VersionRec) /\ Len(versions) <= MaxVersions
    /\ dirty \in BOOLEAN /\ spc \in {"idle", "body", "crc", "move"}
    /\ ending \in BOOLEAN /\ hasSaved \in BOOLEAN /\ regular \in BOOLEAN
    /\ tmp \in FileRec /\ file \in FileRec

(* The state file changes in one step, from the state of one moment to that *)
(* of another: wherever the process dies, and whatever answers wait while   *)
(* Save is at work, it is replaced by the state the manager has in memory   *)
(* at the very moment, of which at most the end is missing (Save of         *)
(* BlockStateManager.cpp: the mutex, the temporary file, the rename).       *)
CommitOfOneState == [][file' # file => file' \in Images]_vars

(* "When the write is interrupted the original file is not affected"        *)
(* (BlockStateManager.cpp, on Save) and "there is no half-written file"     *)
(* (docs/BlockStateManager.md): the file is only ever replaced by the whole *)
(* of the manager's state.  This is false on a volume that fills up.        *)
AtomicCommit == [][file' # file => file' = Image]_vars

(* A manager that has saved and is clean has put its present state in the   *)
(* file and none older, so that the destructor may skip the save; the end   *)
(* of it may be missing, as m_dirty is cleared also over a file that the    *)
(* volume had no room for.                                                  *)
CleanMeansSaved ==
    alive /\ spc = "idle" /\ hasSaved /\ ~dirty => file \in Images

(* The counters of the newest version agree with the block states after any *)
(* series of full and incremental rounds with the answers of BackupEngine:  *)
(* AckedBlocks is the number of its blocks that are acknowledged, and no    *)
(* version has more acknowledged than changed blocks.                       *)
AckCountExact ==
    regular =>
      /\ \A v \in DOMAIN versions : versions[v].acked <= versions[v].changed
      /\ Last > 0 =>
           versions[Last].acked =
              Cardinality({b \in DOMAIN blocks : /\ blocks[b].ver = Last - 1
                                                 /\ blocks[b].ack = "Acknowledged"})

\* GetLastAcknowledgedBlock: the length of the answered or skipped prefix.
GetLastAcknowledgedBlock ==
    CHOOSE n \in 0 .. Len(blocks) :
        /\ \A b \in 1 .. n : blocks[b].ack \in {"Acknowledged", "Skipped"}
        /\ n < Len(blocks) => blocks[n + 1].ack \notin {"Acknowledged", "Skipped"}

(* With the answers of BackupEngine, a transfer resumed at                  *)
(* GetLastAcknowledgedBlock leaves out no block that GetPendingBlocks would *)
(* still upload.                                                            *)
ResumePointSafe ==
    regular => \A b \in 1 .. GetLastAcknowledgedBlock : ~NeedsUpload(b)

(* GetPendingBlocks "filters Skipped automatically"                         *)
(* (docs/BlockStateManager.md; test GetPendingBlocks_OnlyReturnsNeedsUpload *)
(* of tests/test_BlockStateManager.cpp), whatever set the status.  This is  *)
(* false: NeedsUpload looks for Acknowledged only.                          *)
SkippedNotPending ==
    \A b \in DOMAIN blocks : blocks[b].ack = "Skipped" => ~NeedsUpload(b)

(* What was saved is what is loaded (test SaveLoad_RoundTrip_PreservesData): *)
(* a new manager starts from the blocks and versions in the file.           *)
RoundTrip ==
    [][~alive /\ alive' /\ file.hdr
         => blocks' = file.blocks /\ versions' = file.vers]_vars

=============================================================================
