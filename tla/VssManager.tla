----------------------------- MODULE VssManager -----------------------------
(***************************************************************************)
(* The snapshot set of a backup (client/VssManager.cpp) as FullBackup and  *)
(* IncrementalBackup drive it: the volumes of the disk (DiskParser,        *)
(* VolumeMapper), the calls of the VSS interface, any of which may fail,   *)
(* the waits for the service, the choice of the data source, and Cleanup.  *)
(* Backups follow one another in one process (BackupEngine::Run).          *)
(*                                                                         *)
(* The VSS service is outside the repository.  Of it is assumed what the   *)
(* code relies on: a set is created as a whole or not at all, DeleteSnap-  *)
(* shots finds a set by the identifier of the set only, and the snapshots  *)
(* of an interface end with the last reference to it (they are not         *)
(* persistent).  Those of a process that dies may stay behind, which is    *)
(* what the command cleanup-shadows is for.                                *)
(***************************************************************************)
EXTENDS Integers, Sequences, FiniteSets, SequencesExt

CONSTANTS
    Volumes,    \* the volumes, in the order FindNextVolume returns them
    Offsets,    \* where partitions may start
    Polls,      \* turns of a wait until its timeout
    MaxBackups  \* bound: backups, each with a snapshot set of its own

ASSUME VssAssumption ==
    /\ IsInjective(Volumes) /\ Volumes \in Seq(Range(Volumes))
    /\ Offsets \subseteq Nat
    /\ Polls \in Nat \ {0}
    /\ MaxBackups \in Nat

Vols == Range(Volumes)
Away == -1                \* in place of an offset: no volume to be mapped
Disk == "PhysicalDrive"   \* in place of a volume: the data source is the disk
Ops == {"GatherWriterMetadata", "PrepareForBackup", "DoSnapshotSet", "BackupComplete"}
NoAsync == [op |-> "none", st |-> "none"]

VARIABLES
    pc,       \* where the backup is; "idle": between two backups
    n,        \* the number of the backup, and of its snapshot set
    mapped,   \* mapper.GetMappedPartitions(), by the place of the volume in Volumes
    init,     \* m_initialized
    pVss,     \* m_pVss is not null
    setId,    \* what m_snapshotSetId identifies: "null", "set", "snapshot"
    ids,      \* domain of m_volumeToSnapshotId
    snapMap,  \* m_snapshotMap: whether the entry of a volume has a device path
    created,  \* m_snapshotCreated
    elapsed,  \* of the wait in progress
    source,   \* dataSource
    com,      \* CoInitializeEx less CoUninitialize of this thread
    async,    \* the operation the service works on, held by an IVssAsync
    late,     \* a DoSnapshotSet whose IVssAsync was given up is still at work
    snaps,    \* the snapshots that exist
    leaked,   \* history: failed calls of Initialize in this process
    died,     \* history: backups during which the process died
    swept     \* history: another process has deleted this backup's set since its
              \* properties were read

vss == <<init, pVss, setId, ids, snapMap, created>>
hist == <<leaked, died, swept>>
vars == <<pc, n, mapped, vss, elapsed, source, com, async, late, snaps, hist>>

Init ==
    /\ pc = "idle" /\ n = 0 /\ mapped = <<>>
    /\ init = FALSE /\ pVss = FALSE /\ setId = "null" /\ ids = {}
    /\ snapMap = <<>> /\ created = FALSE
    /\ elapsed = 0 /\ source = Disk
    /\ com = 0 /\ async = NoAsync /\ late = FALSE /\ snaps = {}
    /\ leaked = 0 /\ died = {} /\ swept = FALSE

Goto(l) == pc' = l

Own == {s \in snaps : s.set = n}

-----------------------------------------------------------------------------
(* The volumes of the disk. *)

(* What DetectPartitionContent makes of a partition: a boot sector that    *)
(* cannot be read, or without a known signature, is a raw partition.       *)
Contents == {"filesystem", "raw", "unreadable"}
HasFilesystem(content) == content = "filesystem"

(* Map: a volume belongs to the partition that starts where its first      *)
(* extent does; those without a drive letter, that cannot be opened or are *)
(* on another disk (Away) are passed over.                                 *)
Map(place, parts) ==
    [i \in {j \in DOMAIN Volumes : place[Volumes[j]] \in DOMAIN parts} |->
        [vol |-> Volumes[i], fs |-> HasFilesystem(parts[place[Volumes[i]]])]]

Places == {f \in [Vols -> Offsets \cup {Away}] :
             \A u, v \in Vols : f[u] = f[v] => u = v \/ f[u] = Away}
Layouts == UNION {[S -> Contents] : S \in SUBSET Offsets}

(* BackupDisk has parsed the disk; vss is constructed. *)
Begin ==
    /\ pc = "idle" /\ n < MaxBackups
    /\ n' = n + 1
    /\ \E place \in Places, parts \in Layouts : mapped' = Map(place, parts)
    /\ init' = FALSE /\ pVss' = FALSE /\ setId' = "null" /\ ids' = {}
    /\ snapMap' = <<>> /\ created' = FALSE
    /\ source' = Disk
    /\ swept' = FALSE
    /\ Goto("init")
    /\ UNCHANGED <<elapsed, com, async, late, snaps, leaked, died>>

-----------------------------------------------------------------------------
(* WaitForAsyncOperation. *)

(* A call that hands out an IVssAsync: op is at work and the client polls. *)
Call(op) ==
    /\ async' = [op |-> op, st |-> "pending"]
    /\ elapsed' = 0
    /\ Goto("wait")

(* Where the backup goes on after the wait for op. *)
After(op, ok) ==
    CASE op = "GatherWriterMetadata" -> "ready"
      [] op = "PrepareForBackup"     -> "commit"
      [] op = "DoSnapshotSet"        -> IF ok THEN "properties" ELSE "release"
      [] op = "BackupComplete"       -> "delete"

(* pAsync is released.  A set the service is still making is not undone. *)
Return(ok) ==
    /\ Goto(After(async.op, ok))
    /\ late' = (late \/ (async.op = "DoSnapshotSet" /\ async.st = "pending"))
    /\ async' = NoAsync /\ elapsed' = 0

\* Mutant: the progress message restarts the count of the time.
PollRestarting ==
    /\ async.st \in {"pending", "error"}
    /\ elapsed' = (elapsed + 1) % Polls
    /\ UNCHANGED <<pc, async, late>>

(* Not finished, or an error that only hrResult carries, which the test    *)
(* for the two final codes passes over.                                    *)
PollAgain ==
    /\ async.st \in {"pending", "error"}
    /\ elapsed' = elapsed + 1
    /\ UNCHANGED <<pc, async, late>>

WaitForAsyncOperation ==
    /\ pc = "wait"
    /\ IF elapsed = Polls THEN Return(FALSE)   \* Cancel, Release
       ELSE \/ PollAgain
            \/ async.st = "finished" /\ Return(TRUE)
            \/ async.st \in {"error", "cancelled"} /\ Return(FALSE)
            \/ Return(FALSE)                   \* QueryStatus fails
    /\ UNCHANGED <<n, mapped, vss, source, com, snaps, hist>>

-----------------------------------------------------------------------------
(* The calls of the backup, in their order. *)

(* Without COM there is no interface.  A failing Initialize releases the   *)
(* interface but not COM, and the backup returns.                          *)
Initialize ==
    /\ pc = "init"
    /\ \/ /\ com' = com + 1 /\ pVss' = TRUE
          /\ \/ Call("GatherWriterMetadata")
             \/ Goto("ready") /\ UNCHANGED <<async, elapsed>>
          /\ leaked' = leaked
       \/ /\ \/ com' = com + 1 /\ leaked' = leaked + 1
             \/ com' = com /\ leaked' = leaked
          /\ pVss' = FALSE
          /\ Goto("destroy")
          /\ UNCHANGED <<async, elapsed>>
    /\ UNCHANGED <<n, mapped, init, setId, ids, snapMap, created, source, late,
                   snaps, died, swept>>

(* The end of Initialize, and StartSnapshotSet. *)
StartSnapshotSet ==
    /\ pc = "ready"
    /\ init' = TRUE
    /\ \/ setId' = "set" /\ Goto("add")
       \/ setId' = setId /\ Goto("release")
    /\ UNCHANGED <<n, mapped, pVss, ids, snapMap, created, elapsed, source, com,
                   async, late, snaps, hist>>

Candidates == {mapped[i].vol : i \in {j \in DOMAIN mapped : mapped[j].fs}}

\* Mutant: the file system of a partition is not looked at.
AddVolumesAll ==
    /\ pc = "add"
    /\ \E added \in SUBSET {mapped[i].vol : i \in DOMAIN mapped} :
          /\ ids' = added
          /\ setId' = IF added = {} THEN setId ELSE "snapshot"
          /\ Goto(IF added # {} THEN "prepare" ELSE "source")
    /\ UNCHANGED <<n, mapped, init, pVss, snapMap, created, elapsed, source, com,
                   async, late, snaps, hist>>

(* AddVolumeToSnapshotSet for each volume with a file system: m_snapshotMap *)
(* is empty until DoSnapshotSet, so each call overwrites the identifier of  *)
(* the set with that of its snapshot.                                       *)
AddVolumes ==
    /\ pc = "add"
    /\ \E added \in SUBSET Candidates :
          /\ ids' = added
          /\ setId' = IF added = {} THEN setId ELSE "snapshot"
          /\ Goto(IF added # {} THEN "prepare"
                  ELSE IF Candidates # {} THEN "release" ELSE "source")
    /\ UNCHANGED <<n, mapped, init, pVss, snapMap, created, elapsed, source, com,
                   async, late, snaps, hist>>

(* DoSnapshotSet, Step 1: a failure is only logged. *)
PrepareForBackup ==
    /\ pc = "prepare"
    /\ \/ Call("PrepareForBackup")
       \/ Goto("commit") /\ UNCHANGED <<async, elapsed>>
    /\ UNCHANGED <<n, mapped, vss, source, com, late, snaps, hist>>

(* Step 2. *)
DoSnapshotSet ==
    /\ pc = "commit"
    /\ \/ Call("DoSnapshotSet")
       \/ Goto("release") /\ UNCHANGED <<async, elapsed>>
    /\ UNCHANGED <<n, mapped, vss, source, com, late, snaps, hist>>

\* Mutant: every volume of the set is entered, whether or not its properties
\* could be read, with what the query left in prop.
GetSnapshotPropertiesUnchecked ==
    /\ pc = "properties"
    /\ snapMap' = [v \in ids |-> TRUE]
    /\ created' = TRUE /\ Goto("source")
    /\ swept' = FALSE
    /\ UNCHANGED <<n, mapped, init, pVss, setId, ids, elapsed, source, com,
                   async, late, snaps, leaked, died>>

(* Step 3: a volume whose properties cannot be read is left out, one       *)
(* without a device object gets an empty path; no volume at all is an      *)
(* error, and then nothing says that the set has been created.             *)
GetSnapshotProperties ==
    /\ pc = "properties"
    /\ \E read \in SUBSET {s.vol : s \in Own} :
          /\ snapMap' \in [read -> BOOLEAN]
          /\ created' = (read # {})
          /\ Goto(IF read = {} THEN "release" ELSE "source")
    /\ swept' = FALSE
    /\ UNCHANGED <<n, mapped, init, pVss, setId, ids, elapsed, source, com,
                   async, late, snaps, leaked, died>>

(* GetSnapshotDevicePath in the order of the mapped partitions: the first  *)
(* path found is the data source of the whole disk.                        *)
HasPath(i) ==
    mapped[i].vol \in DOMAIN snapMap /\ snapMap[mapped[i].vol]
DataSource ==
    LET found == {i \in DOMAIN mapped : HasPath(i)}
    IN  IF found = {} THEN Disk ELSE mapped[Min(found)].vol

(* The source is chosen, and the server is reached or not. *)
ChooseSource ==
    /\ pc = "source"
    /\ source' = DataSource
    /\ Goto("read") \/ Goto("release")
    /\ UNCHANGED <<n, mapped, vss, elapsed, com, async, late, snaps, hist>>

(* The blocks have been read and sent, or the transfer was given up. *)
Transfer ==
    /\ pc = "read"
    /\ Goto("release")
    /\ UNCHANGED <<n, mapped, vss, elapsed, source, com, async, late, snaps, hist>>

-----------------------------------------------------------------------------
(* Cleanup. *)

(* The service forgets what belongs to an interface without references.    *)
Released == snaps' = snaps \ Own /\ late' = FALSE

(* Steps 1 and 2 are for a created set only. *)
Cleanup ==
    /\ pc = "release"
    /\ IF created
       THEN \/ Call("BackupComplete")
            \/ Goto("delete") /\ UNCHANGED <<async, elapsed>>
       ELSE Goto("uninit") /\ UNCHANGED <<async, elapsed>>
    /\ UNCHANGED <<n, mapped, vss, source, com, late, snaps, hist>>

DeleteSnapshots ==
    /\ pc = "delete"
    /\ snaps' \in IF setId = "set" THEN {snaps, snaps \ Own} ELSE {snaps}
    /\ created' = FALSE
    /\ Goto("uninit")
    /\ UNCHANGED <<n, mapped, init, pVss, setId, ids, snapMap, elapsed, source,
                   com, async, late, hist>>

\* Mutant: the interface is released with the deletion of a created set only.
UninitializeCreatedOnly ==
    /\ pc = "uninit"
    /\ IF snapMap # <<>> THEN Released ELSE UNCHANGED <<snaps, late>>
    /\ pVss' = FALSE /\ com' = com - 1
    /\ init' = FALSE /\ ids' = {} /\ snapMap' = <<>>
    /\ Goto("destroy")
    /\ UNCHANGED <<n, mapped, setId, created, elapsed, source, async, hist>>

(* Steps 3 and 4: Release, CoUninitialize, and the maps are cleared. *)
Uninitialize ==
    /\ pc = "uninit"
    /\ Released
    /\ pVss' = FALSE /\ com' = com - 1
    /\ init' = FALSE /\ ids' = {} /\ snapMap' = <<>>
    /\ Goto("destroy")
    /\ UNCHANGED <<n, mapped, setId, created, elapsed, source, async, hist>>

(* ~VssManager, when the backup returns. *)
Destroy ==
    /\ pc = "destroy"
    /\ Goto(IF init THEN "release" ELSE "idle")
    /\ UNCHANGED <<n, mapped, vss, elapsed, source, com, async, late, snaps, hist>>

-----------------------------------------------------------------------------
(* The service and other processes. *)

Made == {[set |-> n, vol |-> v] : v \in ids}

ServiceEnds ==
    /\ async.st = "pending"
    /\ \E st \in {"finished", "error", "cancelled"} :
          /\ async' = [async EXCEPT !.st = st]
          /\ snaps' = IF async.op = "DoSnapshotSet" /\ st = "finished"
                      THEN snaps \cup Made ELSE snaps
    /\ UNCHANGED <<pc, n, mapped, vss, elapsed, source, com, late, hist>>

(* The set the client has given up is finished after all, or not. *)
ServiceLate ==
    /\ late /\ late' = FALSE
    /\ snaps' \in {snaps, snaps \cup Made}
    /\ UNCHANGED <<pc, n, mapped, vss, elapsed, source, com, async, hist>>

(* The process dies: its snapshots may go with it or stay. *)
Die ==
    /\ pc # "idle"
    /\ Goto("idle")
    /\ died' = died \cup {n}
    /\ snaps' \in {snaps, snaps \ Own}
    /\ init' = FALSE /\ pVss' = FALSE /\ setId' = "null" /\ ids' = {}
    /\ snapMap' = <<>> /\ created' = FALSE
    /\ com' = 0 /\ leaked' = 0 /\ async' = NoAsync /\ late' = FALSE /\ elapsed' = 0
    /\ UNCHANGED <<n, mapped, source, swept>>

(* One turn of the loop of DeleteOrphanedSnapshots in a process of its own *)
(* (cleanup-shadows): every set there is, orphaned or not.                 *)
DeleteOrphanedSnapshots ==
    \E s \in snaps :
        /\ snaps' = {t \in snaps : t.set # s.set}
        /\ swept' = (swept \/ s.set = n)
        /\ UNCHANGED <<pc, n, mapped, vss, elapsed, source, com, async, late,
                       leaked, died>>

Step ==
    \/ Begin \/ Initialize \/ StartSnapshotSet \/ AddVolumes \/ PrepareForBackup
    \/ DoSnapshotSet \/ GetSnapshotProperties \/ ChooseSource \/ Transfer
    \/ Cleanup \/ DeleteSnapshots \/ Uninitialize \/ Destroy
    \/ WaitForAsyncOperation

Next == Step \/ ServiceEnds \/ ServiceLate \/ Die \/ DeleteOrphanedSnapshots

(* The thread of the backup goes on.  Nothing obliges the service to       *)
(* finish an operation.                                                    *)
Spec == Init /\ [][Next]_vars /\ WF_vars(Step)

-----------------------------------------------------------------------------
(* Properties. *)

Labels == {"idle", "init", "wait", "ready", "add", "prepare", "commit", "properties",
           "source", "read", "release", "delete", "uninit", "destroy"}

(* The types, and what the flags of the VssManager say of one another. *)
TypeOK ==
    /\ pc \in Labels /\ n \in 0 .. MaxBackups
    /\ mapped \in UNION {[S -> [vol : Vols, fs : BOOLEAN]] : S \in SUBSET DOMAIN Volumes}
    /\ setId \in {"null", "set", "snapshot"}
    /\ ids \subseteq Candidates
    /\ DOMAIN snapMap \subseteq ids
    /\ created => init /\ snapMap # <<>>
    /\ init => pVss
    /\ elapsed \in 0 .. Polls
    /\ source \in Vols \cup {Disk}
    /\ async \in [op : Ops, st : {"pending", "finished", "error", "cancelled"}]
                   \cup {NoAsync}
    /\ (pc = "wait") = (async # NoAsync)
    /\ snaps \subseteq [set : 1 .. n, vol : Vols] /\ {late, swept} \subseteq BOOLEAN

(* However a backup ends, at whichever call it fails or times out, even    *)
(* with a set the service finished after the client gave it up: between    *)
(* backups no interface, no operation and no snapshot of a backup that     *)
(* returned is left (Cleanup, ~VssManager), and COM is balanced but for    *)
(* the failed calls of Initialize, which never undo CoInitializeEx.        *)
NothingLeft ==
    pc = "idle" =>
        /\ ~pVss /\ async = NoAsync /\ ~late
        /\ \A s \in snaps : s.set \in died
        /\ com = leaked

(* While the backup reads a snapshot, that is a snapshot of this backup's  *)
(* own set, of a volume of this disk with a file system, and it exists     *)
(* unless cleanup-shadows has deleted it after GetSnapshotProperties saw   *)
(* it; the set counts as created, so that Cleanup will tell the writers.   *)
SourceIsLive ==
    pc = "read" /\ source # Disk =>
        /\ source \in Candidates
        /\ created /\ pVss
        /\ [set |-> n, vol |-> source] \in snaps \/ swept

(* Every backup comes to its end although the service may never answer:    *)
(* each wait has its timeout, and Cleanup its own (WaitForAsyncOperation). *)
BackupEnds == pc # "idle" ~> pc = "idle"
=============================================================================
