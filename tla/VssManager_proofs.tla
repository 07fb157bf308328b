-------------------------- MODULE VssManager_proofs --------------------------
(***************************************************************************)
(* NothingLeft, TypeOK and SourceIsLive for any volumes and partitions,    *)
(* any length of the waits and any number of backups.                      *)
(***************************************************************************)
EXTENDS VssManager, FiniteSetTheorems, WellFoundedInduction, TLAPS

(* Where the backup holds neither an interface nor COM of its own. *)
Outside == {"idle", "init", "destroy"}

(* An operation is at work exactly while the backup waits for it; the      *)
(* answer of After to an operation of Ops leads back inside.               *)
AsyncInv ==
    /\ pc = "wait" => async.op \in Ops
    /\ pc # "wait" => async = NoAsync

(* Every CoInitializeEx is undone, will be undone by Uninitialize, or was  *)
(* leaked by a failed Initialize.                                          *)
ComInv ==
    /\ com \in Int /\ leaked \in Int
    /\ com = leaked + (IF pc \in Outside THEN 0 ELSE 1)

(* Snapshots belong to the backup in progress, once it holds an interface, *)
(* or to one whose process died.                                           *)
SnapInv ==
    \A s \in snaps : s.set \in died \/ (s.set = n /\ pc \notin Outside)

(* The interface and what depends on it. *)
HoldInv == pc \in Outside => ~pVss /\ ~init /\ ~late

IInv == AsyncInv /\ ComInv /\ SnapInv /\ HoldInv

(* The initial state: nothing exists. *)
LEMMA InitIInv == Init => IInv
  BY DEF Init, IInv, AsyncInv, ComInv, SnapInv, HoldInv, Outside

(* However a wait ends, the backup goes on inside, where it will come to   *)
(* Uninitialize.                                                           *)
LEMMA AfterInside ==
    ASSUME NEW op \in Ops, NEW ok \in BOOLEAN
    PROVE  After(op, ok) \notin Outside \cup {"wait"}
  BY DEF After, Ops, Outside

(* The two ways out of the waiting state and the two ways to stay.         *)
LEMMA WaitKeeps == IInv /\ WaitForAsyncOperation => IInv'
<1> SUFFICES ASSUME IInv, WaitForAsyncOperation PROVE IInv'
    OBVIOUS
<1> USE DEF IInv, Outside
<1>1. pc = "wait" /\ async.op \in Ops
    BY DEF WaitForAsyncOperation, AsyncInv
<1>2. UNCHANGED <<n, vss, com, snaps, hist>>
    BY DEF WaitForAsyncOperation
<1>3. CASE PollAgain
    BY <1>1, <1>2, <1>3
    DEF PollAgain, AsyncInv, ComInv, SnapInv, HoldInv, vss, hist
<1>4. ASSUME NEW ok \in BOOLEAN, Return(ok) PROVE IInv'
  <2>1. pc' \notin Outside \cup {"wait"} /\ async' = NoAsync
      BY <1>1, <1>4, AfterInside DEF Return, Goto
  <2> QED
      BY <1>1, <1>2, <2>1 DEF AsyncInv, ComInv, SnapInv, HoldInv, vss, hist
<1> QED
    BY <1>3, <1>4 DEF WaitForAsyncOperation

(* Every call of the backup keeps the invariant. *)
LEMMA StepKeeps == IInv /\ Step => IInv'
<1> SUFFICES ASSUME IInv, Step PROVE IInv'
    OBVIOUS
<1> USE DEF IInv, AsyncInv, ComInv, SnapInv, HoldInv, Outside, Goto, vss, hist
<1>1. CASE Begin
    BY <1>1 DEF Begin
<1>2. CASE Initialize
    BY <1>2 DEF Initialize, Call, Ops
<1>3. CASE StartSnapshotSet
    BY <1>3 DEF StartSnapshotSet
<1>4. CASE AddVolumes
    BY <1>4 DEF AddVolumes
<1>5. CASE PrepareForBackup
    BY <1>5 DEF PrepareForBackup, Call, Ops
<1>6. CASE DoSnapshotSet
    BY <1>6 DEF DoSnapshotSet, Call, Ops
<1>7. CASE GetSnapshotProperties
    BY <1>7 DEF GetSnapshotProperties
<1>8. CASE ChooseSource
    BY <1>8 DEF ChooseSource
<1>9. CASE Transfer
    BY <1>9 DEF Transfer
<1>10. CASE Cleanup
    BY <1>10 DEF Cleanup, Call, Ops
<1>11. CASE DeleteSnapshots
    BY <1>11 DEF DeleteSnapshots, Own
<1>12. CASE Uninitialize
  <2>1. \A s \in snaps' : s.set \in died
      BY <1>12 DEF Uninitialize, Released, Own
  <2> QED
      BY <1>12, <2>1 DEF Uninitialize, Released
<1>13. CASE Destroy
    BY <1>13 DEF Destroy
<1>14. CASE WaitForAsyncOperation
    BY <1>14, WaitKeeps
<1> QED
    BY <1>1, <1>2, <1>3, <1>4, <1>5, <1>6, <1>7, <1>8, <1>9, <1>10, <1>11, <1>12,
       <1>13, <1>14 DEF Step

(* The service adds snapshots only to the set of a backup that holds an    *)
(* interface, be it late.                                                  *)
LEMMA ServiceKeeps == IInv /\ (ServiceEnds \/ ServiceLate) => IInv'
<1> SUFFICES ASSUME IInv, ServiceEnds \/ ServiceLate PROVE IInv'
    OBVIOUS
<1> USE DEF IInv, AsyncInv, ComInv, HoldInv, Outside, vss, hist
<1>1. snaps' \subseteq snaps \cup Made
    BY DEF ServiceEnds, ServiceLate
<1>2. pc \notin Outside
    BY DEF ServiceEnds, ServiceLate, NoAsync
<1>3. SnapInv'
  <2>1. \A s \in Made : s.set = n
      BY DEF Made
  <2> QED
      BY <1>1, <1>2, <2>1 DEF SnapInv, ServiceEnds, ServiceLate
<1>4. CASE ServiceEnds
  <2>1. PICK st : async' = [async EXCEPT !.st = st]
      BY <1>4 DEF ServiceEnds
  <2>2. pc = "wait"
      BY <1>4 DEF ServiceEnds, NoAsync
  <2>3. async'.op = async.op
      BY <2>1
  <2> QED
      BY <1>2, <1>3, <1>4, <2>2, <2>3 DEF ServiceEnds
<1>5. CASE ServiceLate
    BY <1>2, <1>3, <1>5 DEF ServiceLate
<1> QED
    BY <1>4, <1>5

(* Death of the process, and the sweep of another. *)
LEMMA OthersKeep == IInv /\ (Die \/ DeleteOrphanedSnapshots) => IInv'
<1> SUFFICES ASSUME IInv, Die \/ DeleteOrphanedSnapshots PROVE IInv'
    OBVIOUS
<1> USE DEF IInv, AsyncInv, ComInv, SnapInv, HoldInv, Outside, Goto, vss
<1>1. CASE Die
  <2>1. \A s \in snaps' : s.set \in died'
      BY <1>1 DEF Die
  <2> QED
      BY <1>1, <2>1 DEF Die
<1>2. CASE DeleteOrphanedSnapshots
    BY <1>2 DEF DeleteOrphanedSnapshots
<1> QED
    BY <1>1, <1>2

(* The inductive invariant holds throughout. *)
THEOREM Invariance == Spec => []IInv
<1>1. IInv /\ [Next]_vars => IInv'
  <2> SUFFICES ASSUME IInv, [Next]_vars PROVE IInv'
      OBVIOUS
  <2>1. CASE Next
      BY <2>1, StepKeeps, ServiceKeeps, OthersKeep DEF Next
  <2>2. CASE UNCHANGED vars
      BY <2>2 DEF vars, vss, hist, IInv, AsyncInv, ComInv, SnapInv, HoldInv, Outside
  <2> QED
      BY <2>1, <2>2
<1> QED
    BY InitIInv, <1>1, PTL DEF Spec

(* Between backups no interface, no operation and no snapshot of a backup  *)
(* that returned is left, and COM is balanced but for the failed calls of  *)
(* Initialize, at whichever call the backups failed or timed out.          *)
THEOREM BackupLeavesNothing == Spec => []NothingLeft
<1>1. IInv => NothingLeft
    BY DEF IInv, AsyncInv, ComInv, SnapInv, HoldInv, Outside, NothingLeft
<1> QED
    BY Invariance, <1>1, PTL

-----------------------------------------------------------------------------
(* The type invariant and the data source. *)

(* The operation at work, also when none is. *)
AsyncOK ==
    async \in [op : Ops, st : {"pending", "finished", "error", "cancelled"}] \cup {NoAsync}

(* The types of the variables. *)
Kinds ==
    /\ pc \in Labels /\ n \in 0 .. MaxBackups /\ (pc # "idle" => n > 0)
    /\ mapped \in UNION {[S -> [vol : Vols, fs : BOOLEAN]] : S \in SUBSET DOMAIN Volumes}
    /\ setId \in {"null", "set", "snapshot"}
    /\ elapsed \in 0 .. Polls
    /\ source \in Vols \cup {Disk}
    /\ AsyncOK
    /\ snaps \subseteq [set : 1 .. n, vol : Vols]
    /\ late \in BOOLEAN /\ swept \in BOOLEAN

(* The backup has not asked for the snapshots yet. *)
Early == \/ pc \in {"init", "ready", "add", "prepare", "commit"}
         \/ pc = "wait" /\ async.op \in {"GatherWriterMetadata", "PrepareForBackup"}
EarlyInv == Early => Own = {} /\ ~late /\ DOMAIN snapMap = {} /\ ~created

(* Snapshots of this backup are of volumes that were added, and those of   *)
(* mapped partitions with a file system.                                   *)
VolInv ==
    /\ ids \subseteq Candidates
    /\ DOMAIN snapMap \subseteq ids
    /\ pc # "idle" => \A s \in Own : s.vol \in ids

(* The flags: Initialize has ended, the interface is there, and a created  *)
(* set has entries in m_snapshotMap.                                       *)
Started == \/ pc \in {"add", "prepare", "commit", "properties", "source", "read", "release",
                      "delete", "uninit"}
           \/ pc = "wait" /\ async.op # "GatherWriterMetadata"
FlagInv ==
    /\ pc \notin Outside => pVss
    /\ Started <=> init
    /\ created => init /\ DOMAIN snapMap # {}
    /\ pc = "uninit" => ~created

(* An entry of m_snapshotMap was read from a snapshot that existed, and    *)
(* the source is such an entry.                                            *)
LiveInv ==
    pc \in {"source", "read"} =>
        /\ \A v \in DOMAIN snapMap : created /\ ([set |-> n, vol |-> v] \in snaps \/ swept)
        /\ pc = "read" => source \in DOMAIN snapMap \cup {Disk}

JInv == Kinds /\ EarlyInv /\ VolInv /\ FlagInv /\ LiveInv

(* A set of numbers has a least element. *)
LEMMA LeastElement ==
    ASSUME NEW S \in SUBSET Nat, S # {}
    PROVE  \E s \in S : \A t \in S : s <= t
<1> DEFINE Below == {0 .. s : s \in S}
<1>1. Below \subseteq FiniteSubsetsOf(Nat)
  <2> SUFFICES ASSUME NEW s \in S PROVE 0 .. s \in FiniteSubsetsOf(Nat)
      OBVIOUS
  <2>1. s \in Nat /\ IsFiniteSet(0 .. s) /\ 0 .. s \subseteq Nat
      BY FS_Interval
  <2> QED
      BY <2>1 DEF FiniteSubsetsOf
<1>2. Below # {}
    OBVIOUS
<1>3. PICK X \in Below : \A Y \in Below : <<Y, X>> \notin StrictSubsetOrdering(Nat)
  <2> HIDE DEF Below
  <2>1. IsWellFoundedOn(StrictSubsetOrdering(Nat), FiniteSubsetsOf(Nat))
      BY FS_StrictSubsetOrderingWellFounded
  <2> QED
      BY <1>1, <1>2, <2>1, WFMin
<1>4. PICK s \in S : X = 0 .. s
    OBVIOUS
<1>5. ASSUME NEW t \in S, t < s PROVE FALSE
  <2>1. 0 .. t \in Below /\ 0 .. t \subseteq 0 .. s /\ 0 .. t # 0 .. s
      BY <1>5
  <2>2. 0 .. t \in SUBSET Nat /\ 0 .. s \in SUBSET Nat
      OBVIOUS
  <2>3. <<0 .. t, 0 .. s>> \in StrictSubsetOrdering(Nat)
      BY <2>1, <2>2 DEF StrictSubsetOrdering
  <2> QED
      BY <1>3, <1>4, <2>1, <2>3
<1> QED
    BY <1>5

(* The volumes of the mapped partitions. *)
LEMMA CandidatesAreVolumes ==
    ASSUME Kinds PROVE Candidates \subseteq Vols
<1>1. PICK S \in SUBSET DOMAIN Volumes : mapped \in [S -> [vol : Vols, fs : BOOLEAN]]
    BY DEF Kinds
<1>2. \A i \in DOMAIN mapped : mapped[i].vol \in Vols
    BY <1>1
<1> QED
    BY <1>2 DEF Candidates

(* What Map makes of a disk. *)
LEMMA MapTyped ==
    ASSUME NEW place \in Places, NEW parts \in Layouts
    PROVE  Map(place, parts) \in
             UNION {[S -> [vol : Vols, fs : BOOLEAN]] : S \in SUBSET DOMAIN Volumes}
<1> DEFINE H == {j \in DOMAIN Volumes : place[Volumes[j]] \in DOMAIN parts}
<1>1. \A i \in H : Volumes[i] \in Vols
    BY DEF Vols, Range
<1>2. Map(place, parts) \in [H -> [vol : Vols, fs : BOOLEAN]]
    BY <1>1 DEF Map, HasFilesystem
<1>3. H \in SUBSET DOMAIN Volumes
    OBVIOUS
<1> QED
    BY <1>2, <1>3

(* The search for a device path ends at a volume that has one, or at the   *)
(* disk.                                                                   *)
LEMMA SourceFound ==
    ASSUME Kinds
    PROVE  DataSource \in Vols \cup {Disk} /\ DataSource \in DOMAIN snapMap \cup {Disk}
<1> DEFINE found == {i \in DOMAIN mapped : HasPath(i)}
<1>1. CASE found = {}
    BY <1>1 DEF DataSource
<1>2. CASE found # {}
  <2>1. PICK S \in SUBSET DOMAIN Volumes : mapped \in [S -> [vol : Vols, fs : BOOLEAN]]
      BY DEF Kinds
  <2>2. DOMAIN Volumes \subseteq Nat
      BY VssAssumption
  <2>3. found \in SUBSET Nat
      BY <2>1, <2>2
  <2>4. \E x \in found : \A y \in found : x <= y
      BY <1>2, <2>3, LeastElement
  <2>5. Min(found) \in found
      BY <2>4 DEF Min
  <2>6. PICK x \in found : DataSource = mapped[x].vol
      BY <1>2, <2>5 DEF DataSource
  <2> QED
      BY <2>1, <2>6 DEF HasPath
<1> QED
    BY <1>1, <1>2

(* The beginning: everything is null. *)
LEMMA InitJInv == Init => JInv
<1> SUFFICES ASSUME Init PROVE JInv
    OBVIOUS
<1>1. mapped \in [{} -> [vol : Vols, fs : BOOLEAN]] /\ {} \in SUBSET DOMAIN Volumes
    BY DEF Init
<1>2. mapped \in UNION {[S -> [vol : Vols, fs : BOOLEAN]] : S \in SUBSET DOMAIN Volumes}
    BY <1>1
<1>3. Kinds
  <2>1. 0 \in 0 .. MaxBackups /\ 0 \in 0 .. Polls
      BY VssAssumption
  <2>2. late \in BOOLEAN /\ swept \in BOOLEAN /\ AsyncOK
      BY DEF Init, AsyncOK
  <2>3. snaps \subseteq [set : 1 .. n, vol : Vols]
      BY DEF Init
  <2> QED
      BY <1>2, <2>1, <2>2, <2>3 DEF Init, Kinds, Labels
<1> QED
    BY <1>3 DEF Init, JInv, EarlyInv, Early, VolInv, FlagInv, Started, LiveInv, Outside, Own

(* Nothing of a backup exists before it begins. *)
LEMMA NothingNew ==
    ASSUME Kinds PROVE \A s \in snaps : s.set # n + 1 /\ s.set <= n
  BY DEF Kinds

(* The parts that a step of the backup keeps, wait by wait. *)
LEMMA WaitKeepsJ == IInv /\ JInv /\ WaitForAsyncOperation => JInv'
<1> SUFFICES ASSUME IInv, JInv, WaitForAsyncOperation PROVE JInv'
    OBVIOUS
<1>1. /\ pc = "wait" /\ async.op \in Ops /\ Kinds
      /\ UNCHANGED <<n, mapped, vss, source, com, snaps, hist>>
    BY DEF WaitForAsyncOperation, IInv, AsyncInv, JInv
<1>2. UNCHANGED <<Own, Candidates>>
    BY <1>1 DEF Own, Candidates
<1>3. CASE elapsed # Polls /\ PollAgain
  <2>1. UNCHANGED <<pc, async, late>> /\ elapsed' \in 0 .. Polls
      BY <1>1, <1>3, VssAssumption DEF PollAgain, Kinds
  <2> QED
      BY <1>1, <1>2, <2>1 DEF JInv, Kinds, AsyncOK, EarlyInv, Early, VolInv, FlagInv, Started,
         LiveInv, vss, hist
<1>4. ASSUME NEW ok \in BOOLEAN, Return(ok) PROVE JInv'
  <2>1. /\ pc' = After(async.op, ok) /\ async' = NoAsync /\ elapsed' = 0
        /\ late' = (late \/ (async.op = "DoSnapshotSet" /\ async.st = "pending"))
      BY <1>4 DEF Return, Goto
  <2>2. pc' \in {"ready", "commit", "properties", "release", "delete"}
      BY <1>1, <2>1 DEF After, Ops
  <2>3. Kinds'
      BY <1>1, <2>1, <2>2, VssAssumption DEF Kinds, AsyncOK, Labels, vss, hist
  <2>4. EarlyInv'
    <3>1. Early' => async.op \in {"GatherWriterMetadata", "PrepareForBackup"}
        BY <1>1, <2>1, <2>2 DEF Early, After, Ops, NoAsync
    <3> QED
        BY <1>1, <1>2, <2>1, <3>1 DEF JInv, EarlyInv, Early, vss
  <2>5. Started' <=> Started
      BY <1>1, <2>1, <2>2 DEF Started, After, Ops
  <2> QED
      BY <1>1, <1>2, <2>2, <2>3, <2>4, <2>5
      DEF JInv, VolInv, FlagInv, LiveInv, Outside, vss, hist
<1> QED
    BY <1>3, <1>4 DEF WaitForAsyncOperation

(* A backup begins with empty maps, and no snapshot has its number. *)
LEMMA BeginKeepsJ == IInv /\ JInv /\ Begin => JInv'
<1> SUFFICES ASSUME IInv, JInv, Begin PROVE JInv'
    OBVIOUS
<1>1. Kinds /\ pc = "idle" /\ ~late
    BY DEF JInv, IInv, HoldInv, Outside, Begin
<1>2. PICK place \in Places, parts \in Layouts : mapped' = Map(place, parts)
    BY DEF Begin
<1>3. mapped' \in UNION {[S -> [vol : Vols, fs : BOOLEAN]] : S \in SUBSET DOMAIN Volumes}
    BY <1>2, MapTyped
<1>4. /\ n' = n + 1 /\ n' \in 1 .. MaxBackups /\ n' > 0 /\ 1 .. n \subseteq 1 .. n'
    BY <1>1, VssAssumption DEF Begin, Kinds
<1>5. Kinds'
  <2>1. snaps' \subseteq [set : 1 .. n', vol : Vols]
      BY <1>1, <1>4 DEF Begin, Kinds
  <2>2. n' \in 0 .. MaxBackups
      BY <1>4, VssAssumption
  <2>3. elapsed' \in 0 .. Polls /\ AsyncOK' /\ late' \in BOOLEAN
      BY <1>1 DEF Begin, Kinds, AsyncOK
  <2>4. pc' = "init" /\ setId' = "null" /\ source' = Disk /\ swept' = FALSE
      BY DEF Begin, Goto
  <2> QED
      BY <1>3, <1>4, <2>1, <2>2, <2>3, <2>4 DEF Kinds, Labels
<1>6. Own' = {}
    BY <1>1, <1>4, NothingNew DEF Begin, Own
<1> QED
    BY <1>1, <1>5, <1>6
    DEF Begin, Goto, JInv, EarlyInv, VolInv, FlagInv, Started, LiveInv, Outside

(* An interface is had, or the backup returns without one. *)
LEMMA InitializeKeepsJ == IInv /\ JInv /\ Initialize => JInv'
<1> SUFFICES ASSUME IInv, JInv, Initialize PROVE JInv'
    OBVIOUS
<1>1. /\ Kinds /\ pc = "init" /\ ~late /\ ~init /\ async = NoAsync
      /\ UNCHANGED <<n, mapped, init, setId, ids, snapMap, created, source, late, snaps, swept>>
    BY DEF JInv, IInv, HoldInv, AsyncInv, Outside, Initialize
<1>2. Own' = Own /\ Candidates' = Candidates
    BY <1>1 DEF Own, Candidates
<1>3. \/ pc' \in {"ready", "destroy"} /\ async' = async /\ elapsed' = elapsed
      \/ pc' = "wait" /\ async' = [op |-> "GatherWriterMetadata", st |-> "pending"] /\ elapsed' = 0
    BY DEF Initialize, Call, Goto
<1>4. pc' \notin Outside => pVss'
    BY DEF Initialize, Goto, Outside
<1>5. Kinds'
    BY <1>1, <1>3, VssAssumption DEF Kinds, AsyncOK, Labels, Ops
<1> QED
    BY <1>1, <1>2, <1>3, <1>4, <1>5
    DEF JInv, EarlyInv, Early, VolInv, FlagInv, Started, LiveInv, Outside, NoAsync

(* Initialize has ended; the set is begun or not. *)
LEMMA StartKeepsJ == IInv /\ JInv /\ StartSnapshotSet => JInv'
<1> SUFFICES ASSUME IInv, JInv, StartSnapshotSet PROVE JInv'
    OBVIOUS
<1>1. /\ Kinds /\ pc = "ready" /\ init' /\ pc' \in {"add", "release"} /\ setId' \in {setId, "set"}
      /\ UNCHANGED <<n, mapped, pVss, ids, snapMap, created, elapsed, source, async, late,
                     snaps, swept>>
    BY DEF JInv, StartSnapshotSet, Goto, hist
<1>2. Own' = Own /\ Candidates' = Candidates
    BY <1>1 DEF Own, Candidates
<1>3. Kinds'
    BY <1>1 DEF Kinds, AsyncOK, Labels
<1> QED
    BY <1>1, <1>2, <1>3
    DEF JInv, EarlyInv, Early, VolInv, FlagInv, Started, LiveInv, Outside

(* Only candidates are added, before there is any snapshot. *)
LEMMA AddKeepsJ == IInv /\ JInv /\ AddVolumes => JInv'
<1> SUFFICES ASSUME IInv, JInv, AddVolumes PROVE JInv'
    OBVIOUS
<1>1. /\ Kinds /\ pc = "add" /\ pc' \in {"prepare", "release", "source"}
      /\ ids' \subseteq Candidates /\ setId' \in {setId, "snapshot"}
      /\ UNCHANGED <<n, mapped, init, pVss, snapMap, created, elapsed, source, async, late,
                     snaps, swept>>
    BY DEF JInv, AddVolumes, Goto, hist
<1>2. Own' = Own /\ Candidates' = Candidates
    BY <1>1 DEF Own, Candidates
<1>3. Kinds'
    BY <1>1 DEF Kinds, AsyncOK, Labels
<1> QED
    BY <1>1, <1>2, <1>3
    DEF JInv, EarlyInv, Early, VolInv, FlagInv, Started, LiveInv, Outside

(* The calls that hand out an operation, or fail. *)
LEMMA PrepareKeepsJ == IInv /\ JInv /\ (PrepareForBackup \/ DoSnapshotSet) => JInv'
<1> SUFFICES ASSUME IInv, JInv, PrepareForBackup \/ DoSnapshotSet PROVE JInv'
    OBVIOUS
<1>1. /\ Kinds /\ pc \in {"prepare", "commit"} /\ async = NoAsync
      /\ UNCHANGED <<n, mapped, vss, source, late, snaps, swept>>
    BY DEF JInv, IInv, AsyncInv, PrepareForBackup, DoSnapshotSet, hist
<1>2. Own' = Own /\ Candidates' = Candidates
    BY <1>1 DEF Own, Candidates
<1>3. \/ pc' \in {"commit", "release"} /\ async' = async /\ elapsed' = elapsed
      \/ /\ pc' = "wait" /\ elapsed' = 0
         /\ \E op \in {"PrepareForBackup", "DoSnapshotSet"} :
               async' = [op |-> op, st |-> "pending"]
    BY DEF PrepareForBackup, DoSnapshotSet, Call, Goto
<1>4. Kinds'
  <2>1. AsyncOK' /\ pc' \in Labels /\ elapsed' \in 0 .. Polls
      BY <1>1, <1>3, VssAssumption DEF Kinds, AsyncOK, Ops, Labels
  <2> QED
      BY <1>1, <2>1 DEF Kinds, vss
<1> QED
    BY <1>1, <1>2, <1>3, <1>4
    DEF JInv, EarlyInv, Early, VolInv, FlagInv, Started, LiveInv, Outside, vss

(* What is entered in m_snapshotMap is there. *)
LEMMA PropertiesKeepJ == IInv /\ JInv /\ GetSnapshotProperties => JInv'
<1> SUFFICES ASSUME IInv, JInv, GetSnapshotProperties PROVE JInv'
    OBVIOUS
<1>1. /\ Kinds /\ pc = "properties" /\ ~swept'
      /\ UNCHANGED <<n, mapped, init, pVss, setId, ids, elapsed, source, async, late, snaps>>
    BY DEF JInv, GetSnapshotProperties
<1>2. Own' = Own /\ Candidates' = Candidates
    BY <1>1 DEF Own, Candidates
<1>3. PICK read \in SUBSET {s.vol : s \in Own} :
          /\ snapMap' \in [read -> BOOLEAN]
          /\ created' = (read # {})
          /\ pc' = IF read = {} THEN "release" ELSE "source"
    BY DEF GetSnapshotProperties, Goto
<1>4. \A v \in read : v \in ids /\ [set |-> n, vol |-> v] \in snaps
  <2> SUFFICES ASSUME NEW s \in Own PROVE s.vol \in ids /\ [set |-> n, vol |-> s.vol] \in snaps
      BY <1>3
  <2>1. s \in [set : 1 .. n, vol : Vols] /\ s.set = n /\ s \in snaps
      BY <1>1 DEF Own, Kinds
  <2>2. s = [set |-> n, vol |-> s.vol]
      BY <2>1
  <2> QED
      BY <1>1, <2>1, <2>2 DEF JInv, VolInv
<1>5. DOMAIN snapMap' = read
    BY <1>3
<1>6. swept' = FALSE
    BY DEF GetSnapshotProperties
<1>7. Kinds'
    BY <1>1, <1>3, <1>6 DEF Kinds, AsyncOK, Labels
<1>8. init /\ pVss
    BY <1>1 DEF JInv, FlagInv, Started, Outside
<1> QED
    BY <1>1, <1>2, <1>3, <1>4, <1>5, <1>7, <1>8
    DEF JInv, EarlyInv, Early, VolInv, FlagInv, Started, LiveInv, Outside

(* The source is chosen among the entries, and read. *)
LEMMA SourceKeepsJ == IInv /\ JInv /\ (ChooseSource \/ Transfer) => JInv'
<1> SUFFICES ASSUME IInv, JInv, ChooseSource \/ Transfer PROVE JInv'
    OBVIOUS
<1>1. /\ Kinds /\ pc \in {"source", "read"} /\ pc' \in {"read", "release"}
      /\ (pc' = "read" => source' = DataSource) /\ source' \in {source, DataSource}
      /\ UNCHANGED <<n, mapped, vss, elapsed, async, late, snaps, swept>>
    BY DEF JInv, ChooseSource, Transfer, Goto, hist
<1>2. Own' = Own /\ Candidates' = Candidates
    BY <1>1 DEF Own, Candidates
<1>3. Kinds'
    BY <1>1, SourceFound DEF Kinds, AsyncOK, Labels, vss
<1> QED
    BY <1>1, <1>2, <1>3, SourceFound
    DEF JInv, EarlyInv, Early, VolInv, FlagInv, Started, LiveInv, Outside, vss

(* A set that is not created has nothing to be deleted. *)
LEMMA CleanupKeepsJ == IInv /\ JInv /\ Cleanup => JInv'
<1> SUFFICES ASSUME IInv, JInv, Cleanup PROVE JInv'
    OBVIOUS
<1>1. /\ Kinds /\ pc = "release" /\ async = NoAsync
      /\ UNCHANGED <<n, mapped, vss, source, late, snaps, swept>>
    BY DEF JInv, IInv, AsyncInv, Cleanup, hist
<1>2. Own' = Own /\ Candidates' = Candidates
    BY <1>1 DEF Own, Candidates
<1>3. \/ /\ pc' \in {"delete", "uninit"} /\ async' = async /\ elapsed' = elapsed
         /\ pc' = "uninit" => ~created
      \/ pc' = "wait" /\ elapsed' = 0 /\ async' = [op |-> "BackupComplete", st |-> "pending"]
    BY DEF Cleanup, Call, Goto
<1>4. Kinds'
  <2>1. AsyncOK' /\ pc' \in Labels /\ elapsed' \in 0 .. Polls
      BY <1>1, <1>3, VssAssumption DEF Kinds, AsyncOK, Ops, Labels
  <2> QED
      BY <1>1, <2>1 DEF Kinds, vss
<1> QED
    BY <1>1, <1>2, <1>3, <1>4
    DEF JInv, EarlyInv, Early, VolInv, FlagInv, Started, LiveInv, Outside, vss

(* The snapshots and the entries go together. *)
LEMMA ReleaseKeepsJ == IInv /\ JInv /\ (DeleteSnapshots \/ Uninitialize \/ Destroy) => JInv'
<1> SUFFICES ASSUME IInv, JInv, DeleteSnapshots \/ Uninitialize \/ Destroy PROVE JInv'
    OBVIOUS
<1>1. /\ Kinds /\ pc \in {"delete", "uninit", "destroy"}
      /\ UNCHANGED <<n, mapped, setId, elapsed, source, async, swept>>
      /\ snaps' \subseteq snaps /\ late' \in {late, FALSE}
      /\ pc' \in {"uninit", "destroy", "release", "idle"}
    BY DEF JInv, DeleteSnapshots, Uninitialize, Released, Destroy, Goto, vss, hist
<1>2. Own' \subseteq Own /\ Candidates' = Candidates
    BY <1>1 DEF Own, Candidates
<1>3. Kinds'
    BY <1>1 DEF Kinds, AsyncOK, Labels
<1> USE DEF JInv, EarlyInv, Early, VolInv, FlagInv, Started, LiveInv, Outside
<1>4. CASE DeleteSnapshots
    BY <1>1, <1>2, <1>3, <1>4 DEF DeleteSnapshots, Goto
<1>5. CASE Uninitialize
  <2>1. Own' = {}
      BY <1>1, <1>5 DEF Uninitialize, Released, Own
  <2> QED
      BY <1>1, <1>2, <1>3, <1>5, <2>1 DEF Uninitialize, Goto
<1>6. CASE Destroy
    BY <1>1, <1>2, <1>3, <1>6 DEF Destroy, Goto, vss
<1> QED
    BY <1>4, <1>5, <1>6

(* The service finishes what the backup waits for, or has given up. *)
LEMMA ServiceKeepsJ == IInv /\ JInv /\ (ServiceEnds \/ ServiceLate) => JInv'
<1> SUFFICES ASSUME IInv, JInv, ServiceEnds \/ ServiceLate PROVE JInv'
    OBVIOUS
<1>1. /\ Kinds /\ UNCHANGED <<pc, n, mapped, vss, elapsed, source, swept>>
      /\ Candidates' = Candidates /\ pc \notin Outside
    BY DEF JInv, IInv, HoldInv, AsyncInv, NoAsync, Outside, ServiceEnds, ServiceLate, hist,
       Candidates
<1>2. /\ snaps \subseteq snaps' /\ snaps' \subseteq snaps \cup Made
    BY DEF ServiceEnds, ServiceLate
<1>3. \A s \in Made : s \in [set : 1 .. n, vol : Vols] /\ s.set = n /\ s.vol \in ids
  <2>1. n \in 1 .. n
      BY <1>1 DEF Kinds, Outside
  <2>2. ids \subseteq Vols
      BY <1>1, CandidatesAreVolumes DEF JInv, VolInv
  <2> QED
      BY <2>1, <2>2 DEF Made
<1>4. /\ async'.op = async.op /\ AsyncOK' /\ late' \in {late, FALSE}
      /\ Early => snaps' = snaps
  <2>1. CASE ServiceEnds
    <3>1. pc = "wait" /\ async.op \in Ops
        BY <2>1 DEF ServiceEnds, IInv, AsyncInv, NoAsync
    <3>2. PICK st \in {"finished", "error", "cancelled"} :
             /\ async' = [async EXCEPT !.st = st]
             /\ snaps' = IF async.op = "DoSnapshotSet" /\ st = "finished"
                         THEN snaps \cup Made ELSE snaps
        BY <2>1 DEF ServiceEnds
    <3>3. async \in [op : Ops, st : {"pending", "finished", "error", "cancelled"}]
        BY <1>1, <3>1 DEF Kinds, AsyncOK, NoAsync, Ops
    <3>4. AsyncOK' /\ async'.op = async.op
        BY <3>2, <3>3 DEF AsyncOK
    <3> QED
        BY <2>1, <3>1, <3>2, <3>4 DEF ServiceEnds, Early
  <2>2. CASE ServiceLate
      BY <1>1, <2>2 DEF ServiceLate, Kinds, AsyncOK, JInv, EarlyInv
  <2> QED
      BY <2>1, <2>2
<1>5. Kinds'
    BY <1>1, <1>2, <1>3, <1>4 DEF Kinds, vss
<1>6. EarlyInv'
    BY <1>1, <1>4 DEF JInv, EarlyInv, Early, Own, vss
<1>7. VolInv'
  <2>1. \A s \in Own' : s.vol \in ids
      BY <1>1, <1>2, <1>3 DEF JInv, VolInv, Own, Outside
  <2> QED
      BY <1>1, <2>1 DEF JInv, VolInv, vss
<1>8. FlagInv' /\ LiveInv'
    BY <1>1, <1>2, <1>4 DEF JInv, FlagInv, Started, LiveInv, vss
<1> QED
    BY <1>5, <1>6, <1>7, <1>8 DEF JInv

(* The process dies, or another one sweeps. *)
LEMMA OthersKeepJ == IInv /\ JInv /\ (Die \/ DeleteOrphanedSnapshots) => JInv'
<1> SUFFICES ASSUME IInv, JInv, Die \/ DeleteOrphanedSnapshots PROVE JInv'
    OBVIOUS
<1>1. Kinds /\ UNCHANGED <<n, mapped, source>> /\ snaps' \subseteq snaps
      /\ Candidates' = Candidates
    BY DEF JInv, Die, DeleteOrphanedSnapshots, Candidates
<1>2. CASE Die
  <2>1. Kinds'
    <3>1. 0 \in 0 .. Polls
        BY VssAssumption
    <3>2. late' \in BOOLEAN /\ swept' \in BOOLEAN /\ AsyncOK'
        BY <1>1, <1>2 DEF Die, Kinds, AsyncOK
    <3>3. snaps' \subseteq [set : 1 .. n', vol : Vols]
        BY <1>1 DEF Kinds
    <3> QED
        BY <1>1, <1>2, <3>1, <3>2, <3>3 DEF Die, Kinds, Labels, Goto
  <2> QED
      BY <1>1, <1>2, <2>1
      DEF Die, Goto, JInv, EarlyInv, Early, VolInv, FlagInv, Started, LiveInv, Outside
<1>3. CASE DeleteOrphanedSnapshots
  <2>1. /\ UNCHANGED <<pc, vss, elapsed, async, late>> /\ swept' \in BOOLEAN
        /\ swept => swept'
      BY <1>1, <1>3 DEF DeleteOrphanedSnapshots, Kinds
  <2>2. \A s \in snaps : s.set = n => s \in snaps' \/ swept'
      BY <1>3 DEF DeleteOrphanedSnapshots
  <2>3. Own' \subseteq Own
      BY <1>1 DEF Own
  <2>4. Kinds'
    <3>1. snaps' \subseteq [set : 1 .. n', vol : Vols]
        BY <1>1 DEF Kinds
    <3>2. AsyncOK' /\ late' \in BOOLEAN /\ setId' = setId
        BY <1>1, <2>1 DEF Kinds, AsyncOK, vss
    <3> QED
        BY <1>1, <2>1, <3>1, <3>2 DEF Kinds
  <2>5. LiveInv'
      BY <1>1, <2>1, <2>2 DEF JInv, LiveInv, vss
  <2> QED
      BY <1>1, <2>1, <2>3, <2>4, <2>5
      DEF JInv, EarlyInv, Early, VolInv, FlagInv, Started, Outside, vss
<1> QED
    BY <1>2, <1>3

(* Types, flags, volumes and data source, throughout. *)
THEOREM FlagInvariance == Spec => [](IInv /\ JInv)
<1>1. IInv /\ JInv /\ [Next]_vars => JInv'
  <2> SUFFICES ASSUME IInv, JInv, [Next]_vars PROVE JInv'
      OBVIOUS
  <2>1. CASE Next
    <3>1. CASE Step
        BY <3>1, BeginKeepsJ, InitializeKeepsJ, StartKeepsJ, AddKeepsJ, PrepareKeepsJ,
           PropertiesKeepJ, SourceKeepsJ, CleanupKeepsJ, ReleaseKeepsJ, WaitKeepsJ DEF Step
    <3> QED
        BY <2>1, <3>1, ServiceKeepsJ, OthersKeepJ DEF Next
  <2>2. CASE UNCHANGED vars
      BY <2>2 DEF vars, vss, hist, JInv, Kinds, AsyncOK, EarlyInv, Early, VolInv, FlagInv,
         Started, LiveInv, Own, Candidates
  <2> QED
      BY <2>1, <2>2
<1> QED
    BY InitJInv, <1>1, Invariance, PTL DEF Spec

(* The variables have their types, and the flags of the VssManager say of  *)
(* one another what the code relies on: a created set has an interface and *)
(* entries, and these are of volumes that were added.                      *)
THEOREM TypeCorrect == Spec => []TypeOK
<1>1. IInv /\ JInv => TypeOK
  <2> SUFFICES ASSUME IInv, JInv PROVE TypeOK
      OBVIOUS
  <2>1. (pc = "wait") = (async # NoAsync)
      BY DEF IInv, AsyncInv, NoAsync, Ops
  <2>2. created => init /\ snapMap # <<>>
      BY DEF JInv, FlagInv
  <2>3. init => pVss
    <3>1. Started => pc \notin Outside
        BY DEF Started, Outside
    <3> QED
        BY <3>1 DEF JInv, FlagInv
  <2> QED
      BY <2>1, <2>2, <2>3 DEF JInv, Kinds, AsyncOK, VolInv, TypeOK
<1> QED
    BY <1>1, FlagInvariance, PTL

(* A backup that reads a snapshot reads one of its own set, of a volume of *)
(* this disk with a file system, which exists unless cleanup-shadows has   *)
(* deleted it since; and the set counts as created.                        *)
THEOREM SourceExists == Spec => []SourceIsLive
<1>1. JInv => SourceIsLive
    BY DEF JInv, LiveInv, VolInv, FlagInv, Outside, SourceIsLive
<1> QED
    BY <1>1, FlagInvariance, PTL
=============================================================================
