--------------------------- MODULE StateFile_proofs ---------------------------
(***************************************************************************)
(* The state file for any number of blocks and versions, on a volume that  *)
(* may fill up: TypeOK, CommitOfOneState, CleanMeansSaved, AckCountExact   *)
(* and ResumePointSafe.                                                    *)
(***************************************************************************)
EXTENDS StateFile, SequenceTheorems, FiniteSetTheorems, WellFoundedInduction, TLAPS

(* The temporary file holds what Save has got done and the volume had room *)
(* for, of the state the manager still has: m_mutex keeps the others out.  *)
TmpInv ==
    /\ spc = "crc" => tmp = NoFile \/ \E p \in Parts : tmp = Part(p[1], p[2])
    /\ spc = "move" => tmp \in Images

(* CleanMeansSaved, also while another Save is under way, which may fail. *)
CleanInv == alive /\ hasSaved /\ ~dirty => file \in Images

(* Save runs on a manager. *)
AliveInv == spc # "idle" => alive

IInv == TmpInv /\ CleanInv /\ AliveInv

(* There is no manager yet. *)
LEMMA InitIInv == Init => IInv
  BY DEF Init, IInv, TmpInv, CleanInv, AliveInv

(* The images depend on the manager's memory only. *)
LEMMA ImageUnchanged ==
    ASSUME UNCHANGED memVars
    PROVE  /\ Images' = Images /\ Parts' = Parts
           /\ \A n, m : Part(n, m)' = Part(n, m)
  BY DEF memVars, Images, Parts, Part, Body, Sealed

(* The methods that need the mutex and set m_dirty. *)
LEMMA MethodKeeps ==
    ASSUME IInv, spc = "idle", spc' = spc, dirty' = TRUE PROVE IInv'
  BY DEF IInv, TmpInv, CleanInv, AliveInv

(* One step of Save. *)
LEMMA SaveKeeps ==
    ASSUME IInv, SaveBegin \/ SaveBody \/ SaveCrc \/ SaveMove
    PROVE  IInv'
<1> USE DEF IInv
<1>1. CASE SaveBegin
  <2>1. Images' = Images
      BY <1>1, ImageUnchanged DEF SaveBegin
  <2> QED
      BY <1>1, <2>1 DEF SaveBegin, LockFree, TmpInv, CleanInv, AliveInv
<1>2. CASE SaveBody
  <2>1. Images' = Images /\ Parts' = Parts /\ \A n, m : Part(n, m)' = Part(n, m)
      BY <1>2, ImageUnchanged DEF SaveBody
  <2>2. tmp' = NoFile \/ \E p \in Parts' : tmp' = Part(p[1], p[2])'
      BY <1>2, <2>1 DEF SaveBody
  <2> QED
      BY <1>2, <2>1, <2>2 DEF SaveBody, TmpInv, CleanInv, AliveInv
<1>3. CASE SaveCrc
  <2>1. Images' = Images
      BY <1>3, ImageUnchanged DEF SaveCrc
  <2>2. tmp' \in Images
    <3>1. CASE tmp = NoFile
        BY <1>3, <3>1 DEF SaveCrc, Images, Sealed, NoFile
    <3>2. CASE \E p \in Parts : tmp = Part(p[1], p[2])
        BY <1>3, <3>2 DEF SaveCrc, Images
    <3> QED
        BY <1>3, <3>1, <3>2 DEF SaveCrc, TmpInv
  <2> QED
      BY <1>3, <2>1, <2>2 DEF SaveCrc, TmpInv, CleanInv, AliveInv
<1>4. CASE SaveMove
  <2>1. tmp \in Images /\ spc' = "idle" /\ alive
      BY <1>4 DEF SaveMove, SaveReturn, TmpInv, AliveInv
  <2>2. CASE ending
      BY <1>4, <2>1, <2>2 DEF SaveMove, SaveReturn, TmpInv, CleanInv, AliveInv
  <2>3. CASE ~ending
    <3>1. Images' = Images /\ alive' = TRUE
        BY <1>4, <2>3, ImageUnchanged DEF SaveMove, SaveReturn
    <3>2. CASE file' = tmp
        BY <2>1, <3>1, <3>2 DEF TmpInv, CleanInv, AliveInv
    <3>3. CASE UNCHANGED <<file, dirty, hasSaved>>
        BY <2>1, <3>1, <3>3 DEF TmpInv, CleanInv, AliveInv
    <3> QED
        BY <1>4, <3>2, <3>3 DEF SaveMove
  <2> QED
      BY <2>2, <2>3
<1> QED
    BY <1>1, <1>2, <1>3, <1>4

(* Every step keeps the invariant. *)
LEMMA NextKeeps == ASSUME IInv, [Next]_vars PROVE IInv'
<1>1. CASE Initialize
    BY <1>1 DEF Initialize, IInv, TmpInv, CleanInv, AliveInv
<1>2. CASE CreateVersion
    BY <1>2, MethodKeeps DEF CreateVersion, LockFree
<1>3. CASE InitFullBlocks
    BY <1>3, MethodKeeps DEF InitFullBlocks, LockFree
<1>4. ASSUME NEW S \in SUBSET (1 .. N), UpdateIncrementalBlocks(S) PROVE IInv'
    BY <1>4, MethodKeeps DEF UpdateIncrementalBlocks, LockFree
<1>5. ASSUME NEW f \in 1 .. N, NEW l \in 1 .. N,
             NEW status \in Acks, SetBlockAckRange(f, l, status)
      PROVE  IInv'
    BY <1>5, MethodKeeps DEF SetBlockAckRange, LockFree
<1>6. CASE SetBlockHash
    BY <1>6, MethodKeeps DEF SetBlockHash, LockFree
<1>7. CASE SaveBegin \/ SaveBody \/ SaveCrc \/ SaveMove
    BY <1>7, SaveKeeps
<1>8. CASE Destroy
  <2>1. CASE spc' = "body" /\ UNCHANGED <<alive, memVars, dirty, file, hasSaved>>
    <3>1. Images' = Images
        BY <2>1, ImageUnchanged
    <3> QED
        BY <1>8, <2>1, <3>1 DEF Destroy, LockFree, IInv, TmpInv, CleanInv, AliveInv
  <2>2. CASE alive' = FALSE /\ spc' = spc
      BY <1>8, <2>2 DEF Destroy, LockFree, IInv, TmpInv, CleanInv, AliveInv
  <2> QED
      BY <1>8, <2>1, <2>2 DEF Destroy
<1>9. CASE Crash
    BY <1>9 DEF Crash, IInv, TmpInv, CleanInv, AliveInv
<1>10. CASE UNCHANGED vars
  <2>1. Images' = Images /\ Parts' = Parts /\ \A n, m : Part(n, m)' = Part(n, m)
      BY <1>10, ImageUnchanged DEF vars
  <2>2. UNCHANGED <<alive, dirty, spc, tmp, file, hasSaved>>
      BY <1>10 DEF vars
  <2> QED
      BY <2>1, <2>2 DEF IInv, TmpInv, CleanInv, AliveInv
<1> QED
    BY <1>1, <1>2, <1>3, <1>4, <1>5, <1>6, <1>7, <1>8, <1>9, <1>10 DEF Next

(* A Save replaces the file only by the state the manager has at that      *)
(* moment, wherever the process dies and whatever the other thread does;   *)
(* on a full volume its end may be missing.                                *)
THEOREM CommitIsOfOneState == Spec => CommitOfOneState
<1>1. IInv /\ [Next]_vars => [file' # file => file' \in Images]_vars
  <2> SUFFICES ASSUME IInv, Next, file' # file PROVE file' \in Images
      BY DEF vars
  <2>1. SaveMove
      BY DEF Next, Initialize, CreateVersion, InitFullBlocks, UpdateIncrementalBlocks,
             SetBlockAckRange, SetBlockHash, SaveBegin, SaveBody, SaveCrc, Destroy, Crash
  <2> QED
      BY <2>1 DEF SaveMove, IInv, TmpInv
<1>2. IInv /\ [Next]_vars => IInv'
    BY NextKeeps
<1> QED
    BY InitIInv, <1>1, <1>2, PTL DEF Spec, CommitOfOneState

(* A manager that has saved and is not dirty has put its present state in  *)
(* the file, also after a further Save that failed.                        *)
THEOREM CleanIsSaved == Spec => []CleanMeansSaved
<1>1. IInv => CleanMeansSaved
    BY DEF IInv, CleanInv, CleanMeansSaved
<1>2. IInv /\ [Next]_vars => IInv'
    BY NextKeeps
<1> QED
    BY InitIInv, <1>1, <1>2, PTL DEF Spec

-----------------------------------------------------------------------------
(* Types, for any volume. *)

(* A function on 1 .. n is a sequence of length n. *)
LEMMA FunctionIsSeq ==
    ASSUME NEW S, NEW n \in Nat, NEW f \in [1 .. n -> S]
    PROVE  f \in Seq(S) /\ Len(f) = n /\ DOMAIN f = 1 .. n
  BY SeqDef

(* The types of the manager's memory. *)
MemOK ==
    /\ blocks \in Seq(BlockRec) /\ Len(blocks) <= N /\ total \in 0 .. N
    /\ versions \in Seq(VersionRec) /\ Len(versions) <= MaxVersions

(* A file has no more blocks and versions than a manager. *)
FileOK(f) == f \in FileRec /\ Len(f.blocks) <= N /\ Len(f.vers) <= MaxVersions

TypeInv ==
    /\ MemOK /\ FileOK(tmp) /\ FileOK(file)
    /\ alive \in BOOLEAN /\ dirty \in BOOLEAN /\ ending \in BOOLEAN /\ hasSaved \in BOOLEAN
    /\ regular \in BOOLEAN
    /\ spc \in {"idle", "body", "crc", "move"}

(* The domains and the lengths of the two tables. *)
LEMMA MemFacts ==
    ASSUME MemOK
    PROVE  /\ N \in Nat \ {0} /\ MaxVersions \in Nat \ {0}
           /\ Len(blocks) \in 0 .. N /\ DOMAIN blocks = 1 .. Len(blocks)
           /\ Len(versions) \in 0 .. MaxVersions /\ DOMAIN versions = 1 .. Len(versions)
           /\ \A b \in 1 .. Len(blocks) : blocks[b] \in BlockRec
           /\ \A v \in 1 .. Len(versions) : versions[v] \in VersionRec
           /\ blocks \in [1 .. Len(blocks) -> BlockRec]
           /\ versions \in [1 .. Len(versions) -> VersionRec]
  BY StateFileAssumption, LenProperties DEF MemOK

(* An empty file, and an empty memory. *)
LEMMA NothingOK ==
    /\ FileOK(NoFile)
    /\ <<>> \in Seq(BlockRec) /\ <<>> \in Seq(VersionRec) /\ Len(<<>>) = 0
    /\ Gone => MemOK'
<1>1. <<>> \in Seq(BlockRec) /\ <<>> \in Seq(VersionRec) /\ Len(<<>>) = 0
    BY EmptySeq
<1>2. 0 \in 0 .. N /\ 0 \in 0 .. MaxVersions /\ 0 <= N /\ 0 <= MaxVersions
    BY StateFileAssumption
<1>3. NoCrc \in Nat \X Nat \X Nat
    BY DEF NoCrc
<1>4. NoFile \in FileRec
    BY <1>1, <1>2, <1>3 DEF NoFile, FileRec
<1> QED
    BY <1>1, <1>2, <1>4 DEF NoFile, FileOK, Gone, MemOK

(* What Save writes has the types of a file. *)
LEMMA BodyOK ==
    ASSUME MemOK, NEW bs \in Seq(BlockRec), Len(bs) <= N,
           NEW vs \in Seq(VersionRec), Len(vs) <= MaxVersions
    PROVE  FileOK(Body(bs, vs))
<1>1. NoCrc \in Nat \X Nat \X Nat
    BY DEF NoCrc
<1>2. total \in 0 .. N /\ Len(versions) \in 0 .. MaxVersions
    BY MemFacts DEF MemOK
<1>3. Body(bs, vs) \in FileRec
    BY <1>1, <1>2 DEF Body, FileRec
<1> QED
    BY <1>3 DEF Body, FileOK

(* A prefix of a sequence is a sequence, and no longer. *)
LEMMA PrefixOK ==
    ASSUME NEW S, NEW q \in Seq(S), NEW L \in Nat, Len(q) <= L, NEW n \in 0 .. Len(q)
    PROVE  SubSeq(q, 1, n) \in Seq(S) /\ Len(SubSeq(q, 1, n)) <= L
<1>1. Len(q) \in Nat /\ n \in Nat /\ n <= Len(q) /\ \A k \in 1 .. n : q[k] \in S
    BY LenProperties
<1>2. SubSeq(q, 1, n) \in Seq(S)
    BY <1>1, SubSeqProperties
<1>3. Len(SubSeq(q, 1, n)) = IF 1 <= n THEN n - 1 + 1 ELSE 0
    BY <1>1, SubSeqProperties
<1> QED
    BY <1>1, <1>2, <1>3

(* The checksum changes nothing else. *)
LEMMA SealedOK ==
    ASSUME NEW f, FileOK(f)
    PROVE  /\ FileOK(Sealed(f)) /\ Sealed(f).blocks = f.blocks /\ Sealed(f).vers = f.vers
<1>1. f \in FileRec /\ f.total \in Nat /\ f.nver \in Nat
    BY StateFileAssumption DEF FileOK, FileRec
<1>2. Checksum(CRC_OFFSET, f) \in Nat \X Nat \X Nat
    BY <1>1 DEF Checksum, CRC_OFFSET
<1> HIDE DEF Checksum
<1>3. [f EXCEPT !.crc = Checksum(CRC_OFFSET, f)] \in FileRec
    BY <1>1, <1>2 DEF FileRec
<1> QED
    BY <1>1, <1>3 DEF FileOK, Sealed, FileRec

(* The methods keep the types of the memory. *)
LEMMA CreateTypes == ASSUME MemOK, CreateVersion PROVE MemOK'
<1>1. [changed |-> 0, acked |-> 0] \in VersionRec
    BY StateFileAssumption DEF VersionRec
<1>2. /\ versions' = Append(versions, [changed |-> 0, acked |-> 0]) /\ Len(versions) < MaxVersions
      /\ UNCHANGED <<blocks, total>>
    BY DEF CreateVersion
<1>3. versions' \in Seq(VersionRec) /\ Len(versions') = Len(versions) + 1
    BY <1>1, <1>2, AppendProperties DEF MemOK
<1> QED
    BY <1>2, <1>3, MemFacts DEF MemOK

(* The same for a full round. *)
LEMMA FullTypes == ASSUME MemOK, InitFullBlocks PROVE MemOK' /\ Len(blocks') = N
<1>1. N \in Nat /\ Last \in 1 .. MaxVersions /\ MaxVersions \in Nat /\ Last = Len(versions)
    BY MemFacts DEF InitFullBlocks, Last
<1>2. [changed |-> TRUE, ack |-> "Pending", ver |-> Last - 1] \in BlockRec
    BY <1>1 DEF BlockRec, Acks
<1>3. FullBlocks \in [1 .. N -> BlockRec]
    BY <1>2 DEF FullBlocks
<1>4. blocks' \in Seq(BlockRec) /\ Len(blocks') = N
    BY <1>1, <1>3, FunctionIsSeq DEF InitFullBlocks
<1>5. [versions[Last] EXCEPT !.changed = N] \in VersionRec
    BY <1>1, MemFacts DEF VersionRec
<1>6. versions' \in [1 .. Len(versions) -> VersionRec]
    BY <1>1, <1>5, MemFacts DEF InitFullBlocks
<1>7. versions' \in Seq(VersionRec) /\ Len(versions') = Len(versions)
    BY <1>6, MemFacts, FunctionIsSeq
<1> QED
    BY <1>1, <1>4, <1>7 DEF InitFullBlocks, MemOK

(* The same for an incremental round. *)
LEMMA IncrementalTypes ==
    ASSUME MemOK, NEW S \in SUBSET (1 .. N), UpdateIncrementalBlocks(S)
    PROVE  MemOK' /\ Len(blocks') = Len(blocks) /\ Len(versions') = Len(versions)
<1>1. N \in Nat /\ Last \in 1 .. MaxVersions /\ MaxVersions \in Nat /\ Last = Len(versions)
    BY MemFacts DEF UpdateIncrementalBlocks, Last
<1>2. [changed |-> TRUE, ack |-> "Pending", ver |-> Last - 1] \in BlockRec
    BY <1>1 DEF BlockRec, Acks
<1>3. \A b \in 1 .. Len(blocks) : [blocks[b] EXCEPT !.changed = FALSE, !.ack = "Skipped"] \in BlockRec
    BY MemFacts DEF BlockRec, Acks
<1>4. Incremental(S) \in [1 .. Len(blocks) -> BlockRec]
    BY <1>2, <1>3, MemFacts DEF Incremental
<1>5. blocks' \in Seq(BlockRec) /\ Len(blocks') = Len(blocks)
    BY <1>4, MemFacts, FunctionIsSeq DEF UpdateIncrementalBlocks
<1>6. Cardinality(S) \in 0 .. N
  <2>1. IsFiniteSet(1 .. N) /\ Cardinality(1 .. N) = N
    <3>1. 1 \in Int /\ N \in Int /\ ~(1 > N) /\ N - 1 + 1 = N
        BY StateFileAssumption
    <3> QED
        BY <3>1, FS_Interval
  <2>2. IsFiniteSet(S) /\ Cardinality(S) <= N
      BY <2>1, FS_Subset
  <2>3. Cardinality(S) \in Nat
      BY <2>2, FS_CardinalityType
  <2> QED
      BY <1>1, <2>2, <2>3
<1>7. [changed |-> Cardinality(S), acked |-> 0] \in VersionRec
    BY <1>6 DEF VersionRec
<1>8. versions' \in [1 .. Len(versions) -> VersionRec]
    BY <1>1, <1>7, MemFacts DEF UpdateIncrementalBlocks
<1>9. versions' \in Seq(VersionRec) /\ Len(versions') = Len(versions)
    BY <1>8, MemFacts, FunctionIsSeq
<1> QED
    BY <1>5, <1>9 DEF UpdateIncrementalBlocks, MemOK

(* The blocks that an answer for first .. last is about, and those of      *)
(* version v that it acknowledges first.                                   *)
Span(first, last) == (first .. last) \cap DOMAIN blocks
Newly(first, last, status, v) ==
    {b \in Span(first, last) : /\ blocks[b].ack # "Acknowledged" /\ status = "Acknowledged"
                               /\ blocks[b].ver = v - 1}

(* A set of blocks is finite, and its number one of 0, 1, ... *)
LEMMA BlockSetFinite ==
    ASSUME MemOK, NEW S, S \subseteq DOMAIN blocks
    PROVE  IsFiniteSet(S) /\ Cardinality(S) \in Nat
<1>1. IsFiniteSet(1 .. Len(blocks))
    BY MemFacts, FS_Interval
<1>2. IsFiniteSet(S)
    BY <1>1, MemFacts, FS_Subset
<1> QED
    BY <1>2, FS_CardinalityType

(* An answer: the states of the blocks and the counters of the versions    *)
(* after it.                                                               *)
LEMMA RangeEffect ==
    ASSUME MemOK, NEW first, NEW last, NEW status \in Acks,
           SetBlockAckRange(first, last, status)
    PROVE  /\ MemOK' /\ Len(blocks') = Len(blocks) /\ Len(versions') = Len(versions)
           /\ \A b \in 1 .. Len(blocks) :
                 /\ blocks'[b].changed = blocks[b].changed /\ blocks'[b].ver = blocks[b].ver
                 /\ blocks'[b].ack = IF b \in Span(first, last) THEN status ELSE blocks[b].ack
           /\ \A v \in 1 .. Len(versions) :
                 /\ versions'[v].changed = versions[v].changed
                 /\ versions'[v].acked = versions[v].acked
                                           + Cardinality(Newly(first, last, status, v))
           /\ regular' => regular /\ RegularAnswer(Span(first, last), status)
           /\ regular \in BOOLEAN => regular' \in BOOLEAN
<1>1. /\ blocks' = [b \in DOMAIN blocks |->
                        IF b \in Span(first, last) THEN [blocks[b] EXCEPT !.ack = status]
                                   ELSE blocks[b]]
      /\ versions' = [v \in DOMAIN versions |->
                          [versions[v] EXCEPT !.acked = @ + Cardinality(Newly(first, last, status, v))]]
      /\ total' = total
      /\ regular' = (regular /\ RegularAnswer(Span(first, last), status))
    BY DEF SetBlockAckRange, Span, Newly
<1>2. \A v : Cardinality(Newly(first, last, status, v)) \in Nat
    BY BlockSetFinite DEF Newly, Span
<1> HIDE DEF Newly
<1>3. \A b \in 1 .. Len(blocks) : [blocks[b] EXCEPT !.ack = status] \in BlockRec
    BY MemFacts DEF BlockRec, Acks
<1>4. ASSUME NEW b \in 1 .. Len(blocks)
      PROVE  /\ blocks'[b] \in BlockRec
             /\ blocks'[b].changed = blocks[b].changed /\ blocks'[b].ver = blocks[b].ver
             /\ blocks'[b].ack = IF b \in Span(first, last) THEN status ELSE blocks[b].ack
  <2>1. blocks'[b] = IF b \in Span(first, last) THEN [blocks[b] EXCEPT !.ack = status] ELSE blocks[b]
      BY <1>1, MemFacts
  <2>2. blocks[b] \in BlockRec
      BY MemFacts
  <2> QED
      BY <2>1, <2>2, <1>3 DEF BlockRec
<1>5. ASSUME NEW v \in 1 .. Len(versions)
      PROVE  /\ versions'[v] \in VersionRec
             /\ versions'[v].changed = versions[v].changed
             /\ versions'[v].acked = versions[v].acked + Cardinality(Newly(first, last, status, v))
  <2> DEFINE c == Cardinality(Newly(first, last, status, v))
  <2>0. c \in Nat
      BY <1>2
  <2>1. versions'[v] = [versions[v] EXCEPT !.acked = @ + c]
      BY <1>1, MemFacts
  <2> HIDE DEF c
  <2>2. versions[v] \in VersionRec
      BY MemFacts
  <2>3. /\ versions'[v].changed = versions[v].changed /\ versions'[v].acked = versions[v].acked + c
        /\ versions'[v] \in VersionRec
      BY <2>0, <2>1, <2>2 DEF VersionRec
  <2> QED
      BY <2>3 DEF c
<1>6. blocks' \in [1 .. Len(blocks) -> BlockRec]
    BY <1>1, <1>4, MemFacts
<1>7. versions' \in [1 .. Len(versions) -> VersionRec]
    BY <1>1, <1>5, MemFacts
<1>8. blocks' \in Seq(BlockRec) /\ Len(blocks') = Len(blocks)
    BY <1>6, MemFacts, FunctionIsSeq
<1>9. versions' \in Seq(VersionRec) /\ Len(versions') = Len(versions)
    BY <1>7, MemFacts, FunctionIsSeq
<1> QED
    BY <1>1, <1>4, <1>5, <1>8, <1>9 DEF MemOK

(* Every step keeps the types, also on a volume that fills up. *)
LEMMA TypesKeep == ASSUME TypeInv, [Next]_vars PROVE TypeInv'
<1> USE DEF TypeInv
<1>1. CASE Initialize
  <2>1. /\ total' = file.total /\ blocks' \in {file.blocks, <<>>} /\ versions' \in {file.vers, <<>>}
        /\ UNCHANGED <<spc, ending, tmp, file, regular>> /\ alive' = TRUE /\ dirty' = FALSE /\ hasSaved' = FALSE
      BY <1>1 DEF Initialize, Load
  <2>2. /\ file.total \in 0 .. N /\ file.blocks \in Seq(BlockRec) /\ file.vers \in Seq(VersionRec)
        /\ Len(file.blocks) <= N /\ Len(file.vers) <= MaxVersions
      BY DEF FileOK, FileRec
  <2>3. 0 <= N /\ 0 <= MaxVersions
      BY StateFileAssumption
  <2>4. MemOK'
      BY <2>1, <2>2, <2>3, NothingOK DEF MemOK
  <2> QED
      BY <2>1, <2>4 DEF FileOK
<1>m. ASSUME MemOK', UNCHANGED <<alive, spc, ending, tmp, file, hasSaved>>, dirty' = TRUE,
             regular' \in BOOLEAN
      PROVE  TypeInv'
    BY <1>m DEF FileOK
<1>2. CASE CreateVersion
    BY <1>2, <1>m, CreateTypes DEF CreateVersion
<1>3. CASE InitFullBlocks
    BY <1>3, <1>m, FullTypes DEF InitFullBlocks
<1>4. ASSUME NEW S \in SUBSET (1 .. N), UpdateIncrementalBlocks(S) PROVE TypeInv'
    BY <1>4, <1>m, IncrementalTypes DEF UpdateIncrementalBlocks
<1>5. ASSUME NEW f \in 1 .. N, NEW l \in 1 .. N,
             NEW status \in Acks, SetBlockAckRange(f, l, status)
      PROVE  TypeInv'
  <2>1. MemOK' /\ regular' \in BOOLEAN
      BY <1>5, RangeEffect
  <2> QED
      BY <1>5, <1>m, <2>1 DEF SetBlockAckRange
<1>u. UNCHANGED memVars => MemOK'
    BY DEF memVars, MemOK
<1>6. CASE SetBlockHash
    BY <1>6, <1>m, <1>u DEF SetBlockHash
<1>7. CASE SaveBegin
    BY <1>7, <1>u, NothingOK DEF SaveBegin, FileOK
<1>8. CASE SaveBody
  <2>1. FileOK(tmp')
    <3>1. CASE tmp' = NoFile
        BY <3>1, NothingOK
    <3>2. ASSUME NEW p \in Parts, tmp' = Part(p[1], p[2])
          PROVE  FileOK(tmp')
      <4>1. p[1] \in 0 .. Len(blocks) /\ p[2] \in 0 .. Len(versions)
          BY <3>2 DEF Parts
      <4>2. /\ SubSeq(blocks, 1, p[1]) \in Seq(BlockRec) /\ Len(SubSeq(blocks, 1, p[1])) <= N
            /\ SubSeq(versions, 1, p[2]) \in Seq(VersionRec)
            /\ Len(SubSeq(versions, 1, p[2])) <= MaxVersions
          BY <4>1, PrefixOK, StateFileAssumption DEF MemOK
      <4> QED
          BY <3>2, <4>2, BodyOK DEF Part
    <3> QED
        BY <1>8, <3>1, <3>2 DEF SaveBody
  <2> QED
      BY <1>8, <2>1, <1>u DEF SaveBody, FileOK
<1>9. CASE SaveCrc
    BY <1>9, <1>u, SealedOK DEF SaveCrc, FileOK
<1>10. CASE SaveMove
  <2>1. MemOK'
      BY <1>10, <1>u, NothingOK DEF SaveMove, SaveReturn
  <2>2. FileOK(file')
      BY <1>10 DEF SaveMove, FileOK
  <2>3. /\ spc' = "idle" /\ ending' = FALSE /\ alive' = ~ending /\ tmp' = NoFile
        /\ dirty' \in BOOLEAN /\ hasSaved' \in BOOLEAN /\ regular' \in BOOLEAN
      BY <1>10 DEF SaveMove, SaveReturn
  <2> QED
      BY <2>1, <2>2, <2>3, NothingOK DEF FileOK
<1>11. CASE Destroy
    BY <1>11, <1>u, NothingOK DEF Destroy, FileOK
<1>12. CASE Crash
    BY <1>12, NothingOK DEF Crash, FileOK
<1>13. CASE UNCHANGED vars
    BY <1>13, <1>u DEF vars, FileOK
<1> QED
    BY <1>1, <1>2, <1>3, <1>4, <1>5, <1>6, <1>7, <1>8, <1>9, <1>10, <1>11, <1>12, <1>13 DEF Next

(* The types hold throughout. *)
LEMMA TypeInvariance == Spec => []TypeInv
<1>1. Init => TypeInv
  <2> SUFFICES ASSUME Init PROVE TypeInv
      OBVIOUS
  <2>1. 0 <= N /\ 0 <= MaxVersions /\ 0 \in 0 .. N
      BY StateFileAssumption
  <2>2. MemOK
      BY <2>1, NothingOK DEF Init, MemOK
  <2> QED
      BY <2>2, NothingOK DEF Init, TypeInv
<1>2. TypeInv /\ [Next]_vars => TypeInv'
    BY TypesKeep
<1> QED
    BY <1>1, <1>2, PTL DEF Spec

(* The manager's members and both files keep their types, for any number   *)
(* of blocks and versions, wherever the process dies and also when the     *)
(* volume fills up in the middle of a Save.                                *)
THEOREM TypeCorrect == Spec => []TypeOK
<1>1. TypeInv => TypeOK
    BY DEF TypeInv, TypeOK, MemOK, FileOK
<1> QED
    BY <1>1, TypeInvariance, PTL

-----------------------------------------------------------------------------
(* The counters and the resume point. *)

(* The blocks of version v that are acknowledged, and that are still owed. *)
Done(bs, v) == {b \in DOMAIN bs : bs[b].ver = v - 1 /\ bs[b].ack = "Acknowledged"}
Owed(bs, v) == {b \in DOMAIN bs : /\ bs[b].ver = v - 1 /\ bs[b].changed
                                  /\ bs[b].ack # "Acknowledged"}

(* A block belongs to a version there is; it is acknowledged only if it    *)
(* was changed, and skipped only if not.                                   *)
GoodBlocks(bs, vs) ==
    \A b \in DOMAIN bs : /\ bs[b].ver < Len(vs)
                         /\ bs[b].ack = "Acknowledged" => bs[b].changed
                         /\ bs[b].ack = "Skipped" => ~bs[b].changed

(* AckCountExact is not inductive: an answer may still come for a block of *)
(* an older version, so each version needs room for all its owed blocks.   *)
GoodCounts(bs, vs) ==
    /\ \A v \in DOMAIN vs : vs[v].acked + Cardinality(Owed(bs, v)) <= vs[v].changed
    /\ Len(vs) > 0 => vs[Len(vs)].acked = Cardinality(Done(bs, Len(vs)))

Good(bs, vs) == GoodBlocks(bs, vs) /\ GoodCounts(bs, vs)

(* What Load would have to find in the file to accept it is never there:   *)
(* Save computes the checksum over the first bytes of the header only.     *)
NeverAccepted(f) == f.crc[1] # HEADER_SIZE

CountInv ==
    /\ regular => Good(blocks, versions)
    /\ NeverAccepted(file) /\ NeverAccepted(tmp)

(* The elements a block and a version have, as numbers. *)
LEMMA RecordFacts ==
    ASSUME MemOK
    PROVE  /\ \A b \in 1 .. Len(blocks) : blocks[b].ver \in Nat /\ blocks[b].changed \in BOOLEAN
           /\ \A v \in 1 .. Len(versions) : versions[v].acked \in Nat /\ versions[v].changed \in Nat
  BY MemFacts DEF BlockRec, VersionRec

(* A version just created has no blocks, and so nothing to count. *)
LEMMA CreateGood ==
    ASSUME MemOK, Good(blocks, versions), CreateVersion
    PROVE  Good(blocks, versions)'
<1> DEFINE e == [changed |-> 0, acked |-> 0]
<1> DEFINE n == Len(versions)
<1>1. e \in VersionRec /\ e.acked = 0 /\ e.changed = 0
    BY StateFileAssumption DEF VersionRec
<1>2. versions' = Append(versions, e) /\ blocks' = blocks
    BY DEF CreateVersion
<1> HIDE DEF e
<1>3. /\ Len(versions') = n + 1 /\ \A v \in 1 .. n : versions'[v] = versions[v]
      /\ versions'[n + 1] = e /\ versions' \in Seq(VersionRec)
    BY <1>1, <1>2, AppendProperties DEF MemOK
<1>4. n \in Nat /\ DOMAIN versions = 1 .. n /\ DOMAIN versions' = 1 .. n + 1
    BY <1>3, MemFacts, LenProperties
<1>5. \A b \in DOMAIN blocks : blocks[b].ver \in Nat /\ blocks[b].ver < n
    BY MemFacts, RecordFacts DEF Good, GoodBlocks
<1>6. Owed(blocks, n + 1) = {} /\ Done(blocks, n + 1) = {}
    BY <1>4, <1>5 DEF Owed, Done
<1>7. Cardinality({}) = 0
    BY FS_EmptySet
<1>8. GoodBlocks(blocks, versions)'
    BY <1>2, <1>3, <1>4, <1>5 DEF Good, GoodBlocks
<1>9. ASSUME NEW v \in DOMAIN versions'
      PROVE  versions'[v].acked + Cardinality(Owed(blocks, v)) <= versions'[v].changed
  <2>1. CASE v \in 1 .. n
    <3>1. versions'[v] = versions[v] /\ v \in DOMAIN versions
        BY <1>3, <1>4, <2>1
    <3> QED
        BY <3>1 DEF Good, GoodCounts
  <2>2. CASE v = n + 1
    <3>1. Cardinality(Owed(blocks, v)) = 0 /\ versions'[v] = e
        BY <1>3, <1>6, <1>7, <2>2
    <3> QED
        BY <1>1, <3>1
  <2> QED
      BY <1>4, <1>9, <2>1, <2>2
<1>10. GoodCounts(blocks, versions)'
  <2>1. Owed(blocks, 0)' = Owed(blocks, 0)' /\ \A v : Owed(blocks', v) = Owed(blocks, v)
      BY <1>2
  <2>2. versions'[Len(versions')].acked = Cardinality(Done(blocks', Len(versions')))
      BY <1>1, <1>2, <1>3, <1>6, <1>7
  <2> QED
      BY <1>2, <1>9, <2>2 DEF GoodCounts, Owed, Done
<1> QED
    BY <1>8, <1>10 DEF Good

(* A full round leaves every block owed to the newest version. *)
LEMMA FullGood ==
    ASSUME MemOK, Good(blocks, versions), InitFullBlocks
    PROVE  Good(blocks, versions)'
<1> DEFINE n == Len(versions)
<1>1. /\ n \in Nat /\ n > 0 /\ N \in Nat /\ Last = n /\ DOMAIN versions = 1 .. n
      /\ versions[n].changed = 0 /\ versions \in [1 .. n -> VersionRec]
    BY MemFacts DEF InitFullBlocks, Last
<1>2. MemOK' /\ Len(blocks') = N
    BY FullTypes
<1>3. versions' = [versions EXCEPT ![n].changed = N] /\ blocks' = FullBlocks
    BY <1>1 DEF InitFullBlocks
<1>4. /\ Len(versions') = n /\ DOMAIN versions' = 1 .. n
      /\ \A v \in 1 .. n : v # n => versions'[v] = versions[v]
      /\ versions'[n].changed = N /\ versions'[n].acked = versions[n].acked
  <2>1. versions[n] \in VersionRec
      BY <1>1
  <2>2. /\ \A v \in 1 .. n : v # n => versions'[v] = versions[v]
        /\ versions'[n] = [versions[n] EXCEPT !.changed = N]
        /\ DOMAIN versions' = 1 .. n
      BY <1>1, <1>3
  <2>3. versions' \in Seq(VersionRec)
      BY <1>2 DEF MemOK
  <2>4. Len(versions') = n
    <3>1. Len(versions') \in Nat /\ DOMAIN versions' = 1 .. Len(versions')
        BY <2>3, LenProperties
    <3> QED
        BY <1>1, <2>2, <3>1
  <2> QED
      BY <2>1, <2>2, <2>4 DEF VersionRec
<1>5. /\ DOMAIN blocks' = 1 .. N
      /\ \A b \in 1 .. N : /\ blocks'[b].changed = TRUE /\ blocks'[b].ack = "Pending"
                           /\ blocks'[b].ver = n - 1
    BY <1>1, <1>3 DEF FullBlocks
<1>6. versions[n].acked = 0
  <2>1. versions[n].acked + Cardinality(Owed(blocks, n)) <= 0
      BY <1>1 DEF Good, GoodCounts
  <2>2. Cardinality(Owed(blocks, n)) \in Nat /\ versions[n].acked \in Nat
      BY <1>1, BlockSetFinite, RecordFacts DEF Owed
  <2> QED
      BY <2>1, <2>2
<1>7. Cardinality({}) = 0 /\ Cardinality(1 .. N) = N
  <2>1. 1 \in Int /\ N \in Int /\ ~(1 > N) /\ N - 1 + 1 = N
      BY StateFileAssumption
  <2> QED
      BY <2>1, FS_EmptySet, FS_Interval
<1>8. GoodBlocks(blocks', versions')
  <2>1. n - 1 < n
      BY <1>1
  <2>2. \A b \in 1 .. N : /\ blocks'[b].ver < n /\ blocks'[b].changed
                          /\ blocks'[b].ack # "Acknowledged" /\ blocks'[b].ack # "Skipped"
      BY <1>5, <2>1
  <2> QED
      BY <1>4, <1>5, <2>2 DEF GoodBlocks
<1>9. Owed(blocks', n) = 1 .. N /\ Done(blocks', n) = {}
    BY <1>5 DEF Owed, Done
<1>10. ASSUME NEW v \in 1 .. n, v # n PROVE Owed(blocks', v) = {}
  <2>0. n \in Int /\ v \in Int /\ \A x, y \in Int : x - 1 = y - 1 => x = y
      BY <1>1
  <2>1. n - 1 # v - 1
      BY <2>0, <1>10
  <2> QED
      BY <1>5, <2>1 DEF Owed
<1>11. ASSUME NEW v \in DOMAIN versions'
       PROVE  versions'[v].acked + Cardinality(Owed(blocks', v)) <= versions'[v].changed
  <2>1. CASE v = n
    <3>1. Cardinality(Owed(blocks', v)) = N /\ versions'[v].acked = 0 /\ versions'[v].changed = N
        BY <1>4, <1>6, <1>7, <1>9, <2>1
    <3> QED
        BY <1>1, <3>1
  <2>2. CASE v # n
    <3>1. v \in 1 .. n /\ versions'[v] = versions[v] /\ Owed(blocks', v) = {}
        BY <1>4, <1>10, <2>2, <1>11
    <3>2. versions[v].acked + Cardinality(Owed(blocks, v)) <= versions[v].changed
        BY <1>1, <3>1 DEF Good, GoodCounts
    <3>3. Cardinality(Owed(blocks, v)) \in Nat /\ versions[v].acked \in Nat /\ versions[v].changed \in Nat
        BY <1>1, <3>1, BlockSetFinite, RecordFacts DEF Owed
    <3> QED
        BY <1>7, <3>1, <3>2, <3>3
  <2> QED
      BY <2>1, <2>2
<1>12. versions'[n].acked = Cardinality(Done(blocks', n))
    BY <1>4, <1>6, <1>7, <1>9
<1> QED
    BY <1>4, <1>8, <1>11, <1>12 DEF Good, GoodCounts, GoodBlocks, Owed, Done

(* An incremental round: the changed blocks are owed to the newest         *)
(* version, the others to none.                                            *)
LEMMA IncrementalGood ==
    ASSUME MemOK, Good(blocks, versions), NEW S \in SUBSET (1 .. N), UpdateIncrementalBlocks(S)
    PROVE  Good(blocks, versions)'
<1> DEFINE n == Len(versions)
<1> DEFINE m == Len(blocks)
<1> DEFINE c == Cardinality(S)
<1>1. /\ n \in Nat /\ n > 0 /\ Last = n /\ DOMAIN versions = 1 .. n /\ DOMAIN blocks = 1 .. m
      /\ versions \in [1 .. n -> VersionRec]
    BY MemFacts DEF UpdateIncrementalBlocks, Last
<1>2. MemOK' /\ Len(blocks') = m /\ Len(versions') = n
    BY IncrementalTypes
<1>3. versions' = [versions EXCEPT ![n] = [changed |-> c, acked |-> 0]] /\ blocks' = Incremental(S)
    BY <1>1 DEF UpdateIncrementalBlocks
<1> HIDE DEF c
<1>4. /\ DOMAIN versions' = 1 .. n
      /\ \A v \in 1 .. n : v # n => versions'[v] = versions[v]
      /\ versions'[n].changed = c /\ versions'[n].acked = 0
    BY <1>1, <1>3
<1>5. /\ DOMAIN blocks' = 1 .. m
      /\ \A b \in 1 .. m : b \in S => /\ blocks'[b].changed = TRUE /\ blocks'[b].ack = "Pending"
                                      /\ blocks'[b].ver = n - 1
      /\ \A b \in 1 .. m : b \notin S => /\ blocks'[b].changed = FALSE /\ blocks'[b].ack = "Skipped"
                                         /\ blocks'[b].ver = blocks[b].ver
  <2>1. \A b \in 1 .. m : blocks[b] \in BlockRec
      BY MemFacts
  <2>2. DOMAIN blocks' = 1 .. m /\ \A b \in 1 .. m :
           blocks'[b] = IF b \in S THEN [changed |-> TRUE, ack |-> "Pending", ver |-> n - 1]
                        ELSE [blocks[b] EXCEPT !.changed = FALSE, !.ack = "Skipped"]
      BY <1>1, <1>3 DEF Incremental
  <2>3. ASSUME NEW b \in 1 .. m, b \in S
        PROVE  /\ blocks'[b].changed = TRUE /\ blocks'[b].ack = "Pending"
               /\ blocks'[b].ver = n - 1
    <3>1. blocks'[b] = [changed |-> TRUE, ack |-> "Pending", ver |-> n - 1]
        BY <2>2, <2>3
    <3> QED
        BY <3>1
  <2>4. ASSUME NEW b \in 1 .. m, b \notin S
        PROVE  /\ blocks'[b].changed = FALSE /\ blocks'[b].ack = "Skipped"
               /\ blocks'[b].ver = blocks[b].ver
    <3>1. blocks'[b] = [blocks[b] EXCEPT !.changed = FALSE, !.ack = "Skipped"]
        BY <2>2, <2>4
    <3> QED
        BY <2>1, <3>1 DEF BlockRec
  <2> QED
      BY <2>2, <2>3, <2>4
<1>6. GoodBlocks(blocks', versions')
  <2>1. \A b \in 1 .. m : blocks[b].ver < n /\ n - 1 < n
      BY <1>1 DEF Good, GoodBlocks
  <2> QED
      BY <1>2, <1>5, <2>1 DEF GoodBlocks
<1>7. Owed(blocks', n) \subseteq S /\ Done(blocks', n) = {}
    BY <1>5 DEF Owed, Done
<1>8. ASSUME NEW v \in 1 .. n, v # n PROVE Owed(blocks', v) = {}
  <2>0. n \in Int /\ v \in Int /\ \A x, y \in Int : x - 1 = y - 1 => x = y
      BY <1>1
  <2>1. n - 1 # v - 1
      BY <2>0, <1>8
  <2>2. \A b \in 1 .. m : blocks'[b].ver = n - 1 \/ blocks'[b].changed = FALSE
      BY <1>5
  <2> QED
      BY <1>5, <2>1, <2>2 DEF Owed
<1>9. Cardinality({}) = 0
    BY FS_EmptySet
<1>10. Cardinality(Owed(blocks', n)) <= c /\ c \in Nat /\ Cardinality(Owed(blocks', n)) \in Nat
  <2>1. IsFiniteSet(1 .. N)
      BY StateFileAssumption, FS_Interval
  <2>2. IsFiniteSet(S)
      BY <2>1, FS_Subset
  <2> QED
      BY <1>7, <2>2, FS_Subset, FS_CardinalityType DEF c
<1>11. ASSUME NEW v \in DOMAIN versions'
       PROVE  versions'[v].acked + Cardinality(Owed(blocks', v)) <= versions'[v].changed
  <2>1. CASE v = n
      BY <1>4, <1>10, <2>1
  <2>2. CASE v # n
    <3>1. v \in 1 .. n /\ versions'[v] = versions[v] /\ Owed(blocks', v) = {}
        BY <1>4, <1>8, <2>2, <1>11
    <3>2. versions[v].acked + Cardinality(Owed(blocks, v)) <= versions[v].changed
        BY <1>1, <3>1 DEF Good, GoodCounts
    <3>3. Cardinality(Owed(blocks, v)) \in Nat /\ versions[v].acked \in Nat /\ versions[v].changed \in Nat
        BY <1>1, <3>1, BlockSetFinite, RecordFacts DEF Owed
    <3> QED
        BY <1>9, <3>1, <3>2, <3>3
  <2> QED
      BY <2>1, <2>2
<1>12. versions'[n].acked = Cardinality(Done(blocks', n))
    BY <1>4, <1>7, <1>9
<1> QED
    BY <1>2, <1>6, <1>11, <1>12 DEF Good, GoodCounts, GoodBlocks, Owed, Done

(* An answer moves blocks from owed to acknowledged, in each version by    *)
(* the number its counter goes up.                                         *)
LEMMA RangeGood ==
    ASSUME MemOK, Good(blocks, versions), NEW first, NEW last,
           NEW status \in Acks, SetBlockAckRange(first, last, status), regular'
    PROVE  Good(blocks, versions)'
<1> DEFINE n == Len(versions)
<1> DEFINE m == Len(blocks)
<1> DEFINE S == Span(first, last)
<1> DEFINE New(v) == Newly(first, last, status, v)
<1>1. /\ MemOK' /\ Len(blocks') = m /\ Len(versions') = n
      /\ \A b \in 1 .. m : /\ blocks'[b].changed = blocks[b].changed
                           /\ blocks'[b].ver = blocks[b].ver
                           /\ blocks'[b].ack = IF b \in S THEN status ELSE blocks[b].ack
      /\ \A v \in 1 .. n : /\ versions'[v].changed = versions[v].changed
                           /\ versions'[v].acked = versions[v].acked + Cardinality(New(v))
      /\ \A b \in S : NeedsUpload(b) \/ blocks[b].ack = status
      /\ status \in {"Acknowledged", "Failed"}
    BY RangeEffect DEF RegularAnswer
<1>2. /\ n \in Nat /\ DOMAIN versions = 1 .. n /\ DOMAIN blocks = 1 .. m
      /\ DOMAIN versions' = 1 .. n /\ DOMAIN blocks' = 1 .. m /\ S \subseteq 1 .. m
    BY <1>1, MemFacts, LenProperties DEF MemOK, Span
<1>3. \A b \in 1 .. m : /\ blocks[b].ack = "Acknowledged" => blocks[b].changed
                        /\ blocks[b].ack = "Skipped" => ~blocks[b].changed
                        /\ blocks[b].ver < n
    BY <1>2 DEF Good, GoodBlocks
<1>4. \A b \in S :
         \/ blocks[b].changed /\ (blocks[b].ack = "Acknowledged" => status = "Acknowledged")
         \/ blocks[b].ack = "Failed" /\ status = "Failed"
    BY <1>1, <1>2, <1>3 DEF NeedsUpload
<1>5. GoodBlocks(blocks', versions')
  <2>1. ASSUME NEW b \in 1 .. m
        PROVE  /\ blocks'[b].ver < n
               /\ blocks'[b].ack = "Acknowledged" => blocks'[b].changed
               /\ blocks'[b].ack = "Skipped" => ~blocks'[b].changed
      BY <1>1, <1>3, <1>4
  <2> QED
      BY <1>1, <1>2, <2>1 DEF GoodBlocks
<1>6. ASSUME NEW v \in 1 .. n
      PROVE  /\ New(v) \subseteq Owed(blocks, v) /\ Owed(blocks', v) = Owed(blocks, v) \ New(v)
             /\ Done(blocks', v) = Done(blocks, v) \cup New(v) /\ Done(blocks, v) \cap New(v) = {}
  <2>1. New(v) = {b \in S : /\ blocks[b].ack # "Acknowledged" /\ status = "Acknowledged"
                            /\ blocks[b].ver = v - 1}
      BY DEF Newly
  <2>2. ASSUME NEW b \in 1 .. m
        PROVE  /\ b \in New(v) => b \in Owed(blocks, v) /\ b \notin Done(blocks, v)
               /\ b \in Owed(blocks', v) <=> b \in Owed(blocks, v) /\ b \notin New(v)
               /\ b \in Done(blocks', v) <=> b \in Done(blocks, v) \/ b \in New(v)
    <3>1. b \in New(v) <=> /\ b \in S /\ blocks[b].ack # "Acknowledged"
                           /\ status = "Acknowledged" /\ blocks[b].ver = v - 1
        BY <2>1
    <3>2. b \in Owed(blocks, v) <=> blocks[b].ver = v - 1 /\ blocks[b].changed /\ blocks[b].ack # "Acknowledged"
        BY <1>2 DEF Owed
    <3>3. b \in Done(blocks, v) <=> blocks[b].ver = v - 1 /\ blocks[b].ack = "Acknowledged"
        BY <1>2 DEF Done
    <3>4. b \in Owed(blocks', v) <=> blocks'[b].ver = v - 1 /\ blocks'[b].changed /\ blocks'[b].ack # "Acknowledged"
        BY <1>2 DEF Owed
    <3>5. b \in Done(blocks', v) <=> blocks'[b].ver = v - 1 /\ blocks'[b].ack = "Acknowledged"
        BY <1>2 DEF Done
    <3> HIDE DEF New
    <3>6. CASE b \in S
        BY <3>1, <3>2, <3>3, <3>4, <3>5, <3>6, <1>1, <1>4
    <3>7. CASE b \notin S
        BY <3>1, <3>2, <3>3, <3>4, <3>5, <3>7, <1>1
    <3> QED
        BY <3>6, <3>7
  <2>3. /\ New(v) \subseteq 1 .. m /\ Owed(blocks, v) \subseteq 1 .. m /\ Owed(blocks', v) \subseteq 1 .. m
        /\ Done(blocks, v) \subseteq 1 .. m /\ Done(blocks', v) \subseteq 1 .. m
      BY <1>2, <2>1 DEF Owed, Done
  <2> HIDE DEF New
  <2> QED
      BY <2>2, <2>3
<1>7. ASSUME NEW v \in 1 .. n
      PROVE  /\ versions'[v].acked + Cardinality(Owed(blocks', v)) <= versions'[v].changed
             /\ versions[v].acked = Cardinality(Done(blocks, v))
                   => versions'[v].acked = Cardinality(Done(blocks', v))
  <2> DEFINE o == Cardinality(Owed(blocks, v))
  <2> DEFINE k == Cardinality(New(v))
  <2> DEFINE d == Cardinality(Done(blocks, v))
  <2>1. /\ IsFiniteSet(Owed(blocks, v)) /\ IsFiniteSet(New(v)) /\ IsFiniteSet(Done(blocks, v))
        /\ o \in Nat /\ k \in Nat /\ d \in Nat
    <3>1. /\ Owed(blocks, v) \subseteq DOMAIN blocks /\ New(v) \subseteq DOMAIN blocks
          /\ Done(blocks, v) \subseteq DOMAIN blocks
        BY DEF Owed, Done, Newly, Span
    <3> QED
        BY <3>1, BlockSetFinite
  <2> HIDE DEF New
  <2>2. Cardinality(Owed(blocks', v)) = o - k
    <3>1. Owed(blocks, v) \cap New(v) = New(v) /\ Owed(blocks', v) = Owed(blocks, v) \ New(v)
        BY <1>6
    <3>2. Cardinality(Owed(blocks, v) \ New(v)) = o - Cardinality(Owed(blocks, v) \cap New(v))
        BY <2>1, FS_Difference
    <3> QED
        BY <3>1, <3>2
  <2>3. Cardinality(Done(blocks', v)) = d + k
    <3>1. Cardinality(Done(blocks, v) \cup New(v)) = d + k - Cardinality(Done(blocks, v) \cap New(v))
        BY <2>1, FS_Union
    <3>2. Done(blocks, v) \cap New(v) = {} /\ Done(blocks', v) = Done(blocks, v) \cup New(v)
        BY <1>6
    <3>3. Cardinality({}) = 0
        BY FS_EmptySet
    <3>4. Cardinality(Done(blocks', v)) = d + k - 0
        BY <3>1, <3>2, <3>3
    <3> QED
        BY <2>1, <3>4
  <2>4. /\ versions'[v].changed = versions[v].changed /\ versions'[v].acked = versions[v].acked + k
      BY <1>1
  <2>5. versions[v].acked \in Nat /\ versions[v].changed \in Nat
      BY RecordFacts
  <2>6. versions[v].acked + o <= versions[v].changed
      BY <1>2 DEF Good, GoodCounts
  <2> HIDE DEF o, k, d
  <2>7. versions[v].acked + k + (o - k) <= versions[v].changed
      BY <2>1, <2>5, <2>6
  <2>8. versions[v].acked = d => versions[v].acked + k = d + k
      OBVIOUS
  <2> QED
      BY <2>2, <2>3, <2>4, <2>7, <2>8 DEF d
<1>8. GoodCounts(blocks', versions')
  <2>1. n > 0 => n \in 1 .. n /\ versions[n].acked = Cardinality(Done(blocks, n))
      BY <1>2 DEF Good, GoodCounts
  <2> QED
      BY <1>1, <1>2, <1>7, <2>1 DEF GoodCounts
<1> QED
    BY <1>5, <1>8 DEF Good, GoodCounts, GoodBlocks, Owed, Done

(* An empty memory counts nothing. *)
LEMMA NothingGood == Good(<<>>, <<>>)
<1>1. DOMAIN <<>> = {} /\ Len(<<>>) = 0
    OBVIOUS
<1> QED
    BY <1>1 DEF Good, GoodBlocks, GoodCounts

(* A set of natural numbers has a least element. *)
LEMMA LeastElement ==
    ASSUME NEW S \in SUBSET Nat, S # {}
    PROVE  \E s \in S : \A t \in S : s <= t
<1> DEFINE Below == {0 .. s : s \in S}
<1>1. Below \subseteq FiniteSubsetsOf(Nat) /\ Below # {}
  <2>1. ASSUME NEW s \in S PROVE 0 .. s \in FiniteSubsetsOf(Nat)
    <3>1. s \in Nat /\ IsFiniteSet(0 .. s) /\ 0 .. s \subseteq Nat
        BY FS_Interval
    <3> QED
        BY <3>1 DEF FiniteSubsetsOf
  <2> QED
      BY <2>1
<1>2. PICK X \in Below : \A Y \in Below : <<Y, X>> \notin StrictSubsetOrdering(Nat)
  <2> HIDE DEF Below
  <2>1. IsWellFoundedOn(StrictSubsetOrdering(Nat), FiniteSubsetsOf(Nat))
      BY FS_StrictSubsetOrderingWellFounded
  <2> QED
      BY <1>1, <2>1, WFMin
<1>3. PICK s \in S : X = 0 .. s
    OBVIOUS
<1>4. ASSUME NEW t \in S, t < s PROVE FALSE
  <2>1. 0 .. t \in Below /\ 0 .. t \subseteq 0 .. s /\ 0 .. t # 0 .. s
      BY <1>4
  <2>2. 0 .. t \in SUBSET Nat /\ 0 .. s \in SUBSET Nat
      OBVIOUS
  <2>3. <<0 .. t, 0 .. s>> \in StrictSubsetOrdering(Nat)
      BY <2>1, <2>2 DEF StrictSubsetOrdering
  <2> QED
      BY <1>2, <1>3, <2>1, <2>3
<1> QED
    BY <1>4

(* GetLastAcknowledgedBlock stops at the first block that is neither       *)
(* acknowledged nor skipped.                                               *)
LEMMA ResumePoint ==
    ASSUME MemOK
    PROVE  /\ GetLastAcknowledgedBlock \in 0 .. Len(blocks)
           /\ \A b \in 1 .. GetLastAcknowledgedBlock : blocks[b].ack \in {"Acknowledged", "Skipped"}
<1> DEFINE Through(b) == blocks[b].ack \in {"Acknowledged", "Skipped"}
<1> DEFINE Stops == {n \in 0 .. Len(blocks) : n < Len(blocks) => ~Through(n + 1)}
<1>1. Len(blocks) \in Nat
    BY MemFacts
<1>2. Stops \in SUBSET Nat /\ Len(blocks) \in Stops
    BY <1>1
<1>3. PICK n \in Stops : \A t \in Stops : n <= t
    BY <1>2, LeastElement
<1>4. ASSUME NEW b \in 1 .. n PROVE Through(b)
  <2>1. b - 1 \in 0 .. Len(blocks) /\ b - 1 < n /\ b - 1 < Len(blocks) /\ b - 1 + 1 = b
      BY <1>1, <1>3
  <2>2. b - 1 \notin Stops
      BY <1>1, <1>3, <2>1
  <2> HIDE DEF Through
  <2> QED
      BY <2>1, <2>2
<1>5. \E k \in 0 .. Len(blocks) :
         /\ \A b \in 1 .. k : blocks[b].ack \in {"Acknowledged", "Skipped"}
         /\ k < Len(blocks) => blocks[k + 1].ack \notin {"Acknowledged", "Skipped"}
    BY <1>3, <1>4
<1> QED
    BY <1>5 DEF GetLastAcknowledgedBlock

(* The files Save makes have the checksum of the short header, or none. *)
LEMMA PartNeverAccepted ==
    /\ NeverAccepted(NoFile)
    /\ \A n, m : NeverAccepted(Part(n, m))
    /\ \A f : f \in FileRec /\ NeverAccepted(f) => NeverAccepted(Sealed(f))
  BY DEF NeverAccepted, NoFile, NoCrc, Part, Body, Sealed, Checksum, HEADER_SIZE, CRC_OFFSET,
         FileRec

(* Every step keeps the counters. *)
LEMMA CountsKeep == ASSUME TypeInv, CountInv, [Next]_vars PROVE CountInv'
<1>0. MemOK /\ FileOK(file) /\ FileOK(tmp)
    BY DEF TypeInv
<1>k. ASSUME UNCHANGED <<file, tmp>>, regular' => Good(blocks, versions)' PROVE CountInv'
    BY <1>k DEF CountInv, NeverAccepted
<1>u. ASSUME UNCHANGED <<memVars, regular>> PROVE regular' => Good(blocks, versions)'
    BY <1>u DEF memVars, CountInv, Good, GoodBlocks, GoodCounts, Owed, Done
<1>g. ASSUME blocks' = <<>>, versions' = <<>> PROVE Good(blocks, versions)'
  <2>1. Good(blocks', versions')
      BY <1>g, NothingGood
  <2> QED
      BY <2>1 DEF Good, GoodBlocks, GoodCounts, Owed, Done
<1>1. CASE Initialize
  <2>1. ~LoadOk
      BY DEF LoadOk, CountInv, NeverAccepted, Checksum
  <2> QED
      BY <1>1, <2>1, <1>k, <1>g DEF Initialize, Load
<1>2. CASE CreateVersion
    BY <1>0, <1>2, <1>k, CreateGood DEF CreateVersion, CountInv
<1>3. CASE InitFullBlocks
    BY <1>0, <1>3, <1>k, FullGood DEF InitFullBlocks, CountInv
<1>4. ASSUME NEW S \in SUBSET (1 .. N), UpdateIncrementalBlocks(S) PROVE CountInv'
    BY <1>0, <1>4, <1>k, IncrementalGood DEF UpdateIncrementalBlocks, CountInv
<1>5. ASSUME NEW f \in 1 .. N, NEW l \in 1 .. N,
             NEW status \in Acks, SetBlockAckRange(f, l, status)
      PROVE  CountInv'
  <2>1. regular' => regular
      BY <1>5 DEF SetBlockAckRange
  <2>2. regular' => Good(blocks, versions)'
      BY <1>0, <1>5, <2>1, RangeGood DEF CountInv
  <2> QED
      BY <1>5, <1>k, <2>2 DEF SetBlockAckRange
<1>6. CASE SetBlockHash
    BY <1>6, <1>k, <1>u DEF SetBlockHash
<1>7. CASE SaveBegin \/ SaveBody \/ SaveCrc
  <2>1. UNCHANGED <<memVars, regular, file>>
      BY <1>7 DEF SaveBegin, SaveBody, SaveCrc
  <2>2. NeverAccepted(tmp')
      BY <1>0, <1>7, PartNeverAccepted DEF SaveBegin, SaveBody, SaveCrc, CountInv, FileOK
  <2> QED
      BY <1>u, <2>1, <2>2 DEF CountInv, NeverAccepted
<1>8. CASE SaveMove
  <2>1. regular' => Good(blocks, versions)'
      BY <1>8, <1>g, <1>u DEF SaveMove, SaveReturn, Gone
  <2>2. NeverAccepted(file') /\ NeverAccepted(tmp')
      BY <1>8, PartNeverAccepted DEF SaveMove, SaveReturn, CountInv
  <2> QED
      BY <2>1, <2>2 DEF CountInv, NeverAccepted
<1>9. CASE Destroy
  <2>1. regular' => Good(blocks, versions)'
      BY <1>9, <1>g, <1>u DEF Destroy, Gone
  <2>2. file' = file /\ (tmp' = tmp \/ tmp' = NoFile)
      BY <1>9 DEF Destroy
  <2>3. NeverAccepted(file') /\ NeverAccepted(tmp')
      BY <2>2, PartNeverAccepted DEF CountInv
  <2> QED
      BY <2>1, <2>3 DEF CountInv, NeverAccepted
<1>10. CASE Crash
  <2>1. Good(blocks, versions)' /\ NeverAccepted(file') /\ NeverAccepted(tmp')
      BY <1>10, <1>g, PartNeverAccepted DEF Crash, Gone, CountInv
  <2> QED
      BY <2>1 DEF CountInv, NeverAccepted
<1>11. CASE UNCHANGED vars
    BY <1>11, <1>k, <1>u DEF vars
<1> QED
    BY <1>1, <1>2, <1>3, <1>4, <1>5, <1>6, <1>7, <1>8, <1>9, <1>10, <1>11 DEF Next

(* The counters agree with the blocks throughout. *)
LEMMA CountInvariance == Spec => [](TypeInv /\ CountInv)
<1>1. Init => CountInv
  <2> SUFFICES ASSUME Init PROVE CountInv
      OBVIOUS
  <2>1. blocks = <<>> /\ versions = <<>> /\ file = NoFile /\ tmp = NoFile
      BY DEF Init
  <2> QED
      BY <2>1, NothingGood, PartNeverAccepted DEF CountInv
<1>2. TypeInv /\ CountInv /\ [Next]_vars => CountInv'
    BY CountsKeep
<1> QED
    BY <1>1, <1>2, TypeInvariance, PTL DEF Spec

(* For any number of blocks and versions, through any series of full and   *)
(* incremental rounds, answers of BackupEngine, saves, crashes and         *)
(* restarts: AckedBlocks of the newest version is the number of its        *)
(* acknowledged blocks, and no version has more acknowledged than changed  *)
(* blocks.                                                                 *)
THEOREM CountersAreExact == Spec => []AckCountExact
<1>1. TypeInv /\ CountInv => AckCountExact
  <2> SUFFICES ASSUME TypeInv, CountInv, regular PROVE AckCountExact
      BY DEF AckCountExact
  <2>0. MemOK
      BY DEF TypeInv
  <2>1. ASSUME NEW v \in DOMAIN versions PROVE versions[v].acked <= versions[v].changed
    <3>1. v \in 1 .. Len(versions)
        BY <2>0, MemFacts
    <3>2. versions[v].acked \in Nat /\ versions[v].changed \in Nat
        BY <2>0, <3>1, RecordFacts
    <3>3. Cardinality(Owed(blocks, v)) \in Nat
        BY <2>0, BlockSetFinite DEF Owed
    <3>4. versions[v].acked + Cardinality(Owed(blocks, v)) <= versions[v].changed
        BY DEF CountInv, Good, GoodCounts
    <3> QED
        BY <3>2, <3>3, <3>4
  <2>2. Last > 0 => versions[Last].acked = Cardinality(Done(blocks, Last))
      BY DEF CountInv, Good, GoodCounts, Last
  <2> QED
      BY <2>1, <2>2 DEF AckCountExact, Done
<1> QED
    BY <1>1, CountInvariance, PTL

(* With the answers of BackupEngine, a transfer resumed at                 *)
(* GetLastAcknowledgedBlock leaves out no block that is still to be        *)
(* uploaded, after any series of rounds.                                   *)
THEOREM ResumeIsSafe == Spec => []ResumePointSafe
<1>1. TypeInv /\ CountInv => ResumePointSafe
  <2> SUFFICES ASSUME TypeInv, CountInv, regular, NEW b \in 1 .. GetLastAcknowledgedBlock
               PROVE  ~NeedsUpload(b)
      BY DEF ResumePointSafe
  <2>0. MemOK
      BY DEF TypeInv
  <2>1. blocks[b].ack \in {"Acknowledged", "Skipped"} /\ GetLastAcknowledgedBlock \in 0 .. Len(blocks)
      BY <2>0, ResumePoint
  <2>2. b \in DOMAIN blocks
      BY <2>0, <2>1, MemFacts
  <2> QED
      BY <2>1, <2>2 DEF CountInv, Good, GoodBlocks, NeedsUpload
<1> QED
    BY <1>1, CountInvariance, PTL
=============================================================================
