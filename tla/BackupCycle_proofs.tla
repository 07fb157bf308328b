-------------------------- MODULE BackupCycle_proofs --------------------------
(***************************************************************************)
(* Proofs about BackupCycle, for every disk and every set of contents: the *)
(* types, BitsCoverStale and FailureKeepsBits.                             *)
(***************************************************************************)
EXTENDS BackupCycle, TLAPS

\* Content d, taken of block b, is out of date only if b is reported, and will
\* only be once b is reported.
Tracked(b, d) == Reported(b) /\ (d = disk[b] \/ b \in bits)

\* The image, at the blocks all of whose writes are reported.
BaseInv == vol <= 0 => \A b \in base : Tracked(b, image[b])

\* The blocks on the wire.
WireInv == vol <= 0 => \A m \in wire : m.reported => Tracked(m.blk, m.data)

\* The snapshot.
FreshInv == vol = 0 => \A b \in fresh : Tracked(b, snap[b])

\* The bits of the last query.
SeenInv == seen \subseteq bits

Inv == TypeOK /\ BaseInv /\ WireInv /\ FreshInv /\ SeenInv

-----------------------------------------------------------------------------
\* The variables that Finish gives up.
LEMMA FinishTypes ==
    ASSUME TypeOK, NEW r \in BOOLEAN, Finish(r)
    PROVE  /\ pc' = "done" /\ ret' \in BOOLEAN /\ kind' = "full"
           /\ changed' = {} /\ have' = FALSE
           /\ snap' \in [Blocks -> Data \cup {None}]
           /\ hash' \in [Blocks -> Data \cup {None}]
           /\ pending' = {} /\ fresh' = {}
    BY DEF Finish, Live

\* A bitmap that is forgotten leaves nothing owed.
LEMMA ForgetTypes ==
    ASSUME TypeOK, Forget
    PROVE  /\ bits' = {} /\ fresh' = {} /\ base' = {}
           /\ wire' \subseteq [blk : Blocks, data : Data, reported : BOOLEAN]
           /\ \A m \in wire' : ~ m.reported
    BY DEF Forget, TypeOK

\* Where the data of a block comes from.
LEMMA SourceType ==
    ASSUME TypeOK, NEW b \in Blocks, Source(b) # None
    PROVE  Source(b) \in Data
    BY DEF TypeOK, Source

\* What is parsed are blocks.
LEMMA ParseType == ASSUME NEW S PROVE ParseChangedBlocks(S) \subseteq Blocks
    BY DEF ParseChangedBlocks

-----------------------------------------------------------------------------
\* Every step keeps the types.
LEMMA TypeStep == TypeOK /\ [Next]_vars => TypeOK'
<1> SUFFICES ASSUME TypeOK, [Next]_vars PROVE TypeOK'
    OBVIOUS
<1> USE CycleAssumption
<1>1. ASSUME NEW b \in Blocks, Land(b) PROVE TypeOK'
    BY <1>1 DEF Land, TypeOK, runVars
<1>2. ASSUME NEW b \in Blocks, NEW d \in Data, Write(b, d) PROVE TypeOK'
    BY <1>2 DEF Write, Mark, TypeOK, runVars
<1>3. CASE LoadDriver
    BY <1>3, ForgetTypes DEF LoadDriver, Disturb, TypeOK, runVars
<1>4. CASE UnloadDriver
    BY <1>4, ForgetTypes DEF UnloadDriver, Disturb, TypeOK, runVars
<1>5. CASE OperatorReset
    BY <1>5, ForgetTypes DEF OperatorReset, Disturb, TypeOK, runVars
<1>6. ASSUME NEW k \in {"full", "inc"}, Start(k) PROVE TypeOK'
    BY <1>6 DEF Start, TypeOK, diskVars
<1>7. CASE Connect
  <2>1. CASE Finish(FALSE) /\ UNCHANGED <<loaded, bits, wire, seen, base>>
    BY <1>7, <2>1, FinishTypes DEF Connect, TypeOK
  <2>2. CASE Goto("query") /\ loaded' = TRUE /\ loaded
             /\ UNCHANGED <<bits, wire, seen, fresh, base>>
             /\ UNCHANGED <<changed, have, snap, hash, pending>>
    BY <1>7, <2>2 DEF Connect, Goto, TypeOK
  <2>3. CASE Goto("query") /\ loaded' = TRUE /\ Disturb
             /\ UNCHANGED <<changed, have, snap, hash, pending>>
    BY <1>7, <2>3, ForgetTypes DEF Connect, Goto, Disturb, TypeOK
  <2> QED BY <1>7, <2>1, <2>2, <2>3 DEF Connect, TypeOK
<1>8. CASE Query
  <2>1. CASE Finish(FALSE) /\ UNCHANGED seen
    BY <1>8, <2>1, FinishTypes DEF Query, TypeOK, diskVars
  <2>2. CASE Finish(TRUE) /\ seen' = {}
    BY <1>8, <2>2, FinishTypes DEF Query, TypeOK, diskVars
  <2>3. CASE /\ seen' = bits /\ changed' = ParseChangedBlocks(bits)
             /\ Goto("snapshot")
             /\ UNCHANGED <<have, snap, hash, pending, fresh>>
    BY <1>8, <2>3, ParseType DEF Query, Goto, TypeOK, diskVars
  <2> QED BY <1>8, <2>1, <2>2, <2>3 DEF Query
<1>9. CASE Snapshot
  <2>1. CASE Finish(FALSE)
    BY <1>9, <2>1, FinishTypes DEF Snapshot, TypeOK, diskVars
  <2>2. CASE /\ Goto("state")
             /\ snap' = IF vol >= 0 THEN disk ELSE Live
             /\ fresh' = {b \in Blocks : Reported(b)}
             /\ UNCHANGED <<changed, have, hash, pending>>
    BY <1>9, <2>2 DEF Snapshot, Goto, Live, TypeOK, diskVars
  <2> QED BY <1>9, <2>1, <2>2 DEF Snapshot
<1>10. CASE State
    BY <1>10 DEF State, Goto, TypeOK, diskVars
<1>11. CASE Server
  <2>1. CASE Finish(FALSE) /\ Save
    BY <1>11, <2>1, FinishTypes DEF Server, Save, TypeOK, diskVars
  <2>2. CASE /\ Goto(IF kind = "full" THEN "send" ELSE "hash")
             /\ pending' = IF kind = "full" THEN Blocks ELSE {}
             /\ UNCHANGED <<records, changed, have, snap, hash, fresh>>
    BY <1>11, <2>2 DEF Server, Goto, TypeOK, diskVars
  <2> QED BY <1>11, <2>1, <2>2 DEF Server
<1>12. CASE Hash
  <2>1. 0 \in Blocks
    BY DEF Blocks
  <2>2. hash' \in [Blocks -> Data \cup {None}] /\ pending' \subseteq Blocks
    BY <1>12, <2>1 DEF Hash, TypeOK
  <2> QED BY <1>12, <2>2 DEF Hash, Goto, TypeOK, diskVars
<1>13. CASE Send
  <2>1. PICK b \in pending :
            /\ pending' = pending \ {b}
            /\ \/ /\ Acceptable(b) /\ wire = {}
                  /\ wire' = {[blk |-> b, data |-> Source(b), reported |-> Covered(b)]}
               \/ UNCHANGED wire
    BY <1>13 DEF Send
  <2>2. b \in Blocks
    BY <2>1 DEF TypeOK
  <2>3. Covered(b) \in BOOLEAN
    <3>1. (loaded /\ (landing[b] = None \/ b \in bits)) \in BOOLEAN
      OBVIOUS
    <3>2. (b \in fresh) \in BOOLEAN
      OBVIOUS
    <3> QED BY <3>1, <3>2, Zenon DEF Covered, Reported
  <2>4. wire' \subseteq [blk : Blocks, data : Data, reported : BOOLEAN]
    BY <2>1, <2>2, <2>3, SourceType DEF Acceptable, TypeOK
  <2> QED BY <1>13, <2>1, <2>4 DEF Send, TypeOK, diskVars
<1>14. CASE Store
  <2>1. PICK m \in wire :
            /\ wire' = {}
            /\ \/ image' = [image EXCEPT ![m.blk] = m.data]
               \/ image' = [image EXCEPT ![m.blk] = None]
            /\ base' \subseteq base \cup {m.blk}
    BY <1>14 DEF Store
  <2>2. m.blk \in Blocks /\ m.data \in Data
    BY DEF TypeOK
  <2>3. image' \in [Blocks -> Data \cup {None}] /\ base' \subseteq Blocks
    BY <2>1, <2>2 DEF TypeOK
  <2> QED BY <1>14, <2>1, <2>3 DEF Store, TypeOK, diskVars
<1>15. CASE Lose
    BY <1>15 DEF Lose, TypeOK, diskVars, runVars
<1>16. CASE EndFull
    BY <1>16, FinishTypes DEF EndFull, Save, TypeOK, diskVars
<1>17. CASE Reset
  <2>1. /\ bits' \subseteq Blocks /\ base' \subseteq Blocks
        /\ wire' \subseteq [blk : Blocks, data : Data, reported : BOOLEAN]
    BY <1>17, ForgetTypes DEF Reset, Disturb, TypeOK
  <2>2. seen' \subseteq Blocks /\ fresh' \subseteq Blocks
    BY <1>17, ForgetTypes DEF Reset, Disturb, TypeOK
  <2> QED BY <1>17, <2>1, <2>2 DEF Reset, Goto, TypeOK
<1>21. CASE EndIncremental
    BY <1>21, FinishTypes DEF EndIncremental, Save, TypeOK, diskVars
<1>18. CASE ClientCrash
    BY <1>18, FinishTypes DEF ClientCrash, TypeOK, diskVars
<1>19. CASE Reboot
    BY <1>19, FinishTypes, ForgetTypes DEF Reboot, Disturb, TypeOK
<1>20. CASE UNCHANGED vars
    BY <1>20 DEF vars, TypeOK, diskVars, runVars
<1> QED
    BY <1>1, <1>2, <1>3, <1>4, <1>5, <1>6, <1>7, <1>8, <1>9, <1>10, <1>11, <1>12,
       <1>13, <1>14, <1>15, <1>16, <1>17, <1>18, <1>19, <1>20, <1>21 DEF Next

-----------------------------------------------------------------------------
\* A step that leaves the disk and the bitmap alone leaves what is tracked.
LEMMA StillTracked ==
    ASSUME UNCHANGED diskVars, NEW b, NEW d, Tracked(b, d)
    PROVE  Tracked(b, d)'
    BY DEF Tracked, Reported, diskVars

\* A write is marked before it lands.
LEMMA WriteTracked ==
    ASSUME TypeOK, NEW c \in Blocks, NEW e \in Data, Write(c, e),
           NEW b \in Blocks, NEW d, Tracked(b, d)
    PROVE  Tracked(b, d)'
    BY DEF Write, Mark, Tracked, Reported, TypeOK

\* It lands on a block that is marked, or was not tracked.
LEMMA LandTracked ==
    ASSUME TypeOK, NEW c \in Blocks, Land(c), NEW b \in Blocks, NEW d, Tracked(b, d)
    PROVE  Tracked(b, d)'
    BY DEF Land, Tracked, Reported, TypeOK

\* After a bitmap is forgotten the invariant holds of nothing.
LEMMA ForgetInv ==
    ASSUME TypeOK, Forget PROVE BaseInv' /\ WireInv' /\ FreshInv'
    BY ForgetTypes DEF BaseInv, WireInv, FreshInv

\* Data about to be sent, all of whose writes are reported, is tracked.
LEMMA SentTracked ==
    ASSUME Inv, vol <= 0, NEW b \in Blocks, Covered(b), Source(b) # None
    PROVE  Tracked(b, Source(b))
<1>1. CASE vol = -1
    BY <1>1 DEF Covered, Source, Tracked
<1>2. CASE vol = 0
  <2>1. b + vol = b
    BY <1>2 DEF Blocks
  <2>2. Source(b) = snap[b]
    BY <1>2, <2>1 DEF Source
  <2> QED BY <1>2, <2>2 DEF Covered, Inv, FreshInv
<1> QED BY <1>1, <1>2 DEF Inv, TypeOK

-----------------------------------------------------------------------------
\* Every step keeps the invariant.
LEMMA InvStep == Inv /\ [Next]_vars => Inv'
<1> SUFFICES ASSUME Inv, [Next]_vars PROVE BaseInv' /\ WireInv' /\ FreshInv' /\ SeenInv'
    BY TypeStep DEF Inv
<1> TypeOK
    BY DEF Inv
<1>q. ASSUME UNCHANGED diskVars, UNCHANGED <<image, wire, base>>,
             \/ fresh' = {}
             \/ UNCHANGED <<fresh, snap>>
      PROVE  BaseInv' /\ WireInv' /\ FreshInv'
    BY <1>q, StillTracked DEF Inv, BaseInv, WireInv, FreshInv, diskVars
<1>s. ASSUME UNCHANGED bits, UNCHANGED seen \/ seen' = {} \/ seen' = bits
      PROVE  SeenInv'
    BY <1>s DEF Inv, SeenInv
<1>1. ASSUME NEW c \in Blocks, Land(c) PROVE BaseInv' /\ WireInv' /\ FreshInv' /\ SeenInv'
  <2>1. UNCHANGED <<vol, bits, wire, image, snap, seen, fresh, base>>
    BY <1>1 DEF Land, runVars
  <2>2. \A b \in Blocks : \A d : Tracked(b, d) => Tracked(b, d)'
    BY <1>1, LandTracked
  <2> QED BY <1>s, <2>1, <2>2 DEF Inv, BaseInv, WireInv, FreshInv, TypeOK
<1>2. ASSUME NEW c \in Blocks, NEW e \in Data, Write(c, e)
      PROVE  BaseInv' /\ WireInv' /\ FreshInv' /\ SeenInv'
  <2>1. UNCHANGED <<vol, wire, image, snap, seen, fresh, base>> /\ bits \subseteq bits'
    BY <1>2 DEF Write, Mark, runVars
  <2>2. \A b \in Blocks : \A d : Tracked(b, d) => Tracked(b, d)'
    BY <1>2, WriteTracked
  <2> QED BY <2>1, <2>2 DEF Inv, BaseInv, WireInv, FreshInv, SeenInv, TypeOK
<1>3. ASSUME Disturb PROVE BaseInv' /\ WireInv' /\ FreshInv' /\ SeenInv'
    BY <1>3, ForgetInv DEF Disturb, SeenInv
<1>4. ASSUME NEW k \in {"full", "inc"}, Start(k)
      PROVE  BaseInv' /\ WireInv' /\ FreshInv' /\ SeenInv'
    BY <1>4, <1>q, <1>s DEF Start, diskVars
<1>5. CASE Connect
  <2>1. CASE Disturb
    BY <2>1, <1>3
  <2>2. CASE ~ Disturb
    <3>1. UNCHANGED diskVars /\ UNCHANGED <<image, wire, base, seen>>
      BY <1>5, <2>2 DEF Connect, diskVars, TypeOK
    <3>2. fresh' = {} \/ UNCHANGED <<fresh, snap>>
      BY <1>5, <2>2 DEF Connect, Finish
    <3> QED BY <3>1, <3>2, <1>q, <1>s DEF diskVars
  <2> QED BY <2>1, <2>2
<1>6. CASE Query
  <2>1. fresh' = {} \/ UNCHANGED <<fresh, snap>>
    BY <1>6 DEF Query, Finish
  <2> QED BY <1>6, <2>1, <1>q, <1>s DEF Query, diskVars
<1>7. CASE Snapshot
  <2>1. CASE Finish(FALSE)
    BY <1>7, <2>1, <1>q, <1>s DEF Snapshot, Finish, diskVars
  <2>2. CASE /\ snap' = IF vol >= 0 THEN disk ELSE Live
             /\ fresh' = {b \in Blocks : Reported(b)}
    <3>1. BaseInv' /\ WireInv' /\ SeenInv'
      BY <1>7, StillTracked DEF Snapshot, Inv, BaseInv, WireInv, SeenInv, diskVars
    <3>2. FreshInv'
      BY <1>7, <2>2 DEF Snapshot, FreshInv, Tracked, Reported, diskVars
    <3> QED BY <3>1, <3>2
  <2> QED BY <1>7, <2>1, <2>2 DEF Snapshot
<1>8. CASE State
    BY <1>8, <1>q, <1>s DEF State, diskVars
<1>9. CASE Server
  <2>1. fresh' = {} \/ UNCHANGED <<fresh, snap>>
    BY <1>9 DEF Server, Finish
  <2> QED BY <1>9, <2>1, <1>q, <1>s DEF Server, diskVars
<1>10. CASE Hash
    BY <1>10, <1>q, <1>s DEF Hash, diskVars
<1>11. CASE Send
  <2>1. BaseInv' /\ FreshInv' /\ SeenInv'
    BY <1>11, StillTracked DEF Send, Inv, BaseInv, FreshInv, SeenInv, diskVars
  <2>2. WireInv'
    <3>1. PICK b \in pending :
              \/ /\ Acceptable(b)
                 /\ wire' = {[blk |-> b, data |-> Source(b), reported |-> Covered(b)]}
              \/ UNCHANGED wire
      BY <1>11 DEF Send
    <3>2. CASE UNCHANGED wire
      BY <1>11, <3>2, StillTracked DEF Send, Inv, WireInv, diskVars
    <3>3. CASE /\ Acceptable(b)
               /\ wire' = {[blk |-> b, data |-> Source(b), reported |-> Covered(b)]}
      <4>1. b \in Blocks /\ Source(b) # None
        BY <3>1, <3>3 DEF TypeOK, Acceptable
      <4>2. vol <= 0 /\ Covered(b) => Tracked(b, Source(b))
        BY <4>1, SentTracked
      <4>3. UNCHANGED diskVars
        BY <1>11 DEF Send
      <4>4. vol <= 0 /\ Covered(b) => (Reported(b) /\ (Source(b) = disk[b] \/ b \in bits))
        BY <4>2 DEF Tracked
      <4>5. Reported(b)' = Reported(b) /\ disk' = disk /\ bits' = bits /\ vol' = vol
        BY <4>3 DEF Reported, diskVars
      <4> DEFINE d == Source(b)
                 r == Covered(b)
      <4>6. vol <= 0 /\ r => (Reported(b)' /\ (d = disk'[b] \/ b \in bits'))
        BY <4>4, <4>5
      <4>7. wire' = {[blk |-> b, data |-> d, reported |-> r]}
        BY <3>3
      <4> HIDE DEF d, r
      <4> QED BY <4>5, <4>6, <4>7 DEF WireInv, Tracked
    <3> QED BY <3>1, <3>2, <3>3
  <2> QED BY <2>1, <2>2
<1>12. CASE Store
  <2>1. FreshInv' /\ SeenInv'
    BY <1>12, StillTracked DEF Store, Inv, FreshInv, SeenInv, diskVars
  <2>2. WireInv'
    BY <1>12 DEF Store, WireInv
  <2>3. BaseInv'
    <3>1. PICK m \in wire :
              \/ /\ image' = [image EXCEPT ![m.blk] = m.data]
                 /\ base' = IF m.reported THEN base \cup {m.blk} ELSE base \ {m.blk}
              \/ /\ image' = [image EXCEPT ![m.blk] = None]
                 /\ base' = base \ {m.blk}
      BY <1>12 DEF Store
    <3>2. m.blk \in Blocks
      BY DEF TypeOK
    <3>3. UNCHANGED diskVars
      BY <1>12 DEF Store
    <3>4. ASSUME vol <= 0, NEW b \in base' PROVE Tracked(b, image[b]')
      <4>1. CASE b = m.blk
        <5>1. m.reported /\ image'[b] = m.data
          BY <3>1, <3>2, <3>4, <4>1 DEF TypeOK
        <5> QED BY <3>4, <4>1, <5>1 DEF Inv, WireInv
      <4>2. CASE b # m.blk
        <5>1. b \in base /\ image'[b] = image[b]
          BY <3>1, <3>2, <3>4, <4>2 DEF TypeOK
        <5> QED BY <3>4, <5>1 DEF Inv, BaseInv
      <4> QED BY <4>1, <4>2
    <3> QED BY <3>3, <3>4 DEF BaseInv, Tracked, Reported, diskVars
  <2> QED BY <2>1, <2>2, <2>3
<1>13. CASE Lose
  <2>1. WireInv'
    BY <1>13 DEF Lose, WireInv
  <2> QED BY <1>13, <2>1, StillTracked
          DEF Lose, Inv, BaseInv, FreshInv, SeenInv, diskVars, runVars
<1>14. CASE EndFull
    BY <1>14, <1>q, <1>s DEF EndFull, Finish, diskVars
<1>15. CASE Reset
  <2>1. CASE Disturb
    BY <2>1, <1>3
  <2>2. CASE UNCHANGED <<bits, wire, seen, fresh, base>>
    BY <1>15, <2>2, <1>q, <1>s DEF Reset, diskVars
  <2> QED BY <1>15, <2>1, <2>2 DEF Reset
<1>19. CASE EndIncremental
    BY <1>19, <1>q, <1>s DEF EndIncremental, Finish, diskVars
<1>16. CASE ClientCrash
    BY <1>16, <1>q, <1>s DEF ClientCrash, Finish, diskVars
<1>17. CASE UNCHANGED vars
    BY <1>17, <1>q, <1>s DEF vars, runVars, diskVars
<1>18. CASE LoadDriver \/ UnloadDriver \/ OperatorReset \/ Reboot
    BY <1>3, <1>18 DEF LoadDriver, UnloadDriver, OperatorReset, Reboot
<1> QED
    BY <1>1, <1>2, <1>4, <1>5, <1>6, <1>7, <1>8, <1>9, <1>10, <1>11, <1>12, <1>13,
       <1>14, <1>15, <1>16, <1>17, <1>18, <1>19 DEF Next

\* The invariant holds at first.
LEMMA InvInit == Init => Inv
    BY CycleAssumption
       DEF Init, Inv, TypeOK, BaseInv, WireInv, FreshInv, SeenInv, Live

\* The inductive invariant of the backup cycle: what the image, the wire and
\* the snapshot hold is up to date or reported.
THEOREM Invariance == Spec => []Inv
    BY InvInit, InvStep, PTL DEF Spec

(* The state of the machine, of the server and of the backup keeps its types *)
(* whatever number of blocks the disk has.                                   *)
THEOREM TypeCorrect == Spec => []TypeOK
<1>1. Inv => TypeOK
    BY DEF Inv
<1> QED BY Invariance, <1>1, PTL

(* No change escapes the bitmap: what differs from the image is reported,    *)
(* for writes, backups, crashes and resets in any order.                     *)
THEOREM NoChangeEscapes == Spec => []BitsCoverStale
<1>1. Inv => BitsCoverStale
    BY DEF Inv, BaseInv, Tracked, BitsCoverStale
<1> QED BY Invariance, <1>1, PTL

(* A backup that fails or dies before it has reset the bitmap leaves every   *)
(* bit it has read for the next one.                                         *)
THEOREM FailedBackupKeepsBits == Spec => []FailureKeepsBits
<1>1. Inv => FailureKeepsBits
    BY DEF Inv, SeenInv, FailureKeepsBits
<1> QED BY Invariance, <1>1, PTL

=============================================================================
