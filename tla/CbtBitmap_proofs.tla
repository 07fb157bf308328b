--------------------------- MODULE CbtBitmap_proofs ---------------------------
(***************************************************************************)
(* Proofs about CbtBitmap, for every number of threads, disk size, word    *)
(* size and set of writes: no set of a bit is lost, and the bitmap         *)
(* implements the atomic change set.  The block arithmetic of              *)
(* MarkBlockChanged is right for every disk size, block size and write of  *)
(* at least one byte.                                                      *)
(***************************************************************************)
EXTENDS CbtBitmap, TLAPS

-----------------------------------------------------------------------------
(* The block arithmetic. *)

\* Integer division, as the solver needs it with a symbolic divisor.
LEMMA DivDef ==
    ASSUME NEW a \in Nat, NEW d \in Nat \ {0}
    PROVE  /\ a \div d \in Nat
           /\ a = d * (a \div d) + (a % d)
           /\ a % d \in Nat /\ a % d < d
    OBVIOUS

\* A product grows with its factor.
LEMMA MulMono ==
    ASSUME NEW a \in Nat, NEW b \in Nat, NEW d \in Nat \ {0}
    PROVE  /\ a <= b => d * a <= d * b
           /\ a < b => d * a + d <= d * b
<1>1. a <= b => d * a <= d * b
    OBVIOUS
<1>2. d * (a + 1) = d * a + d
    OBVIOUS
<1>3. a < b => d * a + d <= d * b
    <2> SUFFICES ASSUME a < b PROVE d * (a + 1) <= d * b
        BY <1>2
    <2> DEFINE c == a + 1
    <2>1. c \in Nat /\ c <= b
        OBVIOUS
    <2> HIDE DEF c
    <2>2. d * c <= d * b
        BY <2>1
    <2> QED
        BY <2>2 DEF c
<1> QED
    BY <1>1, <1>3

\* The quotient is the one number whose block of d contains a.
LEMMA DivUnique ==
    ASSUME NEW a \in Nat, NEW d \in Nat \ {0}, NEW q \in Nat,
           d * q <= a, a < d * q + d
    PROVE  a \div d = q
<1> DEFINE e == a \div d
<1>1. e \in Nat /\ d * e <= a /\ a < d * e + d
    BY DivDef
<1> HIDE DEF e
<1>2. ~(e < q)
    BY <1>1, MulMono
<1>3. ~(q < e)
    BY <1>1, MulMono
<1> QED
    BY <1>1, <1>2, <1>3 DEF e

\* Division by a positive number is monotone.
LEMMA DivMono ==
    ASSUME NEW a \in Nat, NEW b \in Nat, NEW d \in Nat \ {0}, a <= b
    PROVE  a \div d <= b \div d
<1> DEFINE e == a \div d
           f == b \div d
<1>1. e \in Nat /\ d * e <= a
    BY DivDef
<1>2. f \in Nat /\ b < d * f + d
    BY DivDef
<1> HIDE DEF e, f
<1>3. ~(f < e)
    BY <1>1, <1>2, MulMono
<1> QED
    BY <1>1, <1>2, <1>3 DEF e, f

-----------------------------------------------------------------------------

\* InitCbtState rounds the disk size up: the bitmap covers the disk and less
\* than one block more.
LEMMA TotalBitsBounds ==
    /\ TotalBits \in Nat \ {0}
    /\ DiskSize <= BlockSize * TotalBits
    /\ BlockSize * TotalBits < DiskSize + BlockSize
<1> DEFINE n == DiskSize + BlockSize - 1
<1>1. n \in Nat /\ BlockSize <= n /\ BlockSize \in Nat \ {0} /\ DiskSize \in Nat
    BY LayoutAssumption
<1>2. /\ TotalBits \in Nat
      /\ n = BlockSize * TotalBits + (n % BlockSize)
      /\ n % BlockSize \in Nat /\ n % BlockSize < BlockSize
    BY <1>1, DivDef DEF TotalBits
<1> DEFINE prod == BlockSize * TotalBits
           rem == n % BlockSize
<1>3. prod \in Nat /\ rem \in Nat /\ n = prod + rem /\ rem < BlockSize
    BY <1>1, <1>2
<1>4. TotalBits = 0 => prod = 0
    BY <1>1
<1> HIDE DEF prod, rem
<1>5. DiskSize <= prod /\ prod < DiskSize + BlockSize /\ TotalBits # 0
    BY <1>1, <1>2, <1>3, <1>4
<1> QED
    BY <1>2, <1>5 DEF prod

\* No offset MarkBlockChanged goes on with makes its sum wrap around.
LEMMA NoWrap ==
    ASSUME NEW off \in Nat, NEW len \in Nat, len > 0,
           off < TotalBits * BlockSize, len + DiskSize + BlockSize <= Wrap
    PROVE  /\ off + len - 1 \in Nat
           /\ EndBlockRaw(off, len) = (off + len - 1) \div BlockSize
<1>1. TotalBits * BlockSize = BlockSize * TotalBits
    BY LayoutAssumption, TotalBitsBounds
<1> DEFINE prod == BlockSize * TotalBits
<1>2. prod \in Nat /\ off < prod /\ prod < DiskSize + BlockSize
    BY LayoutAssumption, TotalBitsBounds, <1>1
<1> HIDE DEF prod
<1>3. off + len - 1 \in Nat /\ off + len - 1 < Wrap
    BY <1>2, LayoutAssumption
<1>4. (off + len - 1) % Wrap = off + len - 1
    BY <1>3, LayoutAssumption
<1> QED
    BY <1>3, <1>4 DEF EndBlockRaw

\* MarkBlockChanged (go2cbt.h) sets the bits of exactly the blocks that hold a
\* written byte, for every write of at least one byte on every disk: no
\* off-by-one at a block boundary, at the end of the disk or past it.
THEOREM MarkRangeCorrect ==
    ASSUME NEW off \in Nat, NEW len \in Nat, len > 0,
           len + DiskSize + BlockSize <= Wrap
    PROVE  MarkRange(off, len) = Touched(off, len)
<1> DEFINE B == BlockSize
           T == TotalBits
<1>a. B \in Nat \ {0} /\ T \in Nat \ {0} /\ T * B = B * T
    BY LayoutAssumption, TotalBitsBounds
<1>1. CASE off >= T * B
    <2>1. ASSUME NEW b \in Blocks, NEW x \in off .. (off + len - 1), x \div B = b
          PROVE  FALSE
        <3>1. x \in Nat /\ B * T <= x
            BY <1>1, <1>a
        <3>2. b \in Nat /\ b < T /\ x < B * b + B
            BY <2>1, <1>a, <3>1, DivDef DEF Blocks
        <3> QED
            BY <3>1, <3>2, <1>a, MulMono
    <2>2. Touched(off, len) = {}
        BY <2>1 DEF Touched
    <2> QED
        BY <2>2, <1>1 DEF MarkRange
<1>2. CASE off < T * B
    <2> DEFINE s == off \div B
               r == (off + len - 1) \div B
               e == EndBlock(off, len)
    <2>1. off + len - 1 \in Nat /\ EndBlockRaw(off, len) = r
        BY <1>2, NoWrap
    <2>2. s \in Nat /\ B * s <= off /\ off < B * s + B
        BY <1>a, DivDef
    <2>3. r \in Nat /\ B * r <= off + len - 1 /\ off + len - 1 < B * r + B
        BY <1>a, <2>1, DivDef
    <2>4. MarkRange(off, len) = s .. e
        BY <1>2, <1>a DEF MarkRange, StartBlock
    <2>5. e \in Nat /\ e <= r /\ e < T /\ (r < T => e = r)
        BY <2>1, <2>3, <1>a DEF EndBlock
    <2>6. ASSUME NEW b \in s .. e
          PROVE  b \in Touched(off, len)
        <3>1. b \in Nat /\ b \in Blocks /\ b <= r
            BY <2>6, <2>5, <2>2, <2>3, <1>a DEF Blocks
        <3>2. CASE b = s
            BY <3>1, <3>2, <2>1 DEF Touched
        <3>3. CASE b # s
            <4> DEFINE x == B * b
            <4>1. x \in Nat
                BY <3>1, <1>a
            <4>2. B * s + B <= x
                BY <3>1, <3>3, <2>6, <2>2, <1>a, MulMono
            <4>3. x <= B * r
                BY <3>1, <2>3, <1>a, MulMono
            <4>4. x \div B = b
                <5>1. B * b <= x /\ x < B * b + B
                    BY <4>1, <1>a
                <5> QED
                    BY <5>1, <4>1, <3>1, <1>a, DivUnique
            <4> HIDE DEF x
            <4>5. x \in off .. (off + len - 1)
                <5> DEFINE bs == B * s
                           br == B * r
                <5>1. bs \in Nat /\ br \in Nat
                    BY <2>2, <2>3, <1>a
                <5> HIDE DEF bs, br
                <5>2. off < bs + B /\ br <= off + len - 1 /\ bs + B <= x /\ x <= br
                    BY <2>2, <2>3, <4>2, <4>3 DEF bs, br
                <5> QED
                    BY <5>1, <5>2, <4>1, <1>a
            <4> QED
                BY <4>4, <4>5, <3>1 DEF Touched
        <3> QED
            BY <3>2, <3>3
    <2>7. ASSUME NEW b \in Touched(off, len)
          PROVE  b \in s .. e
        <3>1. PICK x \in off .. (off + len - 1) : x \div B = b
            BY <2>7 DEF Touched
        <3>2. b \in Nat /\ b < T
            BY <2>7, <1>a DEF Touched, Blocks
        <3>3. s <= b /\ b <= r
            <4>1. x \in Nat /\ off <= x /\ x <= off + len - 1
                BY <3>1
            <4>2. off \div B <= x \div B
                BY <4>1, <1>a, DivMono
            <4>3. x \div B <= (off + len - 1) \div B
                BY <4>1, <2>1, <1>a, DivMono
            <4> QED
                BY <4>2, <4>3, <3>1
        <3> QED
            BY <3>2, <3>3, <2>2, <2>3, <2>5, <2>1, <1>a DEF EndBlock
    <2> QED
        BY <2>4, <2>6, <2>7
<1> QED
    BY <1>1, <1>2, <1>a

\* The bits RtlSetBits is given exist in the bitmap, for any write at all: the
\* clamp keeps it inside the buffer even when the sum wraps around.
LEMMA MarkRangeInBlocks ==
    ASSUME NEW off \in Nat, NEW len \in Nat
    PROVE  /\ MarkRange(off, len) \subseteq Blocks
           /\ EndBlock(off, len) \in Nat /\ StartBlock(off) \in Nat
           /\ EndBlock(off, len) < TotalBits
<1>1. BlockSize \in Nat \ {0} /\ TotalBits \in Nat \ {0} /\ Wrap \in Nat \ {0}
    BY LayoutAssumption, TotalBitsBounds
<1>2. (off + len - 1) % Wrap \in Nat
    BY <1>1
<1>3. EndBlockRaw(off, len) \in Nat
    BY <1>1, <1>2, DivDef DEF EndBlockRaw
<1>4. StartBlock(off) \in Nat
    BY <1>1, DivDef DEF StartBlock
<1> QED
    BY <1>1, <1>3, <1>4 DEF MarkRange, EndBlock, Blocks

-----------------------------------------------------------------------------
(* The inductive invariant. *)

\* Exactly the thread inside a bitmap routine holds the spinlock.
LockInv == \A p \in Procs : pc[p] \in Holding <=> lock = p

\* The step a thread is at and the request it executes go together.
StepInv ==
    \A p \in Procs :
        /\ pc[p] = "idle" <=> req[p] = Idle
        /\ pc[p] \in {"load", "store"} => req[p].kind = "mark"
        /\ pc[p] = "clear" => req[p].kind = "reset"
        /\ pc[p] = "copy" => req[p].kind = "query"

\* What RtlSetBits has done so far, and what it has loaded.
MarkInv ==
    \A p \in Procs : pc[p] \in {"load", "store"} =>
        /\ word[p] <= EndBlock(req[p].off, req[p].len) \div WordBits
        /\ \A b \in Range(p) : b \div WordBits < word[p] => b \in bits
        /\ pc[p] = "store" => reg[p] = bits \cap BitsOf(word[p])

\* What RtlClearAllBits has done so far.
ClearInv ==
    \A p \in Procs : pc[p] = "clear" =>
        /\ owed = {}
        /\ word[p] <= LastWord
        /\ \A b \in bits : word[p] <= b \div WordBits

\* What RtlCopyMemory has copied so far.
CopyInv ==
    \A p \in Procs : pc[p] = "copy" =>
        /\ word[p] <= LastWord
        /\ \A b \in Blocks : b \div WordBits < word[p] => (b \in out[p] <=> b \in bits)

IInv == TypeOK /\ LockInv /\ StepInv /\ MarkInv /\ ClearInv /\ CopyInv /\ NoLostSet

-----------------------------------------------------------------------------
(* Facts about requests and words. *)

\* The fields of a mark request are numbers that do not wrap around.
LEMMA MarkRequest ==
    ASSUME NEW r \in Requests \cup {Idle}, r.kind = "mark"
    PROVE  r.off \in Nat /\ r.len \in Nat /\ r.len + DiskSize + BlockSize <= Wrap
BY BitmapAssumption DEF Requests, Idle

\* A write marks at least the blocks its bytes lie in, and exactly these when
\* it has any bytes.
LEMMA TouchedInRange ==
    ASSUME NEW off \in Nat, NEW len \in Nat, len + DiskSize + BlockSize <= Wrap
    PROVE  /\ Touched(off, len) \subseteq MarkRange(off, len)
           /\ len > 0 => MarkRange(off, len) = Touched(off, len)
<1>1. CASE len > 0
    BY <1>1, MarkRangeCorrect
<1>2. CASE len = 0
    <2>1. off .. (off + len - 1) = {}
        BY <1>2
    <2> QED
        BY <2>1, <1>2 DEF Touched
<1> QED
    BY <1>1, <1>2

\* The word of a bit, and the last word of the bitmap.
LEMMA WordOfBit ==
    ASSUME NEW b \in Blocks
    PROVE  b \in Nat /\ b \div WordBits \in Nat /\ b \div WordBits <= LastWord
<1>1. TotalBits \in Nat \ {0} /\ WordBits \in Nat \ {0}
    BY TotalBitsBounds, BitmapAssumption
<1>2. b \in Nat /\ TotalBits - 1 \in Nat /\ b <= TotalBits - 1
    BY <1>1 DEF Blocks
<1> QED
    BY <1>1, <1>2, DivDef, DivMono DEF LastWord

\* Every bit RtlSetBits sets lies in a word up to the last one it visits.
LEMMA WordOfMark ==
    ASSUME NEW off \in Nat, NEW len \in Nat, NEW b \in MarkRange(off, len)
    PROVE  /\ b \in Blocks
           /\ StartBlock(off) \div WordBits <= b \div WordBits
           /\ b \div WordBits <= EndBlock(off, len) \div WordBits
           /\ StartBlock(off) \div WordBits \in Nat
           /\ EndBlock(off, len) \div WordBits \in Nat
<1>1. /\ b \in Blocks /\ b \in Nat
      /\ StartBlock(off) \in Nat /\ EndBlock(off, len) \in Nat
      /\ StartBlock(off) <= b /\ b <= EndBlock(off, len)
      /\ WordBits \in Nat \ {0}
    BY MarkRangeInBlocks, WordOfBit, BitmapAssumption DEF MarkRange
<1> QED
    BY <1>1, DivMono, DivDef

\* The bitmap's last word has a number.
LEMMA LastWordNat == LastWord \in Nat /\ 0 <= LastWord
<1>1. TotalBits \in Nat \ {0} /\ WordBits \in Nat \ {0} /\ TotalBits - 1 \in Nat
    BY TotalBitsBounds, BitmapAssumption
<1> QED
    BY <1>1, DivDef DEF LastWord

\* The words RtlSetBits goes through are words of the buffer.
LEMMA MarkWords ==
    ASSUME NEW off \in Nat, NEW len \in Nat
    PROVE  /\ EndBlock(off, len) \div WordBits \in 0 .. LastWord
           /\ MarkRange(off, len) # {} => StartBlock(off) \div WordBits \in 0 .. LastWord
<1>1. EndBlock(off, len) \in Blocks
    <2>1. EndBlock(off, len) \in Nat /\ EndBlock(off, len) < TotalBits
        BY MarkRangeInBlocks
    <2>2. TotalBits \in Nat
        BY TotalBitsBounds
    <2> QED
        BY <2>1, <2>2 DEF Blocks
<1>2. MarkRange(off, len) # {} => StartBlock(off) \in Blocks
    BY MarkRangeInBlocks, TotalBitsBounds DEF MarkRange, Blocks
<1>3. LastWord \in Nat
    BY LastWordNat
<1>4. EndBlock(off, len) \div WordBits \in 0 .. LastWord
    BY <1>1, <1>3, WordOfBit
<1>5. ASSUME MarkRange(off, len) # {}
      PROVE  StartBlock(off) \div WordBits \in 0 .. LastWord
    BY <1>2, <1>3, <1>5, WordOfBit
<1> QED
    BY <1>4, <1>5

-----------------------------------------------------------------------------
(* Preservation. *)

\* The invariant holds when DriverEntry has built the disk's bitmap.
LEMMA InitIInv == Init => IInv
<1> SUFFICES ASSUME Init PROVE IInv
    OBVIOUS
<1>1. TypeOK
    BY LastWordNat DEF Init, TypeOK
<1>2. LockInv
    BY BitmapAssumption DEF Init, LockInv, Holding
<1>3. StepInv /\ MarkInv /\ ClearInv /\ CopyInv /\ NoLostSet
    BY DEF Init, StepInv, MarkInv, ClearInv, CopyInv, NoLostSet
<1> QED
    BY <1>1, <1>2, <1>3 DEF IInv

\* The invariant is kept when a write or an IOCTL comes in.
LEMMA EnterIInv ==
    ASSUME IInv, NEW p \in Procs, NEW r \in Requests, Enter(p, r)
    PROVE  IInv'
<1> USE DEF IInv, Enter
<1>1. TypeOK'
    BY DEF TypeOK
<1>2. LockInv'
    BY DEF LockInv, TypeOK, Holding
<1>3. r # Idle
    BY DEF Requests, Idle
<1>4. StepInv'
    BY <1>3 DEF StepInv, TypeOK
<1>5. MarkInv' /\ ClearInv' /\ CopyInv' /\ NoLostSet'
    BY DEF MarkInv, ClearInv, CopyInv, NoLostSet, TypeOK, Range
<1> QED
    BY <1>1, <1>2, <1>4, <1>5

\* The invariant is kept by the early returns.
LEMMA RejectIInv ==
    ASSUME IInv, NEW p \in Procs, Reject(p)
    PROVE  IInv'
<1> USE DEF IInv, Reject
<1>1. TypeOK'
    BY DEF TypeOK
<1>2. LockInv'
    BY DEF LockInv, TypeOK, Holding
<1>3. StepInv'
    BY DEF StepInv, TypeOK
<1>4. MarkInv' /\ ClearInv' /\ CopyInv' /\ NoLostSet'
    BY DEF MarkInv, ClearInv, CopyInv, NoLostSet, TypeOK, Range
<1> QED
    BY <1>1, <1>2, <1>3, <1>4

\* The invariant is kept when the request completes.
LEMMA ReturnIInv ==
    ASSUME IInv, NEW p \in Procs, Return(p)
    PROVE  IInv'
<1> USE DEF IInv, Return
<1>1. TypeOK'
    BY DEF TypeOK
<1>2. LockInv'
    BY DEF LockInv, TypeOK, Holding
<1>3. StepInv'
    BY DEF StepInv, TypeOK
<1>4. MarkInv' /\ ClearInv' /\ CopyInv' /\ NoLostSet'
    BY DEF MarkInv, ClearInv, CopyInv, NoLostSet, TypeOK, Range
<1> QED
    BY <1>1, <1>2, <1>3, <1>4

\* The invariant is kept by KeAcquireSpinLock: the new holder starts its routine.
LEMMA AcquireIInv ==
    ASSUME IInv, NEW p \in Procs, Acquire(p)
    PROVE  IInv'
<1> USE DEF IInv, Acquire
<1>1. req[p] \in Requests /\ req[p].kind \in {"mark", "query", "reset"}
    BY DEF StepInv, TypeOK, Requests
<1>2. pc' = [pc EXCEPT ![p] = pc'[p]] /\ pc'[p] \in Holding
    BY <1>1 DEF TypeOK, Holding
<1>3. /\ req[p].kind = "mark" <=> pc'[p] = "load"
      /\ req[p].kind = "query" <=> pc'[p] = "copy"
      /\ req[p].kind = "reset" <=> pc'[p] = "clear"
    BY <1>1 DEF TypeOK
<1>4. lock = NoProc /\ \A q \in Procs : pc[q] \notin Holding
    BY BitmapAssumption DEF LockInv, LockFree
<1>5. req[p].kind = "mark" =>
          /\ req[p].off \in Nat /\ req[p].len \in Nat
          /\ word'[p] = StartBlock(req[p].off) \div WordBits
          /\ word'[p] \in 0 .. LastWord
    BY <1>1, MarkRequest, MarkWords DEF TypeOK, Rejected, Range
<1>6. req[p].kind # "mark" => word'[p] = 0
    BY DEF TypeOK
<1>7. TypeOK'
    BY <1>1, <1>2, <1>5, <1>6, LastWordNat DEF TypeOK, Holding
<1>8. LockInv'
    BY <1>2, <1>4, BitmapAssumption DEF LockInv, TypeOK, Holding
<1>9. StepInv'
    BY <1>2, <1>3, <1>1 DEF StepInv, TypeOK, Holding
<1>10. MarkInv'
    <2> SUFFICES ASSUME NEW q \in Procs, pc'[q] \in {"load", "store"}
                 PROVE  /\ word'[q] <= EndBlock(req'[q].off, req'[q].len) \div WordBits
                        /\ \A b \in Range(q)' : b \div WordBits < word'[q] => b \in bits'
                        /\ pc'[q] = "store" => reg'[q] = bits' \cap BitsOf(word'[q])
        BY DEF MarkInv, Range
    <2>1. q = p /\ pc'[p] = "load" /\ req[p].kind = "mark"
        BY <1>2, <1>3, <1>4, <1>1 DEF TypeOK, Holding
    <2>2. Range(p) # {} /\ Range(p)' = Range(p) /\ req'[p] = req[p]
        BY <2>1 DEF Rejected, Range
    <2>3. PICK b0 \in Range(p) : TRUE
        BY <2>2
    <2>4. \A b \in Range(p) : /\ word'[p] <= b \div WordBits
                              /\ b \div WordBits <= EndBlock(req[p].off, req[p].len) \div WordBits
                              /\ b \div WordBits \in Nat
                              /\ EndBlock(req[p].off, req[p].len) \div WordBits \in Nat
        BY <1>5, <2>1, WordOfMark, WordOfBit DEF Range
    <2>5. word'[p] \in Nat
        BY <1>5, <2>1
    <2>6. word'[p] <= EndBlock(req[p].off, req[p].len) \div WordBits
        BY <2>3, <2>4, <2>5
    <2>7. \A b \in Range(p) : ~(b \div WordBits < word'[p])
        BY <2>4, <2>5
    <2> QED
        BY <2>1, <2>2, <2>6, <2>7
<1>11. ClearInv'
    <2> SUFFICES ASSUME NEW q \in Procs, pc'[q] = "clear"
                 PROVE  /\ owed' = {} /\ word'[q] <= LastWord
                        /\ \A b \in bits' : word'[q] <= b \div WordBits
        BY DEF ClearInv
    <2>1. q = p /\ req[p].kind = "reset"
        BY <1>2, <1>3, <1>4 DEF TypeOK, Holding
    <2>2. word'[p] = 0 /\ owed' = {} /\ bits' = bits
        BY <1>6, <2>1
    <2> QED
        BY <2>1, <2>2, LastWordNat, WordOfBit DEF TypeOK
<1>12. CopyInv'
    <2> SUFFICES ASSUME NEW q \in Procs, pc'[q] = "copy"
                 PROVE  /\ word'[q] <= LastWord
                        /\ \A b \in Blocks : b \div WordBits < word'[q] =>
                                               (b \in out'[q] <=> b \in bits')
        BY DEF CopyInv
    <2>1. q = p /\ req[p].kind = "query"
        BY <1>2, <1>3, <1>4 DEF TypeOK, Holding
    <2>2. word'[p] = 0
        BY <1>6, <2>1
    <2> QED
        BY <2>1, <2>2, LastWordNat, WordOfBit
<1>13. NoLostSet'
    BY DEF NoLostSet
<1> QED
    BY <1>7, <1>8, <1>9, <1>10, <1>11, <1>12, <1>13

\* The invariant is kept when RtlSetBits loads a word.
LEMMA SetLoadIInv ==
    ASSUME IInv, NEW p \in Procs, SetLoad(p)
    PROVE  IInv'
<1> USE DEF IInv, SetLoad
<1>1. TypeOK'
    BY DEF TypeOK, Holding
<1>2. LockInv'
    BY DEF LockInv, TypeOK, Holding
<1>3. StepInv'
    BY DEF StepInv, TypeOK
<1>4. MarkInv'
    BY DEF MarkInv, TypeOK, Range
<1>5. ClearInv' /\ CopyInv' /\ NoLostSet'
    BY DEF ClearInv, CopyInv, NoLostSet, TypeOK
<1> QED
    BY <1>1, <1>2, <1>3, <1>4, <1>5

\* After the last word every bit of the range is set; before it, the bits are
\* the old ones and those of the range up to this word.
LEMMA SetStoreBits ==
    ASSUME IInv, NEW p \in Procs, SetStore(p)
    PROVE  /\ req[p].kind = "mark" /\ req[p].off \in Nat /\ req[p].len \in Nat
           /\ req[p].len + DiskSize + BlockSize <= Wrap
           /\ Range(p) \subseteq Blocks
           /\ bits' = bits \cup (Range(p) \cap BitsOf(word[p]))
           /\ ~(word[p] < EndBlock(req[p].off, req[p].len) \div WordBits) =>
                  bits' = bits \cup Range(p)
<1> USE DEF IInv, SetStore
<1>1. req[p].kind = "mark" /\ req[p] \in Requests \cup {Idle}
    BY DEF StepInv, TypeOK
<1>2. req[p].off \in Nat /\ req[p].len \in Nat /\ req[p].len + DiskSize + BlockSize <= Wrap
    BY <1>1, MarkRequest
<1>3. Range(p) \subseteq Blocks
    BY <1>2, MarkRangeInBlocks DEF Range
<1>4. bits' = bits \cup (Range(p) \cap BitsOf(word[p]))
    BY DEF MarkInv
<1>5. ASSUME ~(word[p] < EndBlock(req[p].off, req[p].len) \div WordBits),
             NEW b \in Range(p), b \notin bits
      PROVE  b \in BitsOf(word[p])
    <2>1. /\ b \in Blocks /\ b \div WordBits \in Nat
          /\ b \div WordBits <= EndBlock(req[p].off, req[p].len) \div WordBits
          /\ EndBlock(req[p].off, req[p].len) \div WordBits \in Nat
        BY <1>2, WordOfMark, WordOfBit DEF Range
    <2>2. word[p] \in Nat
        BY DEF TypeOK
    <2>3. ~(b \div WordBits < word[p])
        BY <1>5 DEF MarkInv
    <2> QED
        BY <2>1, <2>2, <2>3, <1>5 DEF BitsOf
<1> QED
    BY <1>1, <1>2, <1>3, <1>4, <1>5

\* While one thread is inside a bitmap routine no other is.
LEMMA OnlyHolder ==
    ASSUME IInv, NEW p \in Procs, pc[p] \in Holding
    PROVE  lock = p /\ \A q \in Procs : q # p => pc[q] \notin Holding
BY DEF IInv, LockInv

\* The invariant is kept when RtlSetBits stores a word, and then releases the
\* lock after the last one.
LEMMA SetStoreIInv ==
    ASSUME IInv, NEW p \in Procs, SetStore(p)
    PROVE  IInv'
<1> DEFINE last == EndBlock(req[p].off, req[p].len) \div WordBits
<1> USE DEF IInv
<1>1. /\ req[p].kind = "mark" /\ req[p].off \in Nat /\ req[p].len \in Nat
      /\ req[p].len + DiskSize + BlockSize <= Wrap
      /\ Range(p) \subseteq Blocks
      /\ bits' = bits \cup (Range(p) \cap BitsOf(word[p]))
      /\ ~(word[p] < last) => bits' = bits \cup Range(p)
    BY SetStoreBits
<1>2. lock = p /\ \A q \in Procs : q # p => pc[q] \notin Holding
    BY OnlyHolder DEF SetStore, Holding
<1>3. last \in 0 .. LastWord /\ word[p] \in Nat /\ LastWord \in Nat
    <2>1. LastWord \in Nat
        BY LastWordNat
    <2>2. word[p] \in Nat
        BY <2>1 DEF TypeOK
    <2> QED
        BY <1>1, <2>1, <2>2, MarkWords
<1>4. Touched(req[p].off, req[p].len) \subseteq Range(p)
    BY <1>1, TouchedInRange DEF Range
<1>5. CASE word[p] < last
    <2>1. /\ word' = [word EXCEPT ![p] = @ + 1] /\ pc' = [pc EXCEPT ![p] = "load"]
          /\ UNCHANGED <<lock, owed, buffer, req, out>>
          /\ reg' = [reg EXCEPT ![p] = {}]
        BY <1>5 DEF SetStore, Advance
    <2>2. TypeOK'
        BY <2>1, <1>1, <1>3, <1>5 DEF TypeOK, Holding
    <2>3. LockInv'
        BY <2>1, <1>2 DEF LockInv, TypeOK, Holding
    <2>4. StepInv'
        BY <2>1, <1>1 DEF StepInv, TypeOK, SetStore
    <2>5. MarkInv'
        <3> SUFFICES ASSUME NEW q \in Procs, pc'[q] \in {"load", "store"}
                     PROVE  /\ word'[q] <= EndBlock(req'[q].off, req'[q].len) \div WordBits
                            /\ \A b \in Range(q)' : b \div WordBits < word'[q] => b \in bits'
                            /\ pc'[q] = "store" => reg'[q] = bits' \cap BitsOf(word'[q])
            BY DEF MarkInv, Range
        <3>1. q = p /\ pc'[p] = "load" /\ word'[p] = word[p] + 1
            BY <2>1, <1>2 DEF TypeOK, Holding
        <3>2. word'[p] <= last
            BY <3>1, <1>3, <1>5
        <3>3. ASSUME NEW b \in Range(p), b \div WordBits < word[p] + 1
              PROVE  b \in bits'
            <4>1. b \div WordBits \in Nat /\ b \in Blocks
                BY <1>1, WordOfBit
            <4>2. CASE b \div WordBits < word[p]
                BY <4>2, <1>1 DEF MarkInv, SetStore
            <4>3. CASE b \div WordBits = word[p]
                BY <4>3, <4>1, <1>1 DEF BitsOf
            <4> QED
                BY <4>1, <4>2, <4>3, <1>3, <3>3
        <3> QED
            BY <3>1, <3>2, <3>3, <2>1 DEF Range
    <2>6. ClearInv' /\ CopyInv'
        BY <2>1, <1>2 DEF ClearInv, CopyInv, TypeOK, Holding
    <2>7. NoLostSet'
        BY <2>1, <1>1 DEF NoLostSet
    <2> QED
        BY <2>2, <2>3, <2>4, <2>5, <2>6, <2>7
<1>6. CASE ~(word[p] < last)
    <2>1. /\ word' = [word EXCEPT ![p] = 0] /\ pc' = [pc EXCEPT ![p] = "ret"]
          /\ lock' = NoProc
          /\ owed' = owed \cup Touched(req[p].off, req[p].len)
          /\ UNCHANGED <<buffer, req, out>>
          /\ reg' = [reg EXCEPT ![p] = {}]
        BY <1>6 DEF SetStore, Advance
    <2>2. TypeOK'
        BY <2>1, <1>1, <1>3, <1>4 DEF TypeOK, Holding
    <2>3. \A q \in Procs : pc'[q] \notin Holding
        BY <2>1, <1>2 DEF TypeOK, Holding
    <2>4. LockInv'
        BY <2>1, <2>3, BitmapAssumption DEF LockInv, Holding
    <2>5. StepInv'
        BY <2>1, <1>1 DEF StepInv, TypeOK, SetStore
    <2>6. MarkInv' /\ ClearInv' /\ CopyInv'
        BY <2>3 DEF MarkInv, ClearInv, CopyInv, Holding
    <2>7. NoLostSet'
        BY <2>1, <1>1, <1>4, <1>6 DEF NoLostSet
    <2> QED
        BY <2>2, <2>4, <2>5, <2>6, <2>7
<1> QED
    BY <1>5, <1>6

\* RtlClearAllBits leaves no bit once it has been through the last word.
LEMMA ClearBits ==
    ASSUME IInv, NEW p \in Procs, Clear(p), ~(word[p] < LastWord)
    PROVE  bits' = {}
<1> SUFFICES ASSUME NEW b \in bits, b \notin BitsOf(word[p]) PROVE FALSE
    BY DEF Clear
<1>1. b \in Blocks /\ b \div WordBits \in Nat /\ b \div WordBits <= LastWord
    BY WordOfBit DEF IInv, TypeOK
<1>2. word[p] <= b \div WordBits /\ word[p] \in Nat
    BY DEF IInv, ClearInv, Clear, TypeOK
<1>3. b \div WordBits # word[p]
    BY <1>1 DEF BitsOf
<1> QED
    BY <1>1, <1>2, <1>3, LastWordNat

\* The invariant is kept when RtlClearAllBits clears a word.
LEMMA ClearIInv ==
    ASSUME IInv, NEW p \in Procs, Clear(p)
    PROVE  IInv'
<1> USE DEF IInv
<1>1. lock = p /\ \A q \in Procs : q # p => pc[q] \notin Holding
    BY OnlyHolder DEF Clear, Holding
<1>2. word[p] \in Nat /\ LastWord \in Nat /\ owed = {} /\ bits' \subseteq bits
    BY LastWordNat DEF TypeOK, ClearInv, Clear
<1>3. CASE word[p] < LastWord
    <2>1. /\ word' = [word EXCEPT ![p] = @ + 1] /\ pc' = [pc EXCEPT ![p] = "clear"]
          /\ bits' = bits \ BitsOf(word[p])
          /\ UNCHANGED <<lock, owed, buffer, req, reg, out>>
        BY <1>3 DEF Clear, Advance
    <2>2. TypeOK'
        BY <2>1, <1>2, <1>3 DEF TypeOK, Holding
    <2>3. LockInv' /\ StepInv'
        BY <2>1, <1>1 DEF LockInv, StepInv, TypeOK, Holding, Clear
    <2>4. MarkInv' /\ CopyInv'
        BY <2>1, <1>1 DEF MarkInv, CopyInv, TypeOK, Holding
    <2>5. ClearInv'
        <3> SUFFICES ASSUME NEW b \in bits'
                     PROVE  word[p] + 1 <= b \div WordBits
            BY <2>1, <1>1, <1>2, <1>3 DEF ClearInv, TypeOK, Holding
        <3>1. b \in Blocks /\ b \div WordBits \in Nat /\ b \in bits
            BY <1>2, WordOfBit DEF TypeOK
        <3>2. word[p] <= b \div WordBits /\ b \div WordBits # word[p]
            BY <3>1, <2>1 DEF ClearInv, Clear, BitsOf
        <3> QED
            BY <3>1, <3>2, <1>2
    <2>6. NoLostSet'
        BY <2>1, <1>2 DEF NoLostSet
    <2> QED
        BY <2>2, <2>3, <2>4, <2>5, <2>6
<1>4. CASE ~(word[p] < LastWord)
    <2>1. /\ word' = [word EXCEPT ![p] = 0] /\ pc' = [pc EXCEPT ![p] = "ret"]
          /\ lock' = NoProc
          /\ UNCHANGED <<owed, buffer, req, reg, out>>
        BY <1>4 DEF Clear, Advance
    <2>2. TypeOK'
        BY <2>1, <1>2, <1>3 DEF TypeOK, Holding
    <2>3. \A q \in Procs : pc'[q] \notin Holding
        BY <2>1, <1>1 DEF TypeOK, Holding
    <2>4. LockInv'
        BY <2>1, <2>3, BitmapAssumption DEF LockInv, Holding
    <2>5. StepInv'
        BY <2>1 DEF StepInv, TypeOK, Clear
    <2>6. MarkInv' /\ ClearInv' /\ CopyInv' /\ NoLostSet'
        BY <2>1, <2>3, <1>2 DEF MarkInv, ClearInv, CopyInv, NoLostSet, Holding
    <2> QED
        BY <2>2, <2>4, <2>5, <2>6
<1> QED
    BY <1>3, <1>4

\* RtlCopyMemory has copied the whole bitmap after the last word.
LEMMA CopyBits ==
    ASSUME IInv, NEW p \in Procs, Copy(p)
    PROVE  /\ \A b \in Blocks : b \div WordBits < word[p] + 1 =>
                                  (b \in out'[p] <=> b \in bits)
           /\ out'[p] \subseteq Blocks
           /\ ~(word[p] < LastWord) => out'[p] = bits
<1> USE DEF IInv
<1>1. out'[p] = (out[p] \ BitsOf(word[p])) \cup (bits \cap BitsOf(word[p]))
    BY DEF Copy, TypeOK
<1>2. word[p] \in Nat /\ LastWord \in Nat
    BY LastWordNat DEF TypeOK
<1>3. ASSUME NEW b \in Blocks, b \div WordBits < word[p] + 1
      PROVE  b \in out'[p] <=> b \in bits
    <2>1. b \div WordBits \in Nat
        BY WordOfBit
    <2>2. CASE b \div WordBits < word[p]
        BY <2>2, <2>1, <1>1, <1>2 DEF CopyInv, Copy, BitsOf
    <2>3. CASE b \div WordBits = word[p]
        BY <2>3, <1>1 DEF BitsOf
    <2> QED
        BY <2>1, <2>2, <2>3, <1>2, <1>3
<1>4. out'[p] \subseteq Blocks
    BY <1>1 DEF TypeOK
<1>5. ~(word[p] < LastWord) => \A b \in Blocks : b \div WordBits < word[p] + 1
    BY WordOfBit, <1>2
<1> QED
    BY <1>3, <1>4, <1>5 DEF TypeOK

\* The invariant is kept when RtlCopyMemory copies a word.
LEMMA CopyIInv ==
    ASSUME IInv, NEW p \in Procs, Copy(p)
    PROVE  IInv'
<1> USE DEF IInv
<1>1. lock = p /\ \A q \in Procs : q # p => pc[q] \notin Holding
    BY OnlyHolder DEF Copy, Holding
<1>2. word[p] \in Nat /\ LastWord \in Nat
    BY LastWordNat DEF TypeOK
<1>3. out' = [out EXCEPT ![p] = out'[p]] /\ out'[p] \subseteq Blocks
    BY CopyBits DEF Copy, TypeOK
<1>4. NoLostSet'
    BY DEF NoLostSet, Copy
<1>5. CASE word[p] < LastWord
    <2>1. /\ word' = [word EXCEPT ![p] = @ + 1] /\ pc' = [pc EXCEPT ![p] = "copy"]
          /\ UNCHANGED <<lock, owed, buffer, req, reg, bits>>
        BY <1>5 DEF Copy, Advance
    <2>2. TypeOK'
        BY <2>1, <1>2, <1>3, <1>5 DEF TypeOK, Holding
    <2>3. LockInv' /\ StepInv'
        BY <2>1, <1>1 DEF LockInv, StepInv, TypeOK, Holding, Copy
    <2>4. MarkInv' /\ ClearInv'
        BY <2>1, <1>1 DEF MarkInv, ClearInv, TypeOK, Holding
    <2>5. CopyInv'
        BY <2>1, <1>1, <1>2, <1>5, CopyBits DEF CopyInv, TypeOK, Holding
    <2> QED
        BY <2>2, <2>3, <2>4, <2>5, <1>4
<1>6. CASE ~(word[p] < LastWord)
    <2>1. /\ word' = [word EXCEPT ![p] = 0] /\ pc' = [pc EXCEPT ![p] = "ret"]
          /\ lock' = NoProc
          /\ UNCHANGED <<owed, buffer, req, reg, bits>>
        BY <1>6 DEF Copy, Advance
    <2>2. TypeOK'
        BY <2>1, <1>2, <1>3 DEF TypeOK, Holding
    <2>3. \A q \in Procs : pc'[q] \notin Holding
        BY <2>1, <1>1 DEF TypeOK, Holding
    <2>4. LockInv'
        BY <2>1, <2>3, BitmapAssumption DEF LockInv, Holding
    <2>5. StepInv'
        BY <2>1 DEF StepInv, TypeOK, Copy
    <2>6. MarkInv' /\ ClearInv' /\ CopyInv'
        BY <2>3 DEF MarkInv, ClearInv, CopyInv, Holding
    <2> QED
        BY <2>2, <2>4, <2>5, <2>6, <1>4
<1> QED
    BY <1>5, <1>6

\* The invariant is kept when nothing changes.
LEMMA StutterIInv == IInv /\ UNCHANGED vars => IInv'
BY DEF IInv, vars, TypeOK, LockInv, StepInv, MarkInv, ClearInv, CopyInv, NoLostSet, Range

\* The inductive invariant holds in every reachable state.
THEOREM Invariance == Spec => []IInv
<1>1. IInv /\ [Next]_vars => IInv'
    <2> SUFFICES ASSUME IInv, [Next]_vars PROVE IInv'
        OBVIOUS
    <2>1. CASE UNCHANGED vars
        BY <2>1, StutterIInv
    <2>2. ASSUME NEW p \in Procs, NEW r \in Requests, Enter(p, r) PROVE IInv'
        BY <2>2, EnterIInv
    <2>3. ASSUME NEW p \in Procs,
                 \/ Reject(p) \/ Acquire(p) \/ SetLoad(p) \/ SetStore(p)
                 \/ Clear(p) \/ Copy(p) \/ Return(p)
          PROVE  IInv'
        BY <2>3, RejectIInv, AcquireIInv, SetLoadIInv, SetStoreIInv, ClearIInv,
           CopyIInv, ReturnIInv
    <2> QED
        BY <2>1, <2>2, <2>3 DEF Next
<1> QED
    BY <1>1, InitIInv, PTL DEF Spec

\* MarkBlockChanged, HandleIoctlQuery and HandleIoctlReset leave every
\* variable in its type.
THEOREM TypeCorrect == Spec => []TypeOK
<1>1. IInv => TypeOK
    BY DEF IInv
<1> QED
    BY <1>1, Invariance, PTL

\* No set of a bit is lost, for any number of concurrent writers, queries and
\* resets: this is what the KSPIN_LOCK around RtlSetBits is for (go2cbt.h).
THEOREM NoSetIsLost == Spec => []NoLostSet
<1>1. IInv => NoLostSet
    BY DEF IInv
<1> QED
    BY <1>1, Invariance, PTL
-----------------------------------------------------------------------------
(* The bitmap implements the atomic change set. *)

\* Each step of the bitmap is a step of the change set or leaves it alone.
LEMMA StepRefines == IInv /\ IInv' /\ [Next]_vars => [Abs!Next]_(Abs!vars)
<1> SUFFICES ASSUME IInv, IInv', [Next]_vars PROVE [Abs!Next]_(Abs!vars)
    OBVIOUS
<1> USE DEF IInv
<1> DEFINE Done == [p \in Procs |-> pc[p] \in Holding \cup {"ret"}]
<1>0. Requests = Abs!Requests /\ Idle = Abs!Idle
    BY DEF Requests, Abs!Requests, Idle, Abs!Idle
<1>1. CASE UNCHANGED vars
    BY <1>1 DEF vars, Abs!vars, AbsChanged, AbsAnswer, Range
<1>2. ASSUME NEW p \in Procs, NEW r \in Requests, Enter(p, r)
      PROVE  Abs!Next
    <2>1. Done' = Done /\ AbsAnswer' = AbsAnswer
        BY <1>2 DEF Enter, TypeOK, Holding, AbsAnswer
    <2>2. AbsChanged' = AbsChanged
        BY <1>2 DEF Enter, TypeOK, Holding, AbsChanged, LockInv, Range
    <2>3. Abs!Call(p, r)
        BY <1>2, <2>1, <2>2, <1>0 DEF Abs!Call, Enter, StepInv
    <2> QED
        BY <2>3, <1>0 DEF Abs!Next
<1>3. ASSUME NEW p \in Procs, Reject(p)
      PROVE  Abs!Next
    <2>0. pc[p] \notin Holding \cup {"ret"}
        BY <1>3 DEF Reject, Holding
    <2>1. Done' = Done /\ AbsAnswer' = AbsAnswer
        BY <1>3 DEF Reject, TypeOK, Holding, AbsAnswer
    <2>2. AbsChanged' = AbsChanged
        BY <1>3 DEF Reject, TypeOK, Holding, AbsChanged, LockInv, Range
    <2>3. req[p] # Idle /\ req' = [req EXCEPT ![p] = Idle] /\ buffer' = buffer
        BY <1>3 DEF Reject, StepInv
    <2>4. \/ ~buffer
          \/ req[p].kind = "mark" /\ Touched(req[p].off, req[p].len) = {}
          \/ req[p].kind = "query" /\ ~req[p].room
        <3>1. CASE req[p].kind = "mark" /\ Range(p) = {}
            BY <3>1, MarkRequest, TouchedInRange DEF Range, TypeOK
        <3> QED
            BY <3>1, <1>3 DEF Reject, Rejected
    <2>5. Abs!Refuse(p)
        BY <2>0, <2>1, <2>2, <2>3, <2>4, <1>0 DEF Abs!Refuse, Abs!Touched, Touched, Abs!Blocks, Blocks,
           Abs!TotalBits, TotalBits
    <2> QED
        BY <2>5 DEF Abs!Next
<1>4. ASSUME NEW p \in Procs, Acquire(p)
      PROVE  Abs!Next
    <2>0. pc[p] \notin Holding \cup {"ret"} /\ pc[p] = "enter"
        BY <1>4 DEF Acquire, Holding
    <2>1. req[p] \in Requests /\ req[p].kind \in {"mark", "query", "reset"}
        BY <1>4 DEF Acquire, StepInv, TypeOK, Requests
    <2>2. pc' = [pc EXCEPT ![p] = pc'[p]] /\ pc'[p] \in Holding
        BY <1>4, <2>1 DEF Acquire, TypeOK, Holding
    <2>3. /\ req[p].kind = "mark" <=> pc'[p] = "load"
          /\ req[p].kind = "query" <=> pc'[p] = "copy"
          /\ req[p].kind = "reset" <=> pc'[p] = "clear"
        BY <1>4, <2>1 DEF Acquire, TypeOK
    <2>4. /\ lock = NoProc /\ lock' = p /\ p # NoProc /\ buffer
          /\ UNCHANGED <<buffer, bits, req, out>>
          /\ \A q \in Procs : pc[q] \notin Holding
        BY <1>4, BitmapAssumption DEF Acquire, LockFree, Rejected, LockInv
    <2>5. Done' = [Done EXCEPT ![p] = TRUE]
        BY <2>2, <2>0 DEF TypeOK
    <2>6. AbsChanged = bits
        BY <2>4 DEF AbsChanged
    <2>7. CASE req[p].kind = "mark"
        <3>1. pc'[p] = "load" /\ Range(p)' = Range(p)
            BY <2>7, <2>3, <2>4 DEF Range
        <3>2. AbsChanged' = bits \cup Range(p)
            BY <3>1, <2>4 DEF AbsChanged
        <3>3. AbsAnswer' = AbsAnswer
            BY <3>1, <2>2, <2>4 DEF AbsAnswer, TypeOK, Holding
        <3>4. /\ req[p].off \in Nat /\ req[p].len \in Nat
              /\ Range(p) \subseteq Blocks
              /\ Touched(req[p].off, req[p].len) \subseteq Range(p)
              /\ req[p].len > 0 => Range(p) = Touched(req[p].off, req[p].len)
            BY <2>1, <2>7, MarkRequest, MarkRangeInBlocks, TouchedInRange DEF Range
        <3>5. Abs!Blocks = Blocks /\ \A o, l : Abs!Touched(o, l) = Touched(o, l)
            BY DEF Abs!Blocks, Blocks, Abs!Touched, Touched, Abs!TotalBits, TotalBits
        <3>6. Abs!Mark(p)
            BY <2>0, <2>4, <2>5, <2>6, <2>7, <3>2, <3>3, <3>4, <3>5 DEF Abs!Mark
        <3> QED
            BY <3>6 DEF Abs!Next
    <2>8. CASE req[p].kind = "query"
        <3>1. pc'[p] = "copy"
            BY <2>8, <2>3
        <3>2. AbsChanged' = bits
            BY <3>1, <2>4 DEF AbsChanged
        <3>3. AbsAnswer' = [AbsAnswer EXCEPT ![p] = bits]
            BY <3>1, <2>2, <2>4 DEF AbsAnswer, TypeOK, Holding
        <3>4. Abs!Query(p)
            BY <2>0, <2>4, <2>5, <2>6, <2>8, <3>2, <3>3 DEF Abs!Query
        <3> QED
            BY <3>4 DEF Abs!Next
    <2>9. CASE req[p].kind = "reset"
        <3>1. pc'[p] = "clear"
            BY <2>9, <2>3
        <3>2. AbsChanged' = {}
            BY <3>1, <2>4 DEF AbsChanged
        <3>3. AbsAnswer' = AbsAnswer
            BY <3>1, <2>2, <2>4 DEF AbsAnswer, TypeOK, Holding
        <3>4. Abs!Reset(p)
            BY <2>0, <2>4, <2>5, <2>6, <2>9, <3>2, <3>3 DEF Abs!Reset
        <3> QED
            BY <3>4 DEF Abs!Next
    <2> QED
        BY <2>1, <2>7, <2>8, <2>9
<1>5. ASSUME NEW p \in Procs, SetLoad(p)
      PROVE  UNCHANGED Abs!vars
    <2>1. lock = p /\ \A q \in Procs : q # p => pc[q] \notin Holding
        BY <1>5, OnlyHolder DEF SetLoad, Holding
    <2>2. Done' = Done /\ AbsAnswer' = AbsAnswer
        BY <1>5 DEF SetLoad, TypeOK, Holding, AbsAnswer
    <2>3. AbsChanged' = AbsChanged
        BY <1>5, <2>1 DEF SetLoad, AbsChanged, Range, TypeOK
    <2> QED
        BY <2>2, <2>3, <1>5 DEF SetLoad, Abs!vars
<1>6. ASSUME NEW p \in Procs, SetStore(p)
      PROVE  UNCHANGED Abs!vars
    <2> DEFINE last == EndBlock(req[p].off, req[p].len) \div WordBits
    <2>1. lock = p /\ p # NoProc /\ \A q \in Procs : q # p => pc[q] \notin Holding
        BY <1>6, OnlyHolder, BitmapAssumption DEF SetStore, Holding
    <2>2. /\ bits' = bits \cup (Range(p) \cap BitsOf(word[p]))
          /\ ~(word[p] < last) => bits' = bits \cup Range(p)
        BY <1>6, SetStoreBits
    <2>3. AbsChanged = bits \cup Range(p)
        BY <1>6, <2>1 DEF AbsChanged, SetStore
    <2>4. CASE word[p] < last
        <3>1. pc' = [pc EXCEPT ![p] = "load"] /\ UNCHANGED <<lock, buffer, req, out>>
            BY <2>4, <1>6 DEF SetStore, Advance
        <3>2. Done' = Done
            BY <3>1, <1>6 DEF SetStore, TypeOK, Holding
        <3>3. AbsAnswer' = AbsAnswer
            BY <3>1, <2>1, <1>6 DEF TypeOK, Holding, AbsAnswer, SetStore
        <3>4. AbsChanged' = bits' \cup Range(p)
            BY <3>1, <2>1 DEF AbsChanged, Range, TypeOK
        <3> QED
            BY <3>1, <3>2, <3>3, <3>4, <2>2, <2>3 DEF Abs!vars
    <2>5. CASE ~(word[p] < last)
        <3>1. pc' = [pc EXCEPT ![p] = "ret"] /\ lock' = NoProc /\ UNCHANGED <<buffer, req, out>>
            BY <2>5, <1>6 DEF SetStore, Advance
        <3>2. Done' = Done
            BY <3>1, <1>6 DEF SetStore, TypeOK, Holding
        <3>3. AbsAnswer' = AbsAnswer
            BY <3>1, <2>1, <1>6 DEF TypeOK, Holding, AbsAnswer, SetStore
        <3>4. AbsChanged' = bits'
            BY <3>1 DEF AbsChanged
        <3> QED
            BY <3>1, <3>2, <3>3, <3>4, <2>2, <2>3, <2>5 DEF Abs!vars
    <2> QED
        BY <2>4, <2>5
<1>7. ASSUME NEW p \in Procs, Clear(p)
      PROVE  UNCHANGED Abs!vars
    <2>1. lock = p /\ p # NoProc /\ \A q \in Procs : q # p => pc[q] \notin Holding
        BY <1>7, OnlyHolder, BitmapAssumption DEF Clear, Holding
    <2>2. AbsChanged = {}
        BY <1>7, <2>1 DEF AbsChanged, Clear
    <2>3. CASE word[p] < LastWord
        <3>1. pc' = pc /\ UNCHANGED <<lock, buffer, req, out>>
            BY <2>3, <1>7 DEF Clear, Advance, TypeOK
        <3>2. AbsAnswer' = AbsAnswer
            BY <3>1, <2>1, <1>7 DEF TypeOK, Holding, AbsAnswer, Clear
        <3>3. AbsChanged' = {}
            BY <3>1, <2>1, <1>7 DEF AbsChanged, Clear
        <3> QED
            BY <3>1, <3>2, <3>3, <2>2 DEF Abs!vars
    <2>4. CASE ~(word[p] < LastWord)
        <3>1. pc' = [pc EXCEPT ![p] = "ret"] /\ lock' = NoProc /\ UNCHANGED <<buffer, req, out>>
            BY <2>4, <1>7 DEF Clear, Advance
        <3>2. Done' = Done
            BY <3>1, <1>7 DEF Clear, TypeOK, Holding
        <3>3. AbsAnswer' = AbsAnswer
            BY <3>1, <2>1, <1>7 DEF TypeOK, Holding, AbsAnswer, Clear
        <3>4. AbsChanged' = {}
            BY <3>1, <2>4, <1>7, ClearBits DEF AbsChanged
        <3> QED
            BY <3>1, <3>2, <3>3, <3>4, <2>2 DEF Abs!vars
    <2> QED
        BY <2>3, <2>4
<1>8. ASSUME NEW p \in Procs, Copy(p)
      PROVE  UNCHANGED Abs!vars
    <2>1. lock = p /\ p # NoProc /\ \A q \in Procs : q # p => pc[q] \notin Holding
        BY <1>8, OnlyHolder, BitmapAssumption DEF Copy, Holding
    <2>2. AbsChanged = bits /\ bits' = bits
        BY <1>8, <2>1 DEF AbsChanged, Copy
    <2>3. out' = [out EXCEPT ![p] = out'[p]]
        BY <1>8 DEF Copy, TypeOK
    <2>4. CASE word[p] < LastWord
        <3>1. pc' = pc /\ UNCHANGED <<lock, buffer, req>>
            BY <2>4, <1>8 DEF Copy, Advance, TypeOK
        <3>2. AbsAnswer' = AbsAnswer
            BY <3>1, <2>2, <2>3, <1>8 DEF TypeOK, AbsAnswer, Copy
        <3>3. AbsChanged' = bits
            BY <3>1, <2>1, <2>2, <1>8 DEF AbsChanged, Copy
        <3> QED
            BY <3>1, <3>2, <3>3, <2>2 DEF Abs!vars
    <2>5. CASE ~(word[p] < LastWord)
        <3>1. pc' = [pc EXCEPT ![p] = "ret"] /\ lock' = NoProc /\ UNCHANGED <<buffer, req>>
            BY <2>5, <1>8 DEF Copy, Advance
        <3>2. Done' = Done
            BY <3>1, <1>8 DEF Copy, TypeOK, Holding
        <3>3. out'[p] = bits
            BY <2>5, <1>8, CopyBits
        <3>4. AbsAnswer' = AbsAnswer
            BY <3>1, <3>3, <2>2, <2>3, <1>8 DEF TypeOK, AbsAnswer, Copy
        <3>5. AbsChanged' = bits
            BY <3>1, <2>2 DEF AbsChanged
        <3> QED
            BY <3>1, <3>2, <3>4, <3>5, <2>2 DEF Abs!vars
    <2> QED
        BY <2>4, <2>5
<1>9. ASSUME NEW p \in Procs, Return(p)
      PROVE  Abs!Next
    <2>0. pc[p] \in Holding \cup {"ret"}
        BY <1>9 DEF Return
    <2>1. Done' = [Done EXCEPT ![p] = FALSE]
        <3>1. pc'[p] \notin Holding \cup {"ret"} /\ \A q \in Procs : q # p => pc'[q] = pc[q]
            BY <1>9 DEF Return, TypeOK, Holding
        <3>2. (pc'[p] \in Holding \cup {"ret"}) = FALSE
            BY <3>1
        <3> QED
            BY <3>1, <3>2
    <2>2. AbsAnswer' = [AbsAnswer EXCEPT ![p] = {}]
        BY <1>9 DEF Return, TypeOK, AbsAnswer
    <2>3. AbsChanged' = AbsChanged
        BY <1>9 DEF Return, TypeOK, Holding, AbsChanged, LockInv, Range
    <2>4. Abs!Return(p)
        BY <2>0, <2>1, <2>2, <2>3, <1>9, <1>0 DEF Abs!Return, Return
    <2> QED
        BY <2>4 DEF Abs!Next
<1> QED
    BY <1>1, <1>2, <1>3, <1>4, <1>5, <1>6, <1>7, <1>8, <1>9 DEF Next

\* The driver's bitmap, for any number of threads and any word size, is an
\* atomic set of blocks to its callers.
THEOREM BitmapIsAtomic == Spec => Atomic
<1>1. Init => Abs!Init
    <2> SUFFICES ASSUME Init PROVE Abs!Init
        OBVIOUS
    <2>1. \A p \in Procs : pc[p] \notin Holding \cup {"ret"} /\ pc[p] # "copy"
        BY DEF Init, Holding
    <2>2. \A p \in Procs : (pc[p] \in Holding \cup {"ret"}) = FALSE
        BY <2>1
    <2>3. AbsChanged = {} /\ AbsAnswer = [p \in Procs |-> {}]
        BY <2>1 DEF Init, AbsChanged, AbsAnswer
    <2> QED
        BY <2>2, <2>3 DEF Init, Abs!Init, Idle, Abs!Idle
<1>2. IInv /\ IInv' /\ [Next]_vars => [Abs!Next]_(Abs!vars)
    BY StepRefines
<1> QED
    BY <1>1, <1>2, Invariance, PTL DEF Spec, Atomic, Abs!Spec

=============================================================================
