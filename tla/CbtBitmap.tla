------------------------------ MODULE CbtBitmap ------------------------------
(***************************************************************************)
(* The change bitmap of one disk inside the go2cbt driver, at the grain at *)
(* which its threads interleave: a KSPIN_LOCK, a buffer of machine words,  *)
(* and the three operations on it                                          *)
(*   - MarkBlockChanged, run by HwReadWrite for every write of the disk,   *)
(*   - HandleIoctlQuery, which copies the bitmap to the caller,            *)
(*   - HandleIoctlReset, which clears it.                                  *)
(* RtlSetBits, RtlClearAllBits and RtlCopyMemory touch the buffer one word *)
(* at a time, and RtlSetBits loads a word before it stores it: without the *)
(* lock, a set or a clear of another thread in between would be lost.      *)
(***************************************************************************)
EXTENDS CbtLayout

CONSTANTS
    Procs,     \* kernel threads
    Writes,    \* the writes they may issue: a set of [off, len] records
    WordBits,  \* bits of a ULONG, the unit the bitmap routines access
    NoProc     \* the lock's value when no thread holds it

ASSUME BitmapAssumption ==
    /\ Writes \subseteq [off : Nat, len : Nat]
    /\ \A w \in Writes : w.len + DiskSize + BlockSize <= Wrap
    /\ WordBits \in Nat \ {0}
    /\ NoProc \notin Procs

VARIABLES
    buffer,  \* CbtState.Buffer # NULL: FALSE after a failed InitCbtState
    bits,    \* the set bits of the buffer
    lock,    \* CbtState.Lock
    req,     \* req[p]: the request p is executing, or Idle
    pc,      \* pc[p]: "idle", "enter", "load", "store", "clear", "copy", "ret"
    word,    \* word[p]: the word p's bitmap routine is at
    reg,     \* reg[p]: the word RtlSetBits has loaded
    out,     \* out[p]: the bitmap in p's output buffer
    owed     \* history: blocks touched by marks that returned since the last
             \* reset took the lock

vars == <<buffer, bits, lock, req, pc, word, reg, out, owed>>

Idle == [kind |-> "idle"]

Requests ==
         {[kind |-> "mark", off |-> w.off, len |-> w.len] : w \in Writes}
    \cup [kind : {"query"}, room : BOOLEAN]
    \cup [kind : {"reset"}]

\* The words of the buffer that RtlSetBits, RtlClearAllBits and RtlCopyMemory
\* go through.
BitsOf(w) == {b \in Blocks : b \div WordBits = w}
LastWord == (TotalBits - 1) \div WordBits

Range(p) == MarkRange(req[p].off, req[p].len)

Init ==
    /\ buffer \in BOOLEAN
    /\ bits = {}
    /\ lock = NoProc
    /\ req = [p \in Procs |-> Idle]
    /\ pc = [p \in Procs |-> "idle"]
    /\ word = [p \in Procs |-> 0]
    /\ reg = [p \in Procs |-> {}]
    /\ out = [p \in Procs |-> {}]
    /\ owed = {}

-----------------------------------------------------------------------------
(* A write reaches HwReadWrite, or an IOCTL reaches the control device. *)
Enter(p, r) ==
    /\ pc[p] = "idle"
    /\ req' = [req EXCEPT ![p] = r]
    /\ pc' = [pc EXCEPT ![p] = "enter"]
    /\ UNCHANGED <<buffer, bits, lock, word, reg, out, owed>>

(* The early returns: no bitmap, an empty range, an output buffer that only *)
(* has room for the header (STATUS_BUFFER_OVERFLOW).                        *)
Rejected(p) ==
    \/ ~buffer
    \/ req[p].kind = "mark" /\ Range(p) = {}
    \/ req[p].kind = "query" /\ ~req[p].room

Reject(p) ==
    /\ pc[p] = "enter" /\ Rejected(p)
    /\ req' = [req EXCEPT ![p] = Idle]
    /\ pc' = [pc EXCEPT ![p] = "idle"]
    /\ UNCHANGED <<buffer, bits, lock, word, reg, out, owed>>

\* Mutant: the spinlock is not acquired (a thread enters while another is in).
LockFreeAlways == TRUE

\* KeAcquireSpinLock lets a thread in when nobody holds the lock.
LockFree == lock = NoProc

(* KeAcquireSpinLock, then the first word of the routine. *)
Acquire(p) ==
    /\ pc[p] = "enter" /\ ~Rejected(p)
    /\ LockFree
    /\ lock' = p
    /\ pc' = [pc EXCEPT ![p] = CASE req[p].kind = "mark"  -> "load"
                                 [] req[p].kind = "query" -> "copy"
                                 [] req[p].kind = "reset" -> "clear"]
    /\ word' = [word EXCEPT ![p] =
                  IF req[p].kind = "mark"
                  THEN StartBlock(req[p].off) \div WordBits ELSE 0]
    /\ owed' = IF req[p].kind = "reset" THEN {} ELSE owed
    /\ UNCHANGED <<buffer, bits, req, reg, out>>

\* The routine goes on with the next word, or the lock is released.
Advance(p, last, again) ==
    IF word[p] < last
    THEN /\ word' = [word EXCEPT ![p] = @ + 1]
         /\ pc' = [pc EXCEPT ![p] = again]
         /\ UNCHANGED lock
    ELSE /\ word' = [word EXCEPT ![p] = 0]
         /\ pc' = [pc EXCEPT ![p] = "ret"]
         /\ lock' = NoProc

(* RtlSetBits, one word: load, or in the bits of the range, store. *)
SetLoad(p) ==
    /\ pc[p] = "load"
    /\ reg' = [reg EXCEPT ![p] = bits \cap BitsOf(word[p])]
    /\ pc' = [pc EXCEPT ![p] = "store"]
    /\ UNCHANGED <<buffer, bits, lock, req, word, out, owed>>

SetStore(p) ==
    LET last == EndBlock(req[p].off, req[p].len) \div WordBits
    IN  /\ pc[p] = "store"
        /\ bits' = (bits \ BitsOf(word[p])) \cup reg[p]
                       \cup (Range(p) \cap BitsOf(word[p]))
        /\ reg' = [reg EXCEPT ![p] = {}]
        /\ Advance(p, last, "load")
        /\ owed' = IF word[p] < last THEN owed
                   ELSE owed \cup Touched(req[p].off, req[p].len)
        /\ UNCHANGED <<buffer, req, out>>

(* RtlClearAllBits, one word. *)
Clear(p) ==
    /\ pc[p] = "clear"
    /\ bits' = bits \ BitsOf(word[p])
    /\ Advance(p, LastWord, "clear")
    /\ UNCHANGED <<buffer, req, reg, out, owed>>

(* RtlCopyMemory, one word. *)
Copy(p) ==
    /\ pc[p] = "copy"
    /\ out' = [out EXCEPT ![p] = (@ \ BitsOf(word[p]))
                                     \cup (bits \cap BitsOf(word[p]))]
    /\ Advance(p, LastWord, "copy")
    /\ UNCHANGED <<buffer, bits, req, reg, owed>>

(* HwReadWrite goes on to the original write routine, or the IOCTL request  *)
(* completes and the caller takes the copied bitmap.                        *)
Return(p) ==
    /\ pc[p] = "ret"
    /\ pc' = [pc EXCEPT ![p] = "idle"]
    /\ req' = [req EXCEPT ![p] = Idle]
    /\ out' = [out EXCEPT ![p] = {}]
    /\ UNCHANGED <<buffer, bits, lock, word, reg, owed>>

Next ==
    \E p \in Procs :
        \/ \E r \in Requests : Enter(p, r)
        \/ Reject(p)
        \/ Acquire(p)
        \/ SetLoad(p)
        \/ SetStore(p)
        \/ Clear(p)
        \/ Copy(p)
        \/ Return(p)

Spec == Init /\ [][Next]_vars

-----------------------------------------------------------------------------
(* Properties. *)

Holding == {"load", "store", "clear", "copy"}

(* Types; in particular no bitmap routine ever reaches for a word outside    *)
(* the buffer.                                                               *)
TypeOK ==
    /\ buffer \in BOOLEAN
    /\ bits \subseteq Blocks
    /\ lock \in Procs \cup {NoProc}
    /\ req \in [Procs -> Requests \cup {Idle}]
    /\ pc \in [Procs -> {"idle", "enter", "ret"} \cup Holding]
    /\ word \in [Procs -> 0 .. LastWord]
    /\ reg \in [Procs -> SUBSET Blocks]
    /\ out \in [Procs -> SUBSET Blocks]
    /\ owed \subseteq Blocks

(* No set is lost: the blocks of every write whose MarkBlockChanged has      *)
(* returned since the last reset began are set in the bitmap, whatever other *)
(* threads are setting, copying or clearing meanwhile ("Lost set due to race *)
(* is unacceptable", go2cbt.h).                                              *)
NoLostSet == owed \subseteq bits

-----------------------------------------------------------------------------
(* The refinement mapping: an operation takes effect when it gets the lock. *)

AbsChanged ==
    IF lock = NoProc THEN bits
    ELSE CASE pc[lock] \in {"load", "store"} -> bits \cup Range(lock)
           [] pc[lock] = "clear"             -> {}
           [] OTHER                          -> bits

AbsAnswer == [p \in Procs |-> IF pc[p] = "copy" THEN bits ELSE out[p]]

Abs == INSTANCE ChangeSet WITH
    tracked <- buffer,
    changed <- AbsChanged,
    call    <- req,
    done    <- [p \in Procs |-> pc[p] \in Holding \cup {"ret"}],
    answer  <- AbsAnswer

(* Mark, query and reset are atomic: the bitmap behaves as the set of        *)
(* blocks of ChangeSet, so a query returns all of a write's bits or none of  *)
(* them that a concurrent reset or mark has not yet made visible, and a mark *)
(* reports exactly the blocks its bytes lie in.                              *)
Atomic == Abs!Spec

=============================================================================
