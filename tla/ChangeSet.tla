------------------------------ MODULE ChangeSet ------------------------------
(***************************************************************************)
(* What the change tracking of one disk promises its callers: a set of     *)
(* blocks on which mark, query and reset act atomically, at some instant   *)
(* between the call and the return.  CbtBitmap shows that the driver's     *)
(* spinlock-protected bitmap implements it.                                *)
(***************************************************************************)
EXTENDS CbtLayout

CONSTANTS
    Procs,   \* kernel threads that run HwReadWrite or the IOCTL handlers
    Writes   \* the writes they may issue: a set of [off, len] records

VARIABLES
    tracked,  \* the disk has a bitmap (InitCbtState succeeded)
    changed,  \* the blocks reported as changed
    call,     \* call[p]: the request p is executing, or Idle
    done,     \* done[p]: p's request has taken effect
    answer    \* answer[p]: the bitmap p's query returns, from its effect to its return

vars == <<tracked, changed, call, done, answer>>

Idle == [kind |-> "idle"]

Requests ==
         {[kind |-> "mark", off |-> w.off, len |-> w.len] : w \in Writes}
    \cup [kind : {"query"}, room : BOOLEAN]
    \cup [kind : {"reset"}]

Init ==
    /\ tracked \in BOOLEAN
    /\ changed = {}
    /\ call = [p \in Procs |-> Idle]
    /\ done = [p \in Procs |-> FALSE]
    /\ answer = [p \in Procs |-> {}]

Call(p, r) ==
    /\ call[p] = Idle
    /\ call' = [call EXCEPT ![p] = r]
    /\ UNCHANGED <<tracked, changed, done, answer>>

\* A mark reports every block that a written byte lies in.  Only a write of
\* no bytes may report more than that.
Mark(p) ==
    /\ call[p].kind = "mark" /\ ~done[p] /\ tracked
    /\ \E S \in SUBSET Blocks :
          /\ Touched(call[p].off, call[p].len) \subseteq S
          /\ call[p].len > 0 => S = Touched(call[p].off, call[p].len)
          /\ changed' = changed \cup S
    /\ done' = [done EXCEPT ![p] = TRUE]
    /\ UNCHANGED <<tracked, call, answer>>

\* A query returns the whole set as it is at one instant.
Query(p) ==
    /\ call[p].kind = "query" /\ ~done[p] /\ tracked
    /\ answer' = [answer EXCEPT ![p] = changed]
    /\ done' = [done EXCEPT ![p] = TRUE]
    /\ UNCHANGED <<tracked, changed, call>>

Reset(p) ==
    /\ call[p].kind = "reset" /\ ~done[p] /\ tracked
    /\ changed' = {}
    /\ done' = [done EXCEPT ![p] = TRUE]
    /\ UNCHANGED <<tracked, call, answer>>

\* A request that takes no effect: any request on a disk without a bitmap, a
\* mark that touches no block, a query whose buffer has no room.
Refuse(p) ==
    /\ call[p] # Idle /\ ~done[p]
    /\ \/ ~tracked
       \/ call[p].kind = "mark" /\ Touched(call[p].off, call[p].len) = {}
       \/ call[p].kind = "query" /\ ~call[p].room
    /\ call' = [call EXCEPT ![p] = Idle]
    /\ UNCHANGED <<tracked, changed, done, answer>>

Return(p) ==
    /\ done[p]
    /\ call' = [call EXCEPT ![p] = Idle]
    /\ done' = [done EXCEPT ![p] = FALSE]
    /\ answer' = [answer EXCEPT ![p] = {}]
    /\ UNCHANGED <<tracked, changed>>

Next ==
    \E p \in Procs :
        \/ \E r \in Requests : Call(p, r)
        \/ Mark(p) \/ Query(p) \/ Reset(p)
        \/ Refuse(p) \/ Return(p)

Spec == Init /\ [][Next]_vars

=============================================================================
