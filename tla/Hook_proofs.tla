----------------------------- MODULE Hook_proofs -----------------------------
(***************************************************************************)
(* The driver's hooks for any drivers, devices, table sizes and writing    *)
(* threads: types, RightRoutine, NoDeadLoop, UnloadSafe, and, for a scan   *)
(* that meets each device once, MarkedWhenLoaded.                          *)
(*                                                                         *)
(* IInv is the inductive invariant.  Its parts say where the loading       *)
(* thread is in its tables; that a hook entry keeps a routine that leads   *)
(* to its own driver, and a map entry its own device's hook, for as long   *)
(* as each table is there; which drivers have HwReadWrite in their table;  *)
(* and what a write carries with it.                                       *)
(***************************************************************************)
EXTENDS Hook, TLAPS

USE HookAssumption

(* The routines are different ones. *)
LEMMA RoutineFacts ==
    /\ Ours # Foreign /\ Ours # Null /\ Foreign # Null
    /\ \A d : Own(d) # Ours /\ Own(d) # Foreign /\ Own(d) # Null
    /\ \A d, e : Own(d) = Own(e) => d = e
    /\ \A d \in Drivers : Own(d) \in Routines
    /\ Ours \in Routines /\ Foreign \in Routines /\ Null \in Routines
  BY DEF Own, Ours, Foreign, Null, Routines

-----------------------------------------------------------------------------
(* The inductive invariant. *)

Building == {"scan", "exchange", "publish", "map", "count"}
Gone == {"delete", "free", "zero", "unmap", "idle"}
InTheDriver == {"lookup", "hook", "found", "through", "emergency",
                "entry", "original", "check", "set"}

HookRec == [drv : Drivers \cup {"none"}, original : Routines, installed : BOOLEAN]
MapRec == [dev : Devices \cup {"none"}, hook : 0 .. MaxHooked, buffer : {"ok", "null"}]
WriteRec == [at : {"call", "lookup", "hook", "found", "through", "emergency",
                   "entry", "original", "check", "set", "done"},
             dev : Devices, routine : Routines, j : 0 .. MaxMap, k : 0 .. MaxHooked,
             depth : 0 .. StackMax, marked : BOOLEAN, due : BOOLEAN]

Kinds ==
    /\ major \in [Drivers -> Routines] /\ saved \in [Drivers -> Routines]
    /\ hooks \in [1 .. MaxHooked -> HookRec] /\ map \in [1 .. MaxMap -> MapRec]
    /\ hookCount \in 0 .. MaxHooked /\ mapCount \in 0 .. MaxMap
    /\ ld \in [at : Building \cup Gone \cup {"loaded", "restore", "put"}, i : Nat]
    /\ w \in [Writers -> WriteRec \cup {Quiet}]
    /\ fault \in {"none", "overflow", "unmapped", "zeroed", "freed"}
    /\ culprit \in Writers \cup {"none"} /\ early \subseteq Writers

(* The tables that unloading has not zeroed yet. *)
HooksUp == ld.at # "unmap" /\ (ld.at = "zero" => ld.i = 1)
MapUp == ld.at # "unmap" /\ (ld.at = "zero" => ld.i <= 3)

(* A filled entry of the hook table: its routine is the driver's own one,  *)
(* unless another driver has been at the driver's table.                   *)
GoodHook(k) ==
    LET e == hooks[k]
    IN  /\ e.drv \in Drivers
        /\ e.original \in {Own(e.drv), Ours, Foreign}
        /\ e.original = Ours => saved[e.drv] = Ours
        /\ e.original = Foreign => saved[e.drv] # Null

(* A filled entry of the map: it has the hook of its device's driver. *)
GoodMap(j) ==
    LET e == map[j]
    IN  /\ e.dev \in Devices /\ e.hook \in 1 .. MaxHooked
        /\ HooksUp => e.hook \in 1 .. hookCount /\ hooks[e.hook].drv = DriverOf[e.dev]

(* Where the loading thread is in the scan and in the tables. *)
LoadInv ==
    /\ ld.at = "scan" => ld.i \in 1 .. Len(Scan) + 1
    /\ ld.at \in Building \ {"scan"} => ld.i \in 1 .. Len(Scan)
    /\ ld.at \in {"exchange", "publish"} =>
          hookCount < MaxHooked /\ hooks[hookCount + 1].drv = Driver /\ GoodHook(hookCount + 1)
    /\ ld.at = "map" => Known(Driver) # {}
    /\ ld.at = "count" => /\ mapCount < MaxMap /\ GoodMap(mapCount + 1)
                          /\ map[mapCount + 1].dev = Scan[ld.i]
    /\ ld.at = "restore" => ld.i \in 1 .. hookCount + 1
    /\ ld.at = "put" => ld.i \in 1 .. hookCount
    /\ ld.at = "free" => ld.i \in 1 .. mapCount + 1
    /\ ld.at = "zero" => ld.i \in 1 .. 4 /\ (ld.i \in 3 .. 4 => hookCount = 0)
    /\ ~HooksUp => hooks = ZeroHooks
    /\ ~MapUp => map = ZeroMap
    /\ ld.at \in {"unmap", "idle"} => hookCount = 0 /\ mapCount = 0

(* The counted entries are good, and there is one hook for a driver. *)
TableInv ==
    /\ HooksUp => \A k \in 1 .. hookCount : GoodHook(k)
    /\ HooksUp => \A k, l \in 1 .. hookCount : hooks[k].drv = hooks[l].drv => k = l
    /\ MapUp => \A j \in 1 .. mapCount : GoodMap(j)
    /\ ld.at \in {"exchange", "publish"} => Known(Driver) = {}

(* Whose table holds what.  Unless another driver's hook over ours has put *)
(* it back, HwReadWrite is in the table of a driver only while its hook is *)
(* published or in the hook table, and the restore loop has not come to it.*)
Published(d, n) == \E k \in n .. hookCount : hooks[k].drv = d /\ hooks[k].installed
MajorInv ==
    \A d \in Drivers :
        /\ major[d] \in {Own(d), Ours, Foreign} /\ saved[d] \in {Own(d), Ours, Null}
        /\ major[d] = Foreign => saved[d] # Null
        /\ saved[d] # Ours /\ major[d] = Ours =>
              \/ ld.at = "publish" /\ Driver = d
              \/ ld.at \in Building \cup {"loaded"} /\ Published(d, 1)
              \/ ld.at \in {"restore", "put"} /\ Published(d, ld.i)

(* A write that unloading may take by surprise: it was on its way when the *)
(* restore loop ended, or our hook on its driver could not be taken out.   *)
Exposed(t) == t \in early \/ saved[drvOf(t)] = Ours

(* The routine a write is going to call leads to its own driver, unless it *)
(* was read from a zeroed entry.                                           *)
RoutineInv ==
    \A t \in Writers : w[t].at # "out" =>
        /\ w[t].routine \in {Own(drvOf(t)), Ours, Foreign, Null}
        /\ w[t].routine = Foreign => saved[drvOf(t)] # Null
        /\ w[t].routine = Null => w[t].depth > 0 /\ Exposed(t)
        /\ w[t].at = "done" => w[t].routine = Own(drvOf(t))
        /\ w[t].at \in InTheDriver => w[t].depth > 0

(* The entries a write has found are those of its device and its driver,   *)
(* as long as the tables are there; and nobody is in the driver when it is *)
(* not.                                                                    *)
Entered(t) ==
    /\ w[t].at \in {"entry", "original", "check", "set"} =>
          /\ w[t].j \in 1 .. MaxMap
          /\ MapUp => w[t].j \in 1 .. mapCount /\ map[w[t].j].dev = w[t].dev
    /\ w[t].at \in {"found", "through", "original"} =>
          /\ w[t].k \in 1 .. MaxHooked
          /\ HooksUp => w[t].k \in 1 .. hookCount /\ hooks[w[t].k].drv = drvOf(t)
    /\ w[t].at = "set" /\ map[w[t].j].buffer # "ok" => ld.at \in {"free", "zero", "unmap"}
    /\ w[t].at \in InTheDriver => ld.at # "idle"
EntryInv == fault = "none" => \A t \in Writers : Entered(t)

(* Once the restore loop has ended, only exposed writes are engaged. *)
RestoredInv == ld.at \in Gone => \A t \in Engaged : Exposed(t)

IInv ==
    /\ Kinds /\ LoadInv /\ TableInv /\ MajorInv
    /\ RoutineInv /\ EntryInv /\ RestoredInv /\ UnloadSafe

-----------------------------------------------------------------------------
(* The steps of a write, field by field. *)

(* A write that is under way has all its fields. *)
LEMMA Busy ==
    ASSUME Kinds, NEW t \in Writers, w[t].at # "out"
    PROVE  /\ w[t] \in WriteRec
           /\ w[t].dev \in Devices /\ drvOf(t) \in Drivers /\ w[t].routine \in Routines
           /\ w[t].j \in 0 .. MaxMap /\ w[t].k \in 0 .. MaxHooked /\ w[t].depth \in 0 .. StackMax
           /\ w[t].marked \in BOOLEAN /\ w[t].due \in BOOLEAN
  <1>1. w[t] \in WriteRec BY DEF Kinds, Quiet
  <1> QED BY <1>1 DEF WriteRec, drvOf

(* What a write changes: its own place, the fault, and that it is early. *)
LEMMA WriteFrame ==
    ASSUME Kinds, NEW t \in Writers, Write(t)
    PROVE  /\ fault = "none"
           /\ UNCHANGED <<major, saved, hooks, hookCount, map, mapCount, ld>>
           /\ w' = [w EXCEPT ![t] = w'[t]]
           /\ \/ early' = early
              \/ early' = early \ {t} /\ w'[t] = Quiet
  <1>1. w \in [Writers -> WriteRec \cup {Quiet}] BY DEF Kinds
  <1>2. CASE Return(t) BY <1>1, <1>2 DEF Write, Return, Step, Die, tables
  <1>3. CASE ~Return(t)
    BY <1>1, <1>3 DEF Write, Issue, Call, Lookup, SearchHooks, Installed, PassThrough, Emergency,
                      Entry, Original, Check, Set, Step, Die, tables
  <1> QED BY <1>2, <1>3

(* The other threads' writes stay where they are. *)
LEMMA WriteOthers ==
    ASSUME Kinds, NEW t \in Writers, Write(t), NEW u \in Writers, u # t
    PROVE  w'[u] = w[u] /\ drvOf(u)' = drvOf(u) /\ (u \in early' <=> u \in early)
  <1>1. w'[u] = w[u] BY WriteFrame DEF Kinds
  <1> QED BY <1>1, WriteFrame DEF drvOf

Issued(t) ==
    /\ w[t].at = "out" /\ w'[t].at = "call" /\ w'[t].dev \in Devices
    /\ w'[t].routine = major[drvOf(t)'] /\ w'[t].depth = 0
    /\ w'[t].due = (ld.at = "loaded" /\ Tracked(w'[t].dev) /\ Hooked(drvOf(t)'))
    /\ fault' = "none"

(* The routine is called, and leads on to the driver, the other driver, or *)
(* HwReadWrite.                                                            *)
Called(t) ==
    /\ w[t].at = "call" /\ w'[t].marked = w[t].marked
    /\ \/ /\ w[t].routine \in {Own(d) : d \in Drivers}
          /\ w'[t].at = "done" /\ w'[t].routine = w[t].routine /\ w'[t].depth = w[t].depth
       \/ /\ w[t].routine = Foreign
          /\ w'[t].at = "call" /\ w'[t].routine = saved[drvOf(t)] /\ w'[t].depth = w[t].depth
       \/ /\ w[t].routine = Ours /\ ld.at # "idle"
          /\ w'[t].at = "lookup" /\ w'[t].routine = w[t].routine /\ w'[t].depth = w[t].depth + 1

(* HwReadWrite looks for the entries it goes by. *)
Searched(t) ==
    /\ w'[t].routine = w[t].routine /\ w'[t].depth = w[t].depth /\ w'[t].marked = w[t].marked
    /\ \/ /\ w[t].at = "lookup" /\ w'[t].at = "hook"
          /\ \A j \in 1 .. mapCount : map[j].dev # w[t].dev
       \/ /\ w[t].at = "lookup" /\ w'[t].at = "entry"
          /\ w'[t].j \in 1 .. mapCount /\ map[w'[t].j].dev = w[t].dev
       \/ w[t].at = "hook" /\ w'[t].at = "emergency" /\ Known(drvOf(t)) = {}
       \/ w[t].at = "hook" /\ w'[t].at = "found" /\ w'[t].k \in Known(drvOf(t))
       \/ w[t].at = "found" /\ w'[t].at = "through" /\ w'[t].k = w[t].k
       \/ w[t].at = "found" /\ w'[t].at = "emergency" /\ ~hooks[w[t].k].installed
       \/ /\ w[t].at = "entry" /\ w'[t].at = "original"
          /\ map[w[t].j].hook # 0 /\ w'[t].k = map[w[t].j].hook /\ w'[t].j = w[t].j

(* It takes the routine to call from them, or from the driver. *)
Took(t) ==
    /\ w'[t].depth = w[t].depth /\ w'[t].marked = w[t].marked
    /\ \/ /\ w[t].at = "through" /\ w'[t].at = "call"
          /\ w'[t].routine = hooks[w[t].k].original
       \/ /\ w[t].at = "emergency" /\ w'[t].at = "call"
          /\ w'[t].routine = major[drvOf(t)]
       \/ /\ w[t].at = "original" /\ w'[t].at = "check"
          /\ w'[t].routine = hooks[w[t].k].original /\ w'[t].j = w[t].j

Marking(t) ==
    /\ w'[t].routine = w[t].routine /\ w'[t].depth = w[t].depth
    /\ \/ /\ w[t].at = "check" /\ w'[t].at = "set" /\ map[w[t].j].buffer = "ok"
          /\ w'[t].j = w[t].j /\ w'[t].marked = w[t].marked
       \/ /\ w[t].at = "check" /\ w'[t].at = "call" /\ map[w[t].j].buffer # "ok"
          /\ w'[t].marked = w[t].marked
       \/ w[t].at = "set" /\ w'[t].at = "call" /\ w'[t].marked = (map[w[t].j].buffer = "ok")

Moved(t) ==
    /\ w[t].at # "out" /\ w'[t].dev = w[t].dev /\ w'[t].due = w[t].due
    /\ drvOf(t)' = drvOf(t) /\ fault' = "none" /\ early' = early
    /\ Called(t) \/ Searched(t) \/ Took(t) \/ Marking(t)

Returned(t) == w[t].at = "done" /\ w'[t] = Quiet /\ fault' = "none"

Died(t) ==
    /\ w[t].at # "out" /\ w' = w /\ early' = early /\ culprit' = t
    /\ \/ fault' = "zeroed" /\ w[t].at = "call" /\ w[t].routine = Null
       \/ fault' = "unmapped" /\ w[t].at = "call" /\ w[t].routine = Ours /\ ld.at = "idle"
       \/ fault' = "overflow"
       \/ fault' = "zeroed" /\ w[t].at = "entry" /\ map[w[t].j].hook = 0
       \/ fault' = "freed" /\ w[t].at = "set" /\ map[w[t].j].buffer # "ok"
       \/ fault' = "unmapped" /\ w[t].at = "done" /\ w[t].depth > 0 /\ ld.at = "idle"

(* Every step of a write is one of these. *)
LEMMA WriteCases ==
    ASSUME Kinds, NEW t \in Writers, Write(t)
    PROVE  Issued(t) \/ Moved(t) \/ Returned(t) \/ Died(t)
  <1>0. w \in [Writers -> WriteRec \cup {Quiet}] /\ fault = "none" BY DEF Kinds, Write
  <1>1. CASE Issue(t)
    <2>1. PICK dev \in Devices :
             Step(t, [at |-> "call", dev |-> dev, routine |-> major[DriverOf[dev]],
                      j |-> 0, k |-> 0, depth |-> 0, marked |-> FALSE,
                      due |-> ld.at = "loaded" /\ Tracked(dev) /\ Hooked(DriverOf[dev])])
      BY <1>1 DEF Issue
    <2> DEFINE b == ld.at = "loaded" /\ Tracked(dev) /\ Hooked(DriverOf[dev])
    <2>2. /\ w'[t] = [at |-> "call", dev |-> dev, routine |-> major[DriverOf[dev]],
                      j |-> 0, k |-> 0, depth |-> 0, marked |-> FALSE, due |-> b]
          /\ fault' = fault
      BY <2>1, <1>0 DEF Step, health
    <2> HIDE DEF b
    <2>3. /\ w'[t].at = "call" /\ w'[t].dev = dev /\ w'[t].routine = major[DriverOf[dev]]
          /\ w'[t].depth = 0 /\ w'[t].due = b
      BY <2>2
    <2>4. drvOf(t)' = DriverOf[dev] BY <2>3 DEF drvOf
    <2>5. w'[t].due = (ld.at = "loaded" /\ Tracked(w'[t].dev) /\ Hooked(drvOf(t)'))
      BY <2>3, <2>4 DEF b
    <2> QED BY <1>0, <1>1, <2>2, <2>3, <2>4, <2>5 DEF Issue, Issued
  <1>2. ASSUME w[t].at # "out" PROVE w[t] \in WriteRec BY <1>2, Busy
  <1>k. ASSUME w'[t].dev = w[t].dev PROVE drvOf(t)' = drvOf(t) BY <1>k DEF drvOf
  <1>3. CASE Call(t)
    <2>0. w[t] \in WriteRec /\ w[t].at = "call" /\ early' = early BY <1>2, <1>3 DEF Call
    <2>1. CASE w[t].routine \in {Own(d) : d \in Drivers} /\ Step(t, [w[t] EXCEPT !.at = "done"])
      <3>1. w'[t] = [w[t] EXCEPT !.at = "done"] /\ fault' = "none" BY <2>1, <1>0 DEF Step, health
      <3> QED BY <3>1, <2>0, <2>1, <1>k DEF WriteRec, Moved, Called
    <2>2. CASE w[t].routine = Foreign /\ Step(t, [w[t] EXCEPT !.routine = saved[drvOf(t)]])
      <3>1. w'[t] = [w[t] EXCEPT !.routine = saved[drvOf(t)]] /\ fault' = "none"
        BY <2>2, <1>0 DEF Step, health
      <3> QED BY <3>1, <2>0, <2>2, <1>k DEF WriteRec, Moved, Called
    <2>3. CASE /\ w[t].routine = Ours /\ ld.at # "idle"
               /\ Step(t, [w[t] EXCEPT !.at = "lookup", !.depth = @ + 1])
      <3>1. w'[t] = [w[t] EXCEPT !.at = "lookup", !.depth = @ + 1] /\ fault' = "none"
        BY <2>3, <1>0 DEF Step, health
      <3> QED BY <3>1, <2>0, <2>3, <1>k DEF WriteRec, Moved, Called
    <2>4. CASE \/ w[t].routine = Null /\ Die(t, "zeroed")
               \/ w[t].routine = Ours /\ ld.at = "idle" /\ Die(t, "unmapped")
               \/ Die(t, "overflow")
      BY <2>0, <2>4 DEF Die, Died
    <2> QED BY <1>3, <2>1, <2>2, <2>3, <2>4 DEF Call
  <1>4. CASE Lookup(t)
    <2>0. w[t] \in WriteRec /\ w[t].at = "lookup" /\ early' = early BY <1>2, <1>4 DEF Lookup
    <2>1. /\ \/ /\ \A j \in 1 .. mapCount : map[j].dev # w[t].dev
                /\ w'[t] = [w[t] EXCEPT !.at = "hook"]
             \/ \E j \in 1 .. mapCount : /\ map[j].dev = w[t].dev
                                         /\ w'[t] = [w[t] EXCEPT !.at = "entry", !.j = j]
          /\ fault' = "none"
      BY <1>0, <1>4 DEF Lookup, Step, health
    <2> QED BY <2>0, <2>1, <1>k DEF WriteRec, Moved, Searched
  <1>5. CASE SearchHooks(t)
    <2>0. w[t] \in WriteRec /\ w[t].at = "hook" /\ early' = early BY <1>2, <1>5 DEF SearchHooks
    <2>1. /\ \/ Known(drvOf(t)) = {} /\ w'[t] = [w[t] EXCEPT !.at = "emergency"]
             \/ \E k \in Known(drvOf(t)) : w'[t] = [w[t] EXCEPT !.at = "found", !.k = k]
          /\ fault' = "none"
      BY <1>0, <1>5 DEF SearchHooks, Step, health
    <2> QED BY <2>0, <2>1, <1>k DEF WriteRec, Moved, Searched
  <1>6. CASE Installed(t)
    <2>0. w[t] \in WriteRec /\ w[t].at = "found" /\ early' = early BY <1>2, <1>6 DEF Installed
    <2>1. /\ \/ w'[t] = [w[t] EXCEPT !.at = "through"]
             \/ ~hooks[w[t].k].installed /\ w'[t] = [w[t] EXCEPT !.at = "emergency"]
          /\ fault' = "none"
      BY <1>0, <1>6 DEF Installed, Step, health
    <2> QED BY <2>0, <2>1, <1>k DEF WriteRec, Moved, Searched
  <1>7. CASE PassThrough(t)
    <2>0. w[t] \in WriteRec /\ w[t].at = "through" /\ early' = early BY <1>2, <1>7 DEF PassThrough
    <2>1. /\ w'[t] = [w[t] EXCEPT !.at = "call", !.routine = hooks[w[t].k].original]
          /\ fault' = "none"
      BY <1>0, <1>7 DEF PassThrough, Step, health
    <2> QED BY <2>0, <2>1, <1>k DEF WriteRec, Moved, Took
  <1>8. CASE Emergency(t)
    <2>0. w[t] \in WriteRec /\ w[t].at = "emergency" /\ early' = early BY <1>2, <1>8 DEF Emergency
    <2>1. /\ w'[t] = [w[t] EXCEPT !.at = "call", !.routine = major[drvOf(t)]]
          /\ fault' = "none"
      BY <1>0, <1>8 DEF Emergency, Step, health
    <2> QED BY <2>0, <2>1, <1>k DEF WriteRec, Moved, Took
  <1>9. CASE Entry(t)
    <2>0. w[t] \in WriteRec /\ w[t].at = "entry" /\ early' = early BY <1>2, <1>9 DEF Entry
    <2>1. CASE map[w[t].j].hook = 0 /\ Die(t, "zeroed") BY <2>0, <2>1 DEF Die, Died
    <2>2. CASE /\ map[w[t].j].hook # 0
               /\ Step(t, [w[t] EXCEPT !.at = "original", !.k = map[w[t].j].hook])
      <3>1. /\ w'[t] = [w[t] EXCEPT !.at = "original", !.k = map[w[t].j].hook]
            /\ fault' = "none"
        BY <1>0, <2>2 DEF Step, health
      <3> QED BY <2>0, <2>2, <3>1, <1>k DEF WriteRec, Moved, Searched
    <2> QED BY <1>9, <2>1, <2>2 DEF Entry
  <1>10. CASE Original(t)
    <2>0. w[t] \in WriteRec /\ w[t].at = "original" /\ early' = early BY <1>2, <1>10 DEF Original
    <2>1. /\ w'[t] = [w[t] EXCEPT !.at = "check", !.routine = hooks[w[t].k].original]
          /\ fault' = "none"
      BY <1>0, <1>10 DEF Original, Step, health
    <2> QED BY <2>0, <2>1, <1>k DEF WriteRec, Moved, Took
  <1>11. CASE Check(t)
    <2>0. w[t] \in WriteRec /\ w[t].at = "check" /\ early' = early BY <1>2, <1>11 DEF Check
    <2>1. /\ \/ map[w[t].j].buffer = "ok" /\ w'[t] = [w[t] EXCEPT !.at = "set"]
             \/ map[w[t].j].buffer # "ok" /\ w'[t] = [w[t] EXCEPT !.at = "call"]
          /\ fault' = "none"
      BY <1>0, <1>11 DEF Check, Step, health
    <2> QED BY <2>0, <2>1, <1>k DEF WriteRec, Moved, Marking
  <1>12. CASE Set(t)
    <2>0. w[t] \in WriteRec /\ w[t].at = "set" /\ early' = early BY <1>2, <1>12 DEF Set
    <2>1. CASE map[w[t].j].buffer # "ok" /\ Die(t, "freed") BY <2>0, <2>1 DEF Die, Died
    <2>2. CASE Step(t, [w[t] EXCEPT !.at = "call", !.marked = (map[w[t].j].buffer = "ok")])
      <3> DEFINE b == map[w[t].j].buffer = "ok"
      <3>1. w'[t] = [w[t] EXCEPT !.at = "call", !.marked = b] /\ fault' = "none"
        BY <1>0, <2>2 DEF Step, health
      <3> HIDE DEF b
      <3>2. /\ w'[t].at = "call" /\ w'[t].marked = b /\ w'[t].dev = w[t].dev /\ w'[t].due = w[t].due
            /\ w'[t].routine = w[t].routine /\ w'[t].depth = w[t].depth
        BY <2>0, <3>1 DEF WriteRec
      <3>3. w'[t].marked = (map[w[t].j].buffer = "ok") BY <3>2 DEF b
      <3> QED BY <2>0, <3>1, <3>2, <3>3, <1>k DEF Moved, Marking
    <2> QED BY <1>12, <2>1, <2>2 DEF Set
  <1>13. CASE Return(t)
    <2>1. CASE Step(t, Quiet) BY <1>0, <1>13, <2>1 DEF Return, Step, health, Returned
    <2>2. CASE w[t].depth > 0 /\ ld.at = "idle" /\ Die(t, "unmapped") /\ early' = early
      BY <1>13, <2>2 DEF Return, Die, Died
    <2> QED BY <1>13, <2>1, <2>2 DEF Return
  <1> QED BY <1>1, <1>3, <1>4, <1>5, <1>6, <1>7, <1>8, <1>9, <1>10, <1>11, <1>12, <1>13 DEF Write

-----------------------------------------------------------------------------
(* Types. *)

(* The device in hand and its driver, while the tables are built. *)
LEMMA InHand ==
    ASSUME Kinds, LoadInv, ld.i \in 1 .. Len(Scan)
    PROVE  Scan[ld.i] \in Devices /\ Driver \in Drivers
  BY DEF Driver

(* A step of a write keeps its fields what they are. *)
LEMMA WriteKinds ==
    ASSUME Kinds, EntryInv, NEW t \in Writers, Write(t)
    PROVE  /\ w'[t] \in WriteRec \cup {Quiet}
           /\ fault' \in {"none", "overflow", "unmapped", "zeroed", "freed"}
           /\ culprit' \in Writers \cup {"none"}
  <1>0. /\ w \in [Writers -> WriteRec \cup {Quiet}] /\ fault = "none" /\ t \in Writers
        /\ mapCount \in 0 .. MaxMap /\ MaxMap \in Nat /\ StackMax \in Nat
        /\ hookCount \in 0 .. MaxHooked /\ MaxHooked \in Nat /\ Entered(t)
        /\ hooks \in [1 .. MaxHooked -> HookRec] /\ map \in [1 .. MaxMap -> MapRec]
        /\ major \in [Drivers -> Routines] /\ saved \in [Drivers -> Routines]
        /\ culprit \in Writers \cup {"none"}
    BY HookAssumption DEF Kinds, Write, EntryInv
  <1>f. fault' \in {"none", "overflow", "unmapped", "zeroed", "freed"}
    BY WriteCases DEF Issued, Moved, Returned, Died
  <1>c. culprit' \in Writers \cup {"none"}
    <2>1. culprit' = culprit \/ culprit' = t
      BY DEF Write, Issue, Call, Lookup, SearchHooks, Installed, PassThrough, Emergency,
             Entry, Original, Check, Set, Return, Step, Die, health
    <2> QED BY <1>0, <2>1
  <1>1. CASE Issue(t)
    <2>1. PICK dev \in Devices :
             Step(t, [at |-> "call", dev |-> dev, routine |-> major[DriverOf[dev]],
                      j |-> 0, k |-> 0, depth |-> 0, marked |-> FALSE,
                      due |-> ld.at = "loaded" /\ Tracked(dev) /\ Hooked(DriverOf[dev])])
      BY <1>1 DEF Issue
    <2> DEFINE b == ld.at = "loaded" /\ Tracked(dev) /\ Hooked(DriverOf[dev])
    <2>2. b \in BOOLEAN OBVIOUS
    <2>3. w'[t] = [at |-> "call", dev |-> dev, routine |-> major[DriverOf[dev]],
                   j |-> 0, k |-> 0, depth |-> 0, marked |-> FALSE, due |-> b]
      BY <2>1, <1>0 DEF Step
    <2>4. major[DriverOf[dev]] \in Routines BY <1>0
    <2> HIDE DEF b
    <2>5. w'[t] \in WriteRec BY <2>2, <2>3, <2>4, <1>0 DEF WriteRec
    <2> QED BY <2>5, <1>f, <1>c
  <1>2. ASSUME w[t].at # "out" PROVE w[t] \in WriteRec /\ drvOf(t) \in Drivers
    BY <1>2, Busy
  <1>3. CASE Call(t)
    <2>1. w[t] \in WriteRec /\ drvOf(t) \in Drivers BY <1>2, <1>3 DEF Call
    <2>2. saved[drvOf(t)] \in Routines BY <2>1, <1>0
    <2>3. \/ w'[t] = [w[t] EXCEPT !.at = "done"]
          \/ w'[t] = [w[t] EXCEPT !.routine = saved[drvOf(t)]]
          \/ w'[t] = w[t]
          \/ w[t].depth < StackMax /\ w'[t] = [w[t] EXCEPT !.at = "lookup", !.depth = @ + 1]
      BY <1>3, <1>0 DEF Call, Step, Die
    <2>5. w[t].depth < StackMax => w[t].depth + 1 \in 0 .. StackMax BY <2>1, <1>0 DEF WriteRec
    <2>6. w'[t] \in WriteRec BY <2>1, <2>2, <2>3, <2>5 DEF WriteRec
    <2> QED BY <2>6, <1>f, <1>c
  <1>4. CASE Lookup(t)
    <2>1. w[t] \in WriteRec BY <1>2, <1>4 DEF Lookup
    <2>2. \/ w'[t] = [w[t] EXCEPT !.at = "hook"]
          \/ \E j \in 1 .. mapCount : w'[t] = [w[t] EXCEPT !.at = "entry", !.j = j]
      BY <1>4, <1>0 DEF Lookup, Step
    <2>3. \A j \in 1 .. mapCount : j \in 0 .. MaxMap BY <1>0
    <2>4. w'[t] \in WriteRec BY <2>1, <2>2, <2>3 DEF WriteRec
    <2> QED BY <2>4, <1>f, <1>c
  <1>5. CASE SearchHooks(t)
    <2>1. w[t] \in WriteRec BY <1>2, <1>5 DEF SearchHooks
    <2>2. \/ w'[t] = [w[t] EXCEPT !.at = "emergency"]
          \/ \E k \in 1 .. hookCount : w'[t] = [w[t] EXCEPT !.at = "found", !.k = k]
      BY <1>5, <1>0 DEF SearchHooks, Step, Known
    <2>3. \A k \in 1 .. hookCount : k \in 0 .. MaxHooked BY <1>0
    <2>4. w'[t] \in WriteRec BY <2>1, <2>2, <2>3 DEF WriteRec
    <2> QED BY <2>4, <1>f, <1>c
  <1>6. CASE PassThrough(t) \/ Original(t) \/ Emergency(t)
    <2>0. w[t].at \in {"through", "original", "emergency"}
      BY <1>6 DEF PassThrough, Original, Emergency
    <2>1. w[t] \in WriteRec /\ drvOf(t) \in Drivers BY <1>2, <2>0
    <2>2. w[t].at # "emergency" => hooks[w[t].k].original \in Routines
      BY <2>0, <1>0 DEF Entered, HookRec
    <2>3. major[drvOf(t)] \in Routines BY <2>1, <1>0
    <2>4. \E r \in Routines : \E a \in {"call", "check"} :
             w'[t] = [w[t] EXCEPT !.at = a, !.routine = r]
      BY <1>6, <2>2, <2>3, <1>0 DEF PassThrough, Original, Emergency, Step
    <2>5. w'[t] \in WriteRec BY <2>1, <2>4 DEF WriteRec
    <2> QED BY <2>5, <1>f, <1>c
  <1>7. CASE Entry(t)
    <2>1. w[t] \in WriteRec /\ w[t].at = "entry" BY <1>2, <1>7 DEF Entry
    <2>2. map[w[t].j].hook \in 0 .. MaxHooked BY <2>1, <1>0 DEF Entered, MapRec
    <2>3. w'[t] = w[t] \/ w'[t] = [w[t] EXCEPT !.at = "original", !.k = map[w[t].j].hook]
      BY <1>7, <1>0 DEF Entry, Step, Die
    <2>4. w'[t] \in WriteRec BY <2>1, <2>2, <2>3 DEF WriteRec
    <2> QED BY <2>4, <1>f, <1>c
  <1>8. CASE Check(t) \/ Installed(t)
    <2>1. w[t] \in WriteRec BY <1>2, <1>8 DEF Check, Installed
    <2>2. \E a \in {"set", "call", "through", "emergency"} : w'[t] = [w[t] EXCEPT !.at = a]
      BY <1>8, <1>0 DEF Check, Installed, Step
    <2>3. w'[t] \in WriteRec BY <2>1, <2>2 DEF WriteRec
    <2> QED BY <2>3, <1>f, <1>c
  <1>9. CASE Set(t)
    <2>1. w[t] \in WriteRec BY <1>2, <1>9 DEF Set
    <2>2. w'[t] = w[t] \/ \E b \in BOOLEAN : w'[t] = [w[t] EXCEPT !.at = "call", !.marked = b]
      BY <1>9, <1>0 DEF Set, Step, Die
    <2>3. w'[t] \in WriteRec BY <2>1, <2>2 DEF WriteRec
    <2> QED BY <2>3, <1>f, <1>c
  <1>10. CASE Return(t)
    BY <1>10, <1>0, <1>f, <1>c DEF Return, Step, Die
  <1> QED BY <1>1, <1>3, <1>4, <1>5, <1>6, <1>7, <1>8, <1>9, <1>10 DEF Write

(* The hook entry found or created for the device in hand is its driver's. *)
LEMMA HookOfFacts ==
    ASSUME Kinds, LoadInv, TableInv, ld.at = "map"
    PROVE  HookOf \in 1 .. hookCount /\ hooks[HookOf].drv = Driver
  <1>1. hookCount \in 0 .. MaxHooked /\ MaxHooked \in Nat BY HookAssumption DEF Kinds
  <1>2. PICK k \in 1 .. hookCount : hooks[k].drv = Driver BY DEF LoadInv, Known
  <1>3. \A l \in Known(Driver) : l = k BY <1>2 DEF Known, TableInv, HooksUp
  <1>4. k \in Known(Driver) /\ \A l \in Known(Driver) : k <= l BY <1>1, <1>2, <1>3 DEF Known
  <1>5. HookOf \in Known(Driver) BY <1>4 DEF HookOf
  <1> QED BY <1>5 DEF Known

(* What the loading thread leaves alone. *)
LEMMA LoaderFrame ==
    ASSUME Loader
    PROVE  /\ fault = "none" /\ saved' = saved
           /\ ~Unload => w' = w
           /\ ~Unmap => fault' = fault /\ culprit' = culprit
           /\ ~Restore => early' = early
  BY DEF Loader, DriverEntry, FindOrCreateHookEntry, Exchange, Publish, FillMap, CountMap,
         Unload, Restore, Put, DeleteDevice, CleanupCbtState, ZeroTables, Unmap, health

(* Unloading only forgets which writes are owed a mark. *)
LEMMA UnloadWrites ==
    ASSUME Kinds, Unload
    PROVE  /\ w' \in [Writers -> WriteRec \cup {Quiet}]
           /\ \A t \in Writers :
                 /\ w[t].at = "out" => w'[t] = w[t]
                 /\ w[t].at # "out" =>
                       /\ w'[t].at = w[t].at /\ w'[t].dev = w[t].dev
                       /\ w'[t].routine = w[t].routine /\ w'[t].j = w[t].j /\ w'[t].k = w[t].k
                       /\ w'[t].depth = w[t].depth /\ w'[t].marked = w[t].marked
                       /\ w'[t].due = FALSE
  <1>1. /\ w \in [Writers -> WriteRec \cup {Quiet}]
        /\ w' = [t \in Writers |-> IF w[t].at = "out" THEN w[t] ELSE [w[t] EXCEPT !.due = FALSE]]
    BY DEF Kinds, Unload
  <1>2. ASSUME NEW t \in Writers, w[t].at # "out"
        PROVE  w[t] \in WriteRec /\ w'[t] = [w[t] EXCEPT !.due = FALSE]
    BY <1>1, <1>2, Busy
  <1>3. ASSUME NEW t \in Writers, w[t].at # "out"
        PROVE  /\ w'[t] \in WriteRec
               /\ w'[t].at = w[t].at /\ w'[t].dev = w[t].dev
               /\ w'[t].routine = w[t].routine /\ w'[t].j = w[t].j /\ w'[t].k = w[t].k
               /\ w'[t].depth = w[t].depth /\ w'[t].marked = w[t].marked
               /\ w'[t].due = FALSE
    BY <1>2, <1>3 DEF WriteRec
  <1>4. ASSUME NEW t \in Writers, w[t].at = "out"
        PROVE  w'[t] = w[t] /\ w'[t] \in WriteRec \cup {Quiet}
    BY <1>1, <1>4
  <1> QED BY <1>1, <1>3, <1>4

(* The loading thread leaves every write in its place. *)
LEMMA LoaderWrites ==
    ASSUME Kinds, Loader, NEW t \in Writers
    PROVE  /\ w'[t].at = w[t].at
           /\ w[t].at # "out" =>
                 /\ w'[t].dev = w[t].dev /\ w'[t].routine = w[t].routine
                 /\ w'[t].j = w[t].j /\ w'[t].k = w[t].k /\ w'[t].depth = w[t].depth
                 /\ w'[t].marked = w[t].marked /\ drvOf(t)' = drvOf(t)
  <1>1. /\ w'[t].at = w[t].at
        /\ w[t].at # "out" =>
              /\ w'[t].dev = w[t].dev /\ w'[t].routine = w[t].routine
              /\ w'[t].j = w[t].j /\ w'[t].k = w[t].k /\ w'[t].depth = w[t].depth
              /\ w'[t].marked = w[t].marked
    BY LoaderFrame, UnloadWrites
  <1> QED BY <1>1 DEF drvOf

(* The kinds of values are kept by the loading thread. *)
LEMMA LoaderKinds ==
    ASSUME Kinds, LoadInv, TableInv, MajorInv, Loader
    PROVE  Kinds'
  <1>0. /\ MaxHooked \in Nat /\ MaxMap \in Nat /\ Len(Scan) \in Nat
        /\ hookCount \in 0 .. MaxHooked /\ mapCount \in 0 .. MaxMap /\ ld.i \in Nat
        /\ hooks \in [1 .. MaxHooked -> HookRec] /\ map \in [1 .. MaxMap -> MapRec]
        /\ major \in [Drivers -> Routines] /\ saved \in [Drivers -> Routines]
        /\ w \in [Writers -> WriteRec \cup {Quiet}]
        /\ culprit \in Writers \cup {"none"} /\ early \subseteq Writers
    BY HookAssumption DEF Kinds
  <1>1. saved' \in [Drivers -> Routines] BY LoaderFrame, <1>0
  <1>2. w' \in [Writers -> WriteRec \cup {Quiet}] BY LoaderFrame, UnloadWrites, <1>0
  <1>3. fault' \in {"none", "overflow", "unmapped", "zeroed", "freed"}
    BY LoaderFrame DEF Kinds, Loader, Unmap, health
  <1>4. culprit' \in Writers \cup {"none"} /\ early' \subseteq Writers
    <2>1. Inside \subseteq Writers /\ Engaged \subseteq Writers BY DEF Inside, Engaged
    <2>2. culprit' \in Writers \cup {"none"}
      <3>1. CASE Unmap
        <4>1. culprit' = culprit \/ culprit' \in Inside BY <3>1 DEF Unmap, health
        <4> QED BY <4>1, <2>1, <1>0
      <3> QED BY <3>1, <1>0, LoaderFrame
    <2>3. early' = early \/ early' = Engaged BY LoaderFrame DEF Restore
    <2> QED BY <1>0, <2>1, <2>2, <2>3
  <1>5. ld' \in [at : Building \cup Gone \cup {"loaded", "restore", "put"}, i : Nat]
    BY <1>0 DEF Loader, DriverEntry, FindOrCreateHookEntry, Exchange, Publish, FillMap, CountMap,
         Unload, Restore, Put, DeleteDevice, CleanupCbtState, ZeroTables, Unmap, Goto, Building, Gone
  <1>6. ld.at \in {"exchange", "publish", "map", "count"} => Driver \in Drivers /\ Scan[ld.i] \in Devices
    BY InHand DEF LoadInv, Building
  <1>7. ld.at = "scan" /\ ld.i <= Len(Scan) => Driver \in Drivers
    BY InHand DEF LoadInv
  <1>8. major' \in [Drivers -> Routines]
    <2>1. CASE Exchange BY <2>1, <1>0, <1>6, RoutineFacts DEF Exchange
    <2>2. CASE Put
      <3>1. ld.i \in 1 .. hookCount BY <2>2 DEF Put, LoadInv
      <3>2. hooks[ld.i].original \in Routines BY <3>1, <1>0 DEF HookRec
      <3> QED BY <2>2, <3>2, <1>0 DEF Put
    <2> QED BY <2>1, <2>2, <1>0 DEF Loader, DriverEntry, FindOrCreateHookEntry, Publish, FillMap,
              CountMap, Unload, Restore, DeleteDevice, CleanupCbtState, ZeroTables, Unmap
  <1>9. hooks' \in [1 .. MaxHooked -> HookRec] /\ hookCount' \in 0 .. MaxHooked
    <2>1. CASE FindOrCreateHookEntry
      <3>1. CASE hooks' = hooks BY <3>1, <2>1, <1>0 DEF FindOrCreateHookEntry
      <3>2. CASE /\ ld.i <= Len(Scan) /\ hookCount < MaxHooked
                 /\ hooks' = [hooks EXCEPT ![hookCount + 1] =
                         [drv |-> Driver, original |-> major[Driver], installed |-> FALSE]]
        <4>1. Driver \in Drivers /\ major[Driver] \in Routines
          BY <3>2, <2>1, <1>7, <1>0 DEF FindOrCreateHookEntry
        <4>2. [drv |-> Driver, original |-> major[Driver], installed |-> FALSE] \in HookRec
          BY <4>1 DEF HookRec
        <4> QED BY <4>2, <3>2, <2>1, <1>0 DEF FindOrCreateHookEntry
      <3> QED BY <3>1, <3>2, <2>1 DEF FindOrCreateHookEntry
    <2>2. CASE Publish
      <3>1. hookCount < MaxHooked BY <2>2 DEF Publish, LoadInv
      <3>2. hooks[hookCount + 1] \in HookRec BY <3>1, <1>0
      <3>3. \A b \in BOOLEAN : [hooks[hookCount + 1] EXCEPT !.installed = b] \in HookRec
        BY <3>2 DEF HookRec
      <3>4. \E b \in BOOLEAN : hooks' = [hooks EXCEPT ![hookCount + 1] =
                                      [hooks[hookCount + 1] EXCEPT !.installed = b]]
        <4> DEFINE b == major[Driver] = Ours
        <4>1. b \in BOOLEAN OBVIOUS
        <4>2. hooks' = [hooks EXCEPT ![hookCount + 1].installed = b] BY <2>2 DEF Publish
        <4> HIDE DEF b
        <4> QED BY <4>1, <4>2
      <3> QED BY <3>1, <3>3, <3>4, <2>2, <1>0 DEF Publish
    <2>3. CASE ZeroTables
      <3>1. NoHook \in HookRec BY RoutineFacts DEF NoHook, HookRec
      <3>2. hooks' = hooks \/ hooks' = ZeroHooks BY <2>3 DEF ZeroTables
      <3>3. hookCount' = hookCount \/ hookCount' = 0 BY <2>3 DEF ZeroTables
      <3> QED BY <3>1, <3>2, <3>3, <1>0 DEF ZeroHooks
    <2> QED BY <2>1, <2>2, <2>3, <1>0 DEF Loader, DriverEntry, Exchange, FillMap, tables,
              CountMap, Unload, Restore, Put, DeleteDevice, CleanupCbtState, Unmap
  <1>10. map' \in [1 .. MaxMap -> MapRec] /\ mapCount' \in 0 .. MaxMap
    <2>1. CASE FillMap
      <3>1. CASE map' = map BY <3>1, <2>1, <1>0 DEF FillMap
      <3>2. CASE mapCount < MaxMap /\ map' # map
        <4>1. PICK b \in {"ok", "null"} : map' = [map EXCEPT ![mapCount + 1] =
                          [dev |-> Scan[ld.i], hook |-> HookOf, buffer |-> b]]
          BY <3>2, <2>1 DEF FillMap
        <4>2. HookOf \in 1 .. hookCount BY <2>1, HookOfFacts DEF FillMap
        <4>3. Scan[ld.i] \in Devices BY <2>1, <1>6 DEF FillMap
        <4>4. [dev |-> Scan[ld.i], hook |-> HookOf, buffer |-> b] \in MapRec
          BY <4>2, <4>3, <1>0 DEF MapRec
        <4> QED BY <4>1, <4>4, <3>2, <2>1, <1>0 DEF FillMap
      <3> QED BY <3>1, <3>2, <2>1 DEF FillMap
    <2>2. CASE CountMap
      <3>1. mapCount < MaxMap BY <2>2 DEF CountMap, LoadInv
      <3> QED BY <3>1, <2>2, <1>0 DEF CountMap
    <2>3. CASE CleanupCbtState
      <3>1. CASE map' = map BY <3>1, <2>3, <1>0 DEF CleanupCbtState
      <3>2. CASE map' # map
        <4>1. ld.i <= mapCount /\ map' = [map EXCEPT ![ld.i].buffer = "null"]
          BY <2>3, <3>2, <1>0 DEF CleanupCbtState
        <4>2. ld.i \in 1 .. MaxMap BY <4>1, <2>3, <1>0 DEF CleanupCbtState, LoadInv
        <4>3. [map[ld.i] EXCEPT !.buffer = "null"] \in MapRec BY <4>2, <1>0 DEF MapRec
        <4> QED BY <4>1, <4>2, <4>3, <2>3, <1>0 DEF CleanupCbtState
      <3> QED BY <3>1, <3>2
    <2>4. CASE ZeroTables
      <3>1. NoMap \in MapRec BY <1>0 DEF NoMap, MapRec
      <3>2. map' = map \/ map' = ZeroMap BY <2>4 DEF ZeroTables
      <3>3. mapCount' = mapCount \/ mapCount' = 0 BY <2>4 DEF ZeroTables
      <3> QED BY <3>1, <3>2, <3>3, <1>0 DEF ZeroMap
    <2> QED BY <2>1, <2>2, <2>3, <2>4, <1>0 DEF Loader, DriverEntry, FindOrCreateHookEntry,
              Exchange, Publish, Unload, Restore, Put, DeleteDevice, Unmap, tables
  <1> QED BY <1>1, <1>2, <1>3, <1>4, <1>5, <1>8, <1>9, <1>10 DEF Kinds

(* The kinds of values are kept by every step. *)
LEMMA KindsNext ==
    ASSUME IInv, Next
    PROVE  Kinds'
  <1>0. Kinds /\ LoadInv /\ TableInv /\ MajorInv /\ RoutineInv /\ EntryInv BY DEF IInv
  <1>1. CASE Loader BY <1>0, <1>1, LoaderKinds
  <1>2. ASSUME NEW d \in Rivaled, ForeignHook(d) \/ ForeignUnhook(d) PROVE Kinds'
    <2>1. d \in Drivers BY HookAssumption
    <2>2. major[d] \in Routines /\ saved[d] \in Routines BY <1>0, <2>1 DEF Kinds
    <2>3. major' \in [Drivers -> Routines] /\ saved' \in [Drivers -> Routines]
      <3>1. CASE ForeignHook(d) BY <1>0, <3>1, <2>1, <2>2, RoutineFacts DEF Kinds, ForeignHook
      <3>2. CASE ForeignUnhook(d) BY <1>0, <3>2, <2>1, <2>2 DEF Kinds, ForeignUnhook
      <3> QED BY <1>2, <3>1, <3>2
    <2> QED BY <1>0, <1>2, <2>3 DEF Kinds, ForeignHook, ForeignUnhook, tables, health
  <1>3. ASSUME NEW t \in Writers, Write(t) PROVE Kinds'
    <2>1. w' \in [Writers -> WriteRec \cup {Quiet}]
      BY <1>0, <1>3, WriteFrame, WriteKinds DEF Kinds
    <2>2. early' \subseteq Writers BY <1>0, <1>3, WriteFrame DEF Kinds
    <2> QED BY <1>0, <1>3, <2>1, <2>2, WriteFrame, WriteKinds DEF Kinds
  <1> QED BY <1>1, <1>2, <1>3 DEF Next

-----------------------------------------------------------------------------
(* The tables. *)

(* Where the loading thread and its tables are, after each of its steps. *)
LEMMA LoadNext ==
    ASSUME Kinds, LoadInv, TableInv, MajorInv, Loader
    PROVE  LoadInv'
  <1>0. /\ MaxHooked \in Nat /\ MaxMap \in Nat /\ Len(Scan) \in Nat
        /\ hookCount \in 0 .. MaxHooked /\ mapCount \in 0 .. MaxMap /\ ld.i \in Nat
        /\ hooks \in [1 .. MaxHooked -> HookRec] /\ map \in [1 .. MaxMap -> MapRec]
    BY HookAssumption DEF Kinds
  <1>s. saved' = saved BY LoaderFrame
  <1> USE DEF Building, HooksUp, MapUp
  <1>1. CASE DriverEntry BY <1>0, <1>1 DEF DriverEntry, LoadInv, Goto
  <1>2. CASE FindOrCreateHookEntry
    <2>0. ld.at = "scan" /\ ld.i \in 1 .. Len(Scan) + 1 /\ hookCount' = hookCount
      BY <1>2 DEF FindOrCreateHookEntry, LoadInv
    <2>1. CASE ld'.at = "exchange"
      <3>1. /\ ld.i <= Len(Scan) /\ Known(Driver) = {} /\ hookCount < MaxHooked
            /\ hooks' = [hooks EXCEPT ![hookCount + 1] =
                         [drv |-> Driver, original |-> major[Driver], installed |-> FALSE]]
            /\ ld' = [at |-> "exchange", i |-> ld.i]
        BY <1>2, <2>1 DEF FindOrCreateHookEntry, Goto
      <3>2. Driver \in Drivers /\ Driver' = Driver BY <2>0, <3>1, InHand, <1>0 DEF Driver
      <3>3. hooks'[hookCount + 1] = [drv |-> Driver, original |-> major[Driver], installed |-> FALSE]
        BY <3>1, <1>0
      <3>4. ~Published(Driver, 1) BY <3>1, <1>0 DEF Known, Published
      <3>5. /\ major[Driver] \in {Own(Driver), Ours, Foreign}
            /\ major[Driver] = Ours => saved[Driver] = Ours
            /\ major[Driver] = Foreign => saved[Driver] # Null
        BY <2>0, <3>2, <3>4 DEF MajorInv
      <3>6. GoodHook(hookCount + 1)' BY <3>2, <3>3, <3>5, <2>0, <1>s DEF GoodHook
      <3> QED BY <3>1, <3>2, <3>3, <3>6, <2>0, <1>0 DEF LoadInv
    <2>2. CASE ld'.at = "map"
      <3>1. ld.i <= Len(Scan) /\ Known(Driver) # {} /\ hooks' = hooks /\ ld' = [at |-> "map", i |-> ld.i]
        BY <1>2, <2>2 DEF FindOrCreateHookEntry, Goto
      <3>2. Known(Driver)' # {} BY <3>1, <2>0 DEF Known, Driver
      <3> QED BY <3>1, <3>2, <2>0, <1>0 DEF LoadInv
    <2>3. CASE ld'.at = "scan"
      <3>1. ld' = [at |-> "scan", i |-> ld.i + 1] /\ ld.i <= Len(Scan)
        BY <1>2, <2>3 DEF FindOrCreateHookEntry, Goto
      <3> QED BY <3>1, <2>0, <1>0 DEF LoadInv
    <2>4. CASE ld'.at = "loaded" BY <2>4 DEF LoadInv
    <2> QED BY <2>1, <2>2, <2>3, <2>4, <1>2 DEF FindOrCreateHookEntry, Goto
  <1>3. CASE Exchange
    <2>1. /\ ld' = [at |-> "publish", i |-> ld.i] /\ ld.at = "exchange"
          /\ hookCount' = hookCount /\ hooks' = hooks
      BY <1>3 DEF Exchange, Goto, tables
    <2>2. GoodHook(hookCount + 1)' BY <2>1, <1>s DEF GoodHook, LoadInv
    <2> QED BY <2>1, <2>2, <1>0 DEF LoadInv, Driver
  <1>4. CASE Publish
    <2>1. /\ ld' = [at |-> "map", i |-> ld.i] /\ ld.at = "publish" /\ hookCount < MaxHooked
          /\ hookCount' = hookCount + 1 /\ hooks[hookCount + 1].drv = Driver
          /\ hooks' = [hooks EXCEPT ![hookCount + 1].installed = (major[Driver] = Ours)]
      BY <1>4 DEF Publish, Goto, LoadInv
    <2>2. hooks'[hookCount + 1].drv = Driver BY <2>1, <1>0 DEF HookRec
    <2>3. hookCount + 1 \in Known(Driver)' BY <2>1, <2>2, <1>0 DEF Known, Driver
    <2> QED BY <2>1, <2>3, <1>0 DEF LoadInv
  <1>5. CASE FillMap
    <2>0. ld.at = "map" /\ ld.i \in 1 .. Len(Scan) /\ hooks' = hooks /\ hookCount' = hookCount
          /\ mapCount' = mapCount
      BY <1>5 DEF FillMap, LoadInv
    <2>1. CASE ld'.at = "count"
      <3>1. /\ mapCount < MaxMap /\ ld' = [at |-> "count", i |-> ld.i]
            /\ \E b \in {"ok", "null"} : map' = [map EXCEPT ![mapCount + 1] =
                          [dev |-> Scan[ld.i], hook |-> HookOf, buffer |-> b]]
        BY <1>5, <2>1 DEF FillMap, Goto
      <3>2. HookOf \in 1 .. hookCount /\ hooks[HookOf].drv = Driver BY <2>0, HookOfFacts
      <3>3. Scan[ld.i] \in Devices BY <2>0, InHand
      <3>4. map'[mapCount + 1].dev = Scan[ld.i] /\ map'[mapCount + 1].hook = HookOf
        BY <3>1, <1>0
      <3>5. GoodMap(mapCount + 1)'
        <4>1. HookOf \in 1 .. MaxHooked BY <3>2, <1>0
        <4> QED BY <4>1, <3>2, <3>3, <3>4, <2>0 DEF GoodMap, Driver
      <3> QED BY <3>1, <3>4, <3>5, <2>0, <1>0 DEF LoadInv
    <2>2. CASE ld'.at = "scan"
      <3>1. ld' = [at |-> "scan", i |-> ld.i + 1] BY <1>5, <2>2 DEF FillMap, Goto
      <3> QED BY <3>1, <2>0, <1>0 DEF LoadInv
    <2> QED BY <2>1, <2>2, <1>5 DEF FillMap, Goto
  <1>6. CASE CountMap
    <2>1. ld' = [at |-> "scan", i |-> ld.i + 1] /\ ld.i \in 1 .. Len(Scan)
      BY <1>6 DEF CountMap, Goto, LoadInv
    <2> QED BY <2>1, <1>0 DEF LoadInv
  <1>7. CASE Unload
    <2>1. ld' = [at |-> "restore", i |-> 1] /\ hookCount' = hookCount
      BY <1>7 DEF Unload, Goto, tables
    <2> QED BY <2>1, <1>0 DEF LoadInv
  <1>8. CASE Restore
    <2>1. ld.i \in 1 .. hookCount + 1 /\ hookCount' = hookCount
      BY <1>8 DEF Restore, tables, LoadInv
    <2>2. \/ ld' = [at |-> "delete", i |-> 0]
          \/ ld.i <= hookCount /\ ld' = [at |-> "put", i |-> ld.i]
          \/ ld.i <= hookCount /\ ld' = [at |-> "restore", i |-> ld.i + 1]
      BY <1>8 DEF Restore, Goto
    <2> QED BY <2>1, <2>2, <1>0 DEF LoadInv
  <1>9. CASE Put
    <2>1. /\ ld.i \in 1 .. hookCount /\ hookCount' = hookCount
          /\ ld' = [at |-> "restore", i |-> ld.i + 1]
      BY <1>9 DEF Put, tables, LoadInv, Goto
    <2> QED BY <2>1, <1>0 DEF LoadInv
  <1>10. CASE DeleteDevice
    <2>1. ld' = [at |-> "free", i |-> 1] /\ mapCount' = mapCount
      BY <1>10 DEF DeleteDevice, Goto, tables
    <2> QED BY <2>1, <1>0 DEF LoadInv
  <1>11. CASE CleanupCbtState
    <2>1. ld.i \in 1 .. mapCount + 1 /\ mapCount' = mapCount
      BY <1>11 DEF CleanupCbtState, LoadInv
    <2>2. \/ ld' = [at |-> "zero", i |-> 1]
          \/ ~(ld.i > mapCount) /\ ld' = [at |-> "free", i |-> ld.i + 1]
      BY <1>11 DEF CleanupCbtState, Goto
    <2> QED BY <2>1, <2>2, <1>0 DEF LoadInv
  <1>12. CASE ZeroTables
    <2>0. ld.at = "zero" /\ ld.i \in 1 .. 4 /\ (ld.i \in 3 .. 4 => hookCount = 0)
      BY <1>12 DEF ZeroTables, LoadInv
    <2>1. /\ ~HooksUp => hooks = ZeroHooks
          /\ ~MapUp => map = ZeroMap
      BY DEF LoadInv
    <2>2. CASE ld.i = 1
      <3>1. hooks' = ZeroHooks /\ ld' = [at |-> "zero", i |-> 2]
        BY <1>12, <2>2 DEF ZeroTables, Goto
      <3> QED BY <3>1 DEF LoadInv
    <2>3. CASE ld.i = 2
      <3>1. hooks' = hooks /\ hookCount' = 0 /\ ld' = [at |-> "zero", i |-> 3]
        BY <1>12, <2>3 DEF ZeroTables, Goto
      <3> QED BY <2>0, <2>1, <2>3, <3>1 DEF LoadInv
    <2>4. CASE ld.i = 3
      <3>1. hooks' = hooks /\ hookCount' = hookCount /\ map' = ZeroMap /\ ld' = [at |-> "zero", i |-> 4]
        BY <1>12, <2>4 DEF ZeroTables, Goto
      <3> QED BY <2>0, <2>1, <2>4, <3>1 DEF LoadInv
    <2>5. CASE ld.i = 4
      <3>1. /\ hooks' = hooks /\ hookCount' = hookCount /\ map' = map /\ mapCount' = 0
            /\ ld' = [at |-> "unmap", i |-> 0]
        BY <1>12, <2>5 DEF ZeroTables, Goto
      <3> QED BY <2>0, <2>1, <2>5, <3>1 DEF LoadInv
    <2> QED BY <2>0, <2>2, <2>3, <2>4, <2>5
  <1>13. CASE Unmap BY <1>13 DEF Unmap, Goto, LoadInv, tables
  <1> QED BY <1>1, <1>2, <1>3, <1>4, <1>5, <1>6, <1>7, <1>8, <1>9, <1>10, <1>11, <1>12, <1>13
          DEF Loader

(* The counted entries stay good while others are added, freed and zeroed. *)
LEMMA TableNext ==
    ASSUME Kinds, LoadInv, TableInv, MajorInv, Loader
    PROVE  TableInv'
  <1>0. /\ MaxHooked \in Nat /\ MaxMap \in Nat
        /\ hookCount \in 0 .. MaxHooked /\ mapCount \in 0 .. MaxMap /\ ld.i \in Nat
        /\ hooks \in [1 .. MaxHooked -> HookRec] /\ map \in [1 .. MaxMap -> MapRec]
    BY HookAssumption DEF Kinds
  <1>s. saved' = saved BY LoaderFrame
  <1>h. ASSUME hookCount' = hookCount, \A k \in 1 .. hookCount : hooks'[k] = hooks[k],
               HooksUp' => HooksUp
        PROVE  HooksUp' =>
                  /\ \A k \in 1 .. hookCount' : GoodHook(k)'
                  /\ \A k, l \in 1 .. hookCount' : hooks'[k].drv = hooks'[l].drv => k = l
    BY <1>h, <1>s DEF TableInv, GoodHook
  <1>m. ASSUME hookCount' = hookCount, \A k \in 1 .. hookCount : hooks'[k] = hooks[k],
               mapCount' = mapCount, HooksUp' => HooksUp, MapUp' => MapUp,
               \A j \in 1 .. mapCount : map'[j].dev = map[j].dev /\ map'[j].hook = map[j].hook
        PROVE  MapUp' => \A j \in 1 .. mapCount' : GoodMap(j)'
    BY <1>m DEF TableInv, GoodMap
  <1>u. /\ ld.at \notin {"zero", "unmap"} => HooksUp /\ MapUp
        /\ ld'.at \notin {"zero", "unmap"} => HooksUp' /\ MapUp'
    BY DEF HooksUp, MapUp
  <1>1. CASE FindOrCreateHookEntry
    <2>1. /\ hookCount' = hookCount /\ mapCount' = mapCount /\ map' = map
          /\ \A k \in 1 .. hookCount : hooks'[k] = hooks[k]
      <3>1. hooks' = hooks \/ \E e : hooks' = [hooks EXCEPT ![hookCount + 1] = e]
        BY <1>1 DEF FindOrCreateHookEntry
      <3> QED BY <3>1, <1>1, <1>0 DEF FindOrCreateHookEntry
    <2>2. ld'.at \in {"exchange", "publish"} => Known(Driver)' = {}
      <3>1. ld'.at \in {"exchange", "publish"} => Known(Driver) = {} /\ ld'.i = ld.i
        BY <1>1 DEF FindOrCreateHookEntry, Goto
      <3> QED BY <3>1, <2>1 DEF Known, Driver
    <2>3. HooksUp /\ MapUp BY <1>1, <1>u DEF FindOrCreateHookEntry
    <2> QED BY <2>1, <2>2, <2>3, <1>h, <1>m DEF TableInv
  <1>2. CASE Publish
    <2>1. /\ ld'.at = "map" /\ hookCount < MaxHooked /\ GoodHook(hookCount + 1)
          /\ hookCount' = hookCount + 1 /\ hooks[hookCount + 1].drv = Driver
          /\ hooks' = [hooks EXCEPT ![hookCount + 1].installed = (major[Driver] = Ours)]
          /\ Known(Driver) = {} /\ map' = map /\ mapCount' = mapCount
          /\ HooksUp /\ MapUp /\ HooksUp'
      BY <1>2, <1>u DEF Publish, Goto, LoadInv, TableInv
    <2>2. \A k \in 1 .. hookCount + 1 :
             hooks'[k].drv = hooks[k].drv /\ hooks'[k].original = hooks[k].original
      BY <2>1, <1>0 DEF HookRec
    <2>3. \A k \in 1 .. hookCount + 1 : GoodHook(k)
      BY <2>1, <1>0 DEF TableInv
    <2>4. \A k \in 1 .. hookCount' : GoodHook(k)'
      BY <2>1, <2>2, <2>3, <1>s DEF GoodHook
    <2>5. \A k, l \in 1 .. hookCount' : hooks'[k].drv = hooks'[l].drv => k = l
      BY <2>1, <2>2, <1>0 DEF TableInv, Known
    <2>6. \A j \in 1 .. mapCount' : GoodMap(j)'
      BY <2>1, <2>2, <1>0 DEF TableInv, GoodMap
    <2> QED BY <2>1, <2>4, <2>5, <2>6 DEF TableInv
  <1>3. CASE FillMap
    <2>1. /\ hookCount' = hookCount /\ mapCount' = mapCount /\ hooks' = hooks
          /\ \A j \in 1 .. mapCount : map'[j] = map[j]
      <3>1. map' = map \/ \E e : map' = [map EXCEPT ![mapCount + 1] = e]
        BY <1>3 DEF FillMap
      <3> QED BY <3>1, <1>3, <1>0 DEF FillMap
    <2>2. ld'.at \in {"scan", "count"} /\ HooksUp /\ MapUp BY <1>3, <1>u DEF FillMap, Goto
    <2> QED BY <2>1, <2>2, <1>h, <1>m DEF TableInv
  <1>4. CASE CountMap
    <2>1. /\ ld'.at = "scan" /\ GoodMap(mapCount + 1) /\ mapCount' = mapCount + 1 /\ map' = map
          /\ hooks' = hooks /\ hookCount' = hookCount /\ HooksUp /\ MapUp /\ HooksUp'
      BY <1>4, <1>u DEF CountMap, Goto, LoadInv
    <2>2. \A j \in 1 .. mapCount + 1 : GoodMap(j) BY <2>1, <1>0 DEF TableInv
    <2>3. \A j \in 1 .. mapCount' : GoodMap(j)' BY <2>1, <2>2 DEF GoodMap
    <2> QED BY <2>1, <2>3, <1>h DEF TableInv
  <1>5. CASE CleanupCbtState
    <2>1. /\ hookCount' = hookCount /\ mapCount' = mapCount /\ hooks' = hooks
          /\ ld'.at \in {"zero", "free"} /\ HooksUp /\ MapUp
          /\ map' = map \/ map' = [map EXCEPT ![ld.i].buffer = "null"]
      BY <1>5, <1>u DEF CleanupCbtState, Goto
    <2>2. \A j \in 1 .. mapCount : map'[j].dev = map[j].dev /\ map'[j].hook = map[j].hook
      <3>1. ASSUME NEW j \in 1 .. mapCount PROVE j \in 1 .. MaxMap /\ map[j] \in MapRec
        BY <1>0
      <3>2. ASSUME NEW j \in 1 .. mapCount, map' = [map EXCEPT ![ld.i].buffer = "null"]
            PROVE  map'[j] = IF j = ld.i THEN [map[j] EXCEPT !.buffer = "null"] ELSE map[j]
        BY <3>1, <3>2, <1>0
      <3> QED BY <2>1, <3>1, <3>2 DEF MapRec
    <2> QED BY <2>1, <2>2, <1>h, <1>m DEF TableInv
  <1>6. CASE ZeroTables
    <2>1. ld.at = "zero" /\ ld.i \in 1 .. 4 BY <1>6 DEF ZeroTables, LoadInv
    <2>2. ~HooksUp' /\ ld'.at \notin {"exchange", "publish"}
      BY <1>6, <2>1 DEF ZeroTables, Goto, HooksUp
    <2>3. ASSUME MapUp' PROVE MapUp /\ map' = map /\ mapCount' = mapCount
      BY <1>6, <2>1, <2>3 DEF ZeroTables, Goto, MapUp
    <2>4. MapUp' => \A j \in 1 .. mapCount' : GoodMap(j)'
      BY <2>2, <2>3 DEF TableInv, GoodMap
    <2> QED BY <2>2, <2>4 DEF TableInv
  <1>7. CASE Exchange
    <2>1. /\ UNCHANGED <<hooks, hookCount, map, mapCount>> /\ ld.at = "exchange" /\ ld'.i = ld.i
          /\ HooksUp /\ MapUp
      BY <1>7, <1>u DEF Exchange, tables, Goto
    <2>2. Known(Driver)' = {} BY <2>1 DEF TableInv, Known, Driver
    <2> QED BY <2>1, <2>2, <1>h, <1>m DEF TableInv
  <1>8. CASE DriverEntry \/ Unload \/ Restore \/ Put \/ DeleteDevice
    <2>1. /\ UNCHANGED <<hooks, hookCount, map, mapCount>> /\ ld'.at \notin {"exchange", "publish"}
          /\ HooksUp /\ MapUp
      BY <1>8, <1>u DEF DriverEntry, Unload, Restore, Put, DeleteDevice, tables, Goto
    <2> QED BY <2>1, <1>h, <1>m DEF TableInv
  <1>9. CASE Unmap
    <2>1. hookCount' = 0 /\ mapCount' = 0 /\ ld'.at = "idle"
      BY <1>9 DEF Unmap, tables, Goto, LoadInv
    <2> QED BY <2>1 DEF TableInv
  <1> QED BY <1>1, <1>2, <1>3, <1>4, <1>5, <1>6, <1>7, <1>8, <1>9 DEF Loader

(* A driver that another driver has hooked once counts as such for good. *)
LEMMA ForeignSaved ==
    ASSUME Kinds, MajorInv, NEW d \in Rivaled, ForeignHook(d) \/ ForeignUnhook(d)
    PROVE  /\ d \in Drivers /\ fault = "none"
           /\ UNCHANGED <<hooks, hookCount, map, mapCount, ld, w, fault, culprit, early>>
           /\ \A e \in Drivers \ {d} : major'[e] = major[e] /\ saved'[e] = saved[e]
           /\ saved'[d] # Null /\ \A e \in Drivers : saved[e] # Null => saved'[e] = saved[e]
           /\ \A e \in Drivers : saved'[e] = Null => saved[e] = Null /\ major'[e] = major[e]
           /\ \A e \in Drivers : saved[e] = Ours => saved'[e] = Ours
           /\ \/ saved'[d] = major[d] /\ major'[d] = Foreign /\ major[d] # Foreign
              \/ saved'[d] = saved[d] /\ major'[d] = saved[d]
  <1>1. d \in Drivers BY HookAssumption
  <1>2. major[d] # Null /\ (major[d] = Foreign => saved[d] # Null)
    BY <1>1, RoutineFacts DEF MajorInv
  <1>3. /\ fault = "none"
        /\ UNCHANGED <<hooks, hookCount, map, mapCount, ld, w, fault, culprit, early>>
    BY DEF ForeignHook, ForeignUnhook, tables, health
  <1>4. CASE ForeignHook(d)
    <2>1. /\ saved[d] = Null /\ saved'[d] = major[d] /\ major'[d] = Foreign
          /\ \A e \in Drivers \ {d} : major'[e] = major[e] /\ saved'[e] = saved[e]
      BY <1>1, <1>4 DEF Kinds, ForeignHook
    <2>2. Ours # Null BY RoutineFacts
    <2> QED BY <1>1, <1>2, <1>3, <2>1, <2>2
  <1>5. CASE ForeignUnhook(d)
    <2>1. /\ major[d] = Foreign /\ saved'[d] = saved[d] /\ major'[d] = saved[d]
          /\ \A e \in Drivers \ {d} : major'[e] = major[e] /\ saved'[e] = saved[e]
      BY <1>1, <1>5 DEF Kinds, ForeignUnhook
    <2>2. Ours # Null BY RoutineFacts
    <2> QED BY <1>1, <1>2, <1>3, <2>1, <2>2
  <1> QED BY <1>4, <1>5

(* The other driver does not touch the tables. *)
LEMMA ForeignTables ==
    ASSUME Kinds, LoadInv, TableInv, MajorInv, NEW d \in Rivaled,
           ForeignHook(d) \/ ForeignUnhook(d)
    PROVE  LoadInv' /\ TableInv'
  <1>1. /\ UNCHANGED <<hooks, hookCount, map, mapCount, ld>>
        /\ \A e \in Drivers : saved'[e] = Null => saved[e] = Null
        /\ \A e \in Drivers : saved[e] = Ours => saved'[e] = Ours
        /\ (HooksUp' <=> HooksUp) /\ (MapUp' <=> MapUp)
    BY ForeignSaved DEF HooksUp, MapUp
  <1>2. \A k : GoodHook(k) => GoodHook(k)' BY <1>1 DEF GoodHook
  <1>3. \A j : GoodMap(j) => GoodMap(j)' BY <1>1 DEF GoodMap
  <1>4. LoadInv'
    BY <1>1, <1>2, <1>3 DEF LoadInv, Driver, Known
  <1>5. TableInv'
    BY <1>1, <1>2, <1>3 DEF TableInv, Driver, Known
  <1> QED BY <1>4, <1>5

(* Where the loading thread is, and the tables, after any step. *)
LEMMA TablesNext ==
    ASSUME IInv, Next
    PROVE  LoadInv' /\ TableInv'
  <1>0. Kinds /\ LoadInv /\ TableInv /\ MajorInv BY DEF IInv
  <1>1. CASE Loader BY <1>0, <1>1, LoadNext, TableNext
  <1>2. ASSUME NEW d \in Rivaled, ForeignHook(d) \/ ForeignUnhook(d) PROVE LoadInv' /\ TableInv'
    BY <1>0, <1>2, ForeignTables
  <1>3. ASSUME NEW t \in Writers, Write(t) PROVE LoadInv' /\ TableInv'
    <2>1. UNCHANGED <<saved, hooks, hookCount, map, mapCount, ld>> BY <1>0, <1>3, WriteFrame
    <2>2. (HooksUp' <=> HooksUp) /\ (MapUp' <=> MapUp) BY <2>1 DEF HooksUp, MapUp
    <2> QED BY <1>0, <2>1, <2>2 DEF LoadInv, TableInv, GoodHook, GoodMap, Known, Driver
  <1> QED BY <1>1, <1>2, <1>3 DEF Next

-----------------------------------------------------------------------------
(* Whose table holds HwReadWrite. *)

(* A hook of the table is still in it when no counted entry changes. *)
LEMMA PublishedKept ==
    ASSUME hookCount' = hookCount, \A k \in 1 .. hookCount : hooks'[k] = hooks[k],
           hookCount \in Nat, NEW n \in Nat \ {0}, NEW d
    PROVE  Published(d, n) => Published(d, n)'
  <1>1. n .. hookCount \subseteq 1 .. hookCount OBVIOUS
  <1> QED BY <1>1 DEF Published

(* The loading thread puts HwReadWrite only where its tables say so, and   *)
(* takes it out again from every driver where no other hook is over it.    *)
LEMMA LoaderMajor ==
    ASSUME Kinds, LoadInv, TableInv, MajorInv, Loader
    PROVE  MajorInv'
  <1>0. /\ MaxHooked \in Nat /\ hookCount \in 0 .. MaxHooked /\ ld.i \in Nat
        /\ hooks \in [1 .. MaxHooked -> HookRec] /\ major \in [Drivers -> Routines]
    BY HookAssumption DEF Kinds
  <1>s. saved' = saved BY LoaderFrame
  <1>k. ASSUME NEW d \in Drivers, major'[d] = major[d]
        PROVE  /\ major'[d] \in {Own(d), Ours, Foreign} /\ saved'[d] \in {Own(d), Ours, Null}
               /\ major'[d] = Foreign => saved'[d] # Null
               /\ saved'[d] # Ours /\ major'[d] = Ours =>
                     \/ ld.at = "publish" /\ Driver = d
                     \/ ld.at \in Building \cup {"loaded"} /\ Published(d, 1)
                     \/ ld.at \in {"restore", "put"} /\ Published(d, ld.i)
    BY <1>k, <1>s DEF MajorInv
  <1> USE DEF Building
  <1>1. CASE FindOrCreateHookEntry
    <2>1. /\ major' = major /\ hookCount' = hookCount /\ ld.at = "scan"
          /\ ld'.at \in {"scan", "map", "exchange", "loaded"}
          /\ hooks' = hooks \/ \E e : hooks' = [hooks EXCEPT ![hookCount + 1] = e]
      BY <1>1 DEF FindOrCreateHookEntry, Goto
    <2>2. \A k \in 1 .. hookCount : hooks'[k] = hooks[k] BY <2>1, <1>0
    <2>3. \A d : Published(d, 1) => Published(d, 1)' BY <2>1, <2>2, <1>0, PublishedKept
    <2> QED BY <2>1, <2>3, <1>k DEF MajorInv
  <1>2. CASE Exchange
    <2>1. /\ major' = [major EXCEPT ![Driver] = Ours] /\ ld.at = "exchange"
          /\ ld' = [at |-> "publish", i |-> ld.i] /\ hooks' = hooks /\ hookCount' = hookCount
      BY <1>2 DEF Exchange, Goto, tables
    <2>2. Driver' = Driver /\ Driver \in Drivers BY <2>1, InHand DEF Driver, LoadInv
    <2>3. \A d : Published(d, 1) => Published(d, 1)' BY <2>1, <1>0, PublishedKept
    <2>4. ASSUME NEW d \in Drivers, d # Driver PROVE major'[d] = major[d]
      BY <2>1, <2>4, <1>0
    <2>5. major'[Driver] = Ours BY <2>1, <2>2, <1>0
    <2>6. saved[Driver] \in {Own(Driver), Ours, Null} BY <2>2 DEF MajorInv
    <2> QED BY <2>1, <2>2, <2>3, <2>4, <2>5, <2>6, <1>k, <1>s, RoutineFacts DEF MajorInv
  <1>3. CASE Publish
    <2>1. /\ major' = major /\ ld'.at = "map" /\ hookCount < MaxHooked /\ ld.at = "publish"
          /\ hookCount' = hookCount + 1 /\ hooks[hookCount + 1].drv = Driver
          /\ hooks' = [hooks EXCEPT ![hookCount + 1].installed = (major[Driver] = Ours)]
      BY <1>3 DEF Publish, Goto, LoadInv
    <2>2. \A k \in 1 .. hookCount : hooks'[k] = hooks[k] BY <2>1, <1>0
    <2>3. /\ hooks'[hookCount + 1].drv = Driver
          /\ hooks'[hookCount + 1].installed = (major[Driver] = Ours)
      BY <2>1, <1>0 DEF HookRec
    <2>4. \A d : Published(d, 1) => Published(d, 1)' BY <2>1, <2>2, <1>0 DEF Published
    <2>5. major[Driver] = Ours => Published(Driver, 1)'
      <3>1. hookCount + 1 \in 1 .. hookCount' BY <2>1, <1>0
      <3>2. SUFFICES ASSUME major[Driver] = Ours
                     PROVE  \E k \in 1 .. hookCount' : hooks'[k].drv = Driver /\ hooks'[k].installed
        <4>1. Driver' = Driver BY <1>3 DEF Publish, Goto, Driver
        <4> QED BY <4>1 DEF Published
      <3> QED BY <3>1, <2>3, <3>2
    <2>6. ASSUME NEW d \in Drivers, saved'[d] # Ours, major'[d] = Ours PROVE Published(d, 1)'
      <3>1. CASE d # Driver BY <2>1, <2>4, <2>6, <3>1, <1>k
      <3>2. CASE d = Driver
        <4>1. Published(Driver, 1)' BY <2>1, <2>5, <2>6, <3>2
        <4>2. Driver' = Driver BY <1>3 DEF Publish, Goto, Driver
        <4> QED BY <4>1, <4>2, <3>2 DEF Published
      <3> QED BY <3>1, <3>2
    <2> QED BY <2>1, <2>6, <1>k DEF MajorInv
  <1>4. CASE FillMap \/ CountMap \/ DriverEntry
    <2>1. /\ major' = major /\ hooks' = hooks /\ hookCount' = hookCount
          /\ ld.at \in {"map", "count", "idle"} /\ ld'.at \in {"scan", "count"}
      BY <1>4 DEF FillMap, CountMap, DriverEntry, Goto, tables
    <2>3. \A d : Published(d, 1) => Published(d, 1)' BY <2>1, <1>0, PublishedKept
    <2> QED BY <2>1, <2>3, <1>k DEF MajorInv
  <1>5. CASE Unload
    <2>1. /\ major' = major /\ hooks' = hooks /\ hookCount' = hookCount
          /\ ld.at = "loaded" /\ ld' = [at |-> "restore", i |-> 1]
      BY <1>5 DEF Unload, Goto, tables
    <2>3. \A d : Published(d, 1) => Published(d, ld.i)' BY <2>1 DEF Published
    <2> QED BY <2>1, <2>3, <1>k DEF MajorInv
  <1>6. CASE Restore
    <2>1. /\ major' = major /\ hooks' = hooks /\ hookCount' = hookCount /\ ld.at = "restore"
          /\ ld.i \in 1 .. hookCount + 1
      BY <1>6 DEF Restore, tables, LoadInv
    <2>2. ASSUME NEW d \in Drivers, saved'[d] # Ours, major'[d] = Ours
          PROVE  ld'.at \in {"restore", "put"} /\ Published(d, ld.i)'
      <3>1. PICK k \in ld.i .. hookCount : hooks[k].drv = d /\ hooks[k].installed
        BY <2>1, <2>2, <1>k DEF Published
      <3>2. ~(ld.i > hookCount) BY <3>1, <1>0
      <3>3. CASE k = ld.i
        <4>1. hooks[ld.i].installed /\ major[hooks[ld.i].drv] = Ours BY <3>1, <3>3, <2>1, <2>2
        <4>2. ld' = [at |-> "put", i |-> ld.i] BY <1>6, <3>2, <4>1 DEF Restore, Goto
        <4> QED BY <4>2, <3>1, <2>1 DEF Published
      <3>4. CASE k # ld.i
        <4>1. \/ ld' = [at |-> "put", i |-> ld.i]
              \/ ld' = [at |-> "restore", i |-> ld.i + 1]
          BY <1>6, <3>2 DEF Restore, Goto
        <4>2. k \in ld.i .. hookCount /\ k \in ld.i + 1 .. hookCount BY <3>1, <3>4, <1>0
        <4> QED BY <4>1, <4>2, <3>1, <2>1 DEF Published
      <3> QED BY <3>3, <3>4
    <2> QED BY <2>1, <2>2, <1>k DEF MajorInv
  <1>7. CASE Put
    <2>1. /\ ld.at = "put" /\ ld.i \in 1 .. hookCount /\ hooks' = hooks /\ hookCount' = hookCount
          /\ major' = [major EXCEPT ![hooks[ld.i].drv] = hooks[ld.i].original]
          /\ ld' = [at |-> "restore", i |-> ld.i + 1]
      BY <1>7 DEF Put, tables, LoadInv, Goto
    <2> DEFINE h == hooks[ld.i].drv
    <2>2. /\ h \in Drivers /\ hooks[ld.i].original \in {Own(h), Ours, Foreign}
          /\ hooks[ld.i].original = Ours => saved[h] = Ours
          /\ hooks[ld.i].original = Foreign => saved[h] # Null
      BY <2>1 DEF TableInv, GoodHook, HooksUp
    <2>3. major'[h] = hooks[ld.i].original BY <2>1, <2>2, <1>0
    <2>4. \A d \in Drivers : d # h => major'[d] = major[d] BY <2>1, <1>0
    <2>5. ASSUME NEW d \in Drivers, d # h, saved'[d] # Ours, major'[d] = Ours
          PROVE  Published(d, ld.i)'
      <3>1. PICK k \in ld.i .. hookCount : hooks[k].drv = d /\ hooks[k].installed
        BY <2>1, <2>4, <2>5, <1>k DEF Published
      <3>2. k \in ld.i + 1 .. hookCount BY <3>1, <2>5, <1>0
      <3> QED BY <3>1, <3>2, <2>1 DEF Published
    <2>6. saved[h] \in {Own(h), Ours, Null} BY <2>2 DEF MajorInv
    <2>7. ASSUME NEW d \in Drivers
          PROVE  /\ major'[d] \in {Own(d), Ours, Foreign} /\ saved'[d] \in {Own(d), Ours, Null}
                 /\ major'[d] = Foreign => saved'[d] # Null
                 /\ saved'[d] # Ours /\ major'[d] = Ours => Published(d, ld.i)'
      <3>1. CASE d = h
        BY <3>1, <2>2, <2>3, <2>6, <1>s, RoutineFacts
      <3>2. CASE d # h
        BY <3>2, <2>4, <2>5, <1>k
      <3> QED BY <3>1, <3>2
    <2> HIDE DEF h
    <2> QED BY <2>1, <2>7 DEF MajorInv
  <1>8. CASE DeleteDevice \/ CleanupCbtState \/ ZeroTables \/ Unmap
    <2>1. major' = major /\ ld.at \in {"delete", "free", "zero", "unmap"}
      BY <1>8 DEF DeleteDevice, CleanupCbtState, ZeroTables, Unmap
    <2> QED BY <2>1, <1>k DEF MajorInv
  <1> QED BY <1>1, <1>2, <1>3, <1>4, <1>5, <1>6, <1>7, <1>8 DEF Loader

(* Whose table holds what, after any step. *)
LEMMA MajorNext ==
    ASSUME IInv, Next
    PROVE  MajorInv'
  <1>0. Kinds /\ LoadInv /\ TableInv /\ MajorInv BY DEF IInv
  <1>1. CASE Loader BY <1>0, <1>1, LoaderMajor
  <1>2. ASSUME NEW d \in Rivaled, ForeignHook(d) \/ ForeignUnhook(d) PROVE MajorInv'
    <2>1. /\ UNCHANGED <<hooks, hookCount, ld>> /\ d \in Drivers
          /\ \A e \in Drivers \ {d} : major'[e] = major[e] /\ saved'[e] = saved[e]
          /\ saved'[d] # Null
          /\ \/ saved'[d] = major[d] /\ major'[d] = Foreign /\ major[d] # Foreign
             \/ saved'[d] = saved[d] /\ major'[d] = saved[d]
      BY <1>0, <1>2, ForeignSaved
    <2>2. /\ major[d] \in {Own(d), Ours, Foreign} /\ saved[d] \in {Own(d), Ours, Null}
      BY <1>0, <2>1 DEF MajorInv
    <2>3. ASSUME NEW e \in Drivers, e # d
          PROVE  /\ major'[e] \in {Own(e), Ours, Foreign} /\ saved'[e] \in {Own(e), Ours, Null}
                 /\ major'[e] = Foreign => saved'[e] # Null
                 /\ saved'[e] # Ours /\ major'[e] = Ours =>
                       \/ ld.at = "publish" /\ Driver = e
                       \/ ld.at \in Building \cup {"loaded"} /\ Published(e, 1)
                       \/ ld.at \in {"restore", "put"} /\ Published(e, ld.i)
      BY <1>0, <2>1, <2>3 DEF MajorInv
    <2>4. /\ major'[d] \in {Own(d), Ours, Foreign} /\ saved'[d] \in {Own(d), Ours, Null}
      BY <2>1, <2>2
    <2>5. Driver' = Driver /\ \A e, n : Published(e, n)' <=> Published(e, n)
      BY <2>1 DEF Driver, Published
    <2>6. ~(saved'[d] # Ours /\ major'[d] = Ours) BY <2>1, RoutineFacts
    <2> QED BY <2>1, <2>3, <2>4, <2>5, <2>6 DEF MajorInv
  <1>3. ASSUME NEW t \in Writers, Write(t) PROVE MajorInv'
    <2>1. UNCHANGED <<major, saved, hooks, hookCount, ld>> BY <1>0, <1>3, WriteFrame
    <2> QED BY <1>0, <2>1 DEF MajorInv, Published, Driver
  <1> QED BY <1>1, <1>2, <1>3 DEF Next

-----------------------------------------------------------------------------
(* The writes. *)

(* What the hook entry a write goes by holds: a routine that leads to its  *)
(* own driver, or nothing once unloading has zeroed it.                    *)
LEMMA EntryRoutine ==
    ASSUME Kinds, LoadInv, TableInv, NEW t \in Writers, Entered(t),
           w[t].at \in {"found", "through", "original"}
    PROVE  \/ /\ HooksUp /\ w[t].k \in 1 .. hookCount
              /\ hooks[w[t].k].drv = drvOf(t) /\ GoodHook(w[t].k)
           \/ ~HooksUp /\ ld.at \in Gone /\ hooks[w[t].k].original = Null
  <1>1. CASE HooksUp BY <1>1 DEF Entered, TableInv
  <1>2. CASE ~HooksUp
    <2>1. hooks = ZeroHooks /\ w[t].k \in 1 .. MaxHooked BY <1>2 DEF LoadInv, Entered
    <2>2. hooks[w[t].k] = NoHook BY <2>1 DEF ZeroHooks
    <2> QED BY <1>2, <2>2 DEF NoHook, HooksUp, Gone
  <1> QED BY <1>1, <1>2

(* A write in the driver's code, while or after it is unloaded, is exposed. *)
LEMMA ExposedInside ==
    ASSUME RestoredInv, NEW t \in Writers, w[t].at \in InTheDriver, ld.at \in Gone
    PROVE  Exposed(t)
  BY DEF RestoredInv, Engaged, Inside, InTheDriver

(* Whatever tables a write goes through, it goes on to its own driver. *)
LEMMA WriteRoutine ==
    ASSUME IInv, NEW t \in Writers, Write(t), w'[t].at # "out"
    PROVE  /\ w'[t].routine \in {Own(drvOf(t)'), Ours, Foreign, Null}
           /\ w'[t].routine = Foreign => saved[drvOf(t)'] # Null
           /\ w'[t].routine = Null => w'[t].depth > 0 /\ Exposed(t)'
           /\ w'[t].at = "done" => w'[t].routine = Own(drvOf(t)')
           /\ w'[t].at \in InTheDriver => w'[t].depth > 0
  <1>0. /\ Kinds /\ LoadInv /\ TableInv /\ MajorInv /\ RoutineInv /\ RestoredInv
        /\ Entered(t) /\ saved' = saved
    BY WriteFrame DEF IInv, EntryInv
  <1> USE DEF InTheDriver
  <1>1. CASE Issued(t)
    <2>1. drvOf(t)' \in Drivers BY <1>1 DEF Issued, drvOf
    <2>2. major[drvOf(t)'] # Null BY <2>1, <1>0, RoutineFacts DEF MajorInv
    <2> QED BY <1>1, <2>1, <2>2, <1>0 DEF Issued, MajorInv
  <1>2. ASSUME w[t].at # "out"
        PROVE  /\ drvOf(t) \in Drivers /\ w[t].depth \in 0 .. StackMax /\ StackMax \in Nat
               /\ w[t].routine \in {Own(drvOf(t)), Ours, Foreign, Null}
               /\ w[t].routine = Foreign => saved[drvOf(t)] # Null
               /\ w[t].routine = Null => w[t].depth > 0 /\ Exposed(t)
               /\ w[t].at = "done" => w[t].routine = Own(drvOf(t))
               /\ w[t].at \in InTheDriver => w[t].depth > 0
    BY <1>0, <1>2, Busy, HookAssumption DEF RoutineInv
  <1>3. CASE Moved(t)
    <2>0. /\ w[t].at # "out" /\ drvOf(t)' = drvOf(t) /\ (Exposed(t)' <=> Exposed(t))
      BY <1>3, <1>0 DEF Moved, Exposed
    <2>1. CASE Called(t)
      <3>1. w[t].at = "call" BY <2>1 DEF Called
      <3>2. saved[drvOf(t)] \in {Own(drvOf(t)), Ours, Null} BY <2>0, <1>0, <1>2 DEF MajorInv
      <3>3. w[t].routine \in {Own(d) : d \in Drivers} => w[t].routine = Own(drvOf(t))
        BY <2>0, <1>2, RoutineFacts
      <3>4. CASE /\ w[t].routine \in {Own(d) : d \in Drivers}
                 /\ w'[t].at = "done" /\ w'[t].routine = w[t].routine
        BY <3>3, <3>4, <2>0, <1>2, RoutineFacts
      <3>5. CASE /\ w[t].routine = Foreign
                 /\ w'[t].at = "call" /\ w'[t].routine = saved[drvOf(t)]
        BY <3>2, <3>5, <2>0, <1>2, RoutineFacts
      <3>6. CASE /\ w[t].routine = Ours /\ w'[t].at = "lookup"
                 /\ w'[t].routine = w[t].routine /\ w'[t].depth = w[t].depth + 1
        BY <3>6, <2>0, <1>2, RoutineFacts
      <3> QED BY <2>1, <3>4, <3>5, <3>6 DEF Called
    <2>2. CASE Searched(t) \/ Marking(t)
      <3>1. /\ w'[t].routine = w[t].routine /\ w'[t].depth = w[t].depth /\ w'[t].at # "done"
            /\ w[t].at \in InTheDriver
        BY <2>2 DEF Searched, Marking
      <3> QED BY <3>1, <2>0, <1>2
    <2>3. CASE Took(t)
      <3>1. /\ w[t].at \in InTheDriver /\ w'[t].at # "done" /\ w'[t].depth = w[t].depth
            /\ w[t].depth > 0
        BY <2>3, <2>0, <1>2 DEF Took
      <3>2. CASE w[t].at = "emergency" /\ w'[t].routine = major[drvOf(t)]
        <4>1. major[drvOf(t)] # Null BY <2>0, <1>0, <1>2, RoutineFacts DEF MajorInv
        <4> QED BY <3>1, <3>2, <4>1, <2>0, <1>0, <1>2 DEF MajorInv
      <3>3. CASE /\ w[t].at \in {"through", "original"}
                 /\ w'[t].routine = hooks[w[t].k].original
        <4>1. CASE hooks[w[t].k].drv = drvOf(t) /\ GoodHook(w[t].k)
          <5>1. hooks[w[t].k].original # Null BY <4>1, RoutineFacts DEF GoodHook
          <5> QED BY <3>1, <3>3, <4>1, <5>1, <2>0, RoutineFacts DEF GoodHook
        <4>2. CASE ld.at \in Gone /\ hooks[w[t].k].original = Null
          <5>1. Exposed(t) BY <4>2, <3>1, <1>0, ExposedInside
          <5> QED BY <3>1, <3>3, <4>2, <5>1, <2>0, RoutineFacts
        <4> QED BY <4>1, <4>2, <3>3, <1>0, EntryRoutine
      <3> QED BY <2>3, <3>2, <3>3 DEF Took
    <2> QED BY <1>3, <2>1, <2>2, <2>3 DEF Moved
  <1>4. CASE Died(t)
    <2>1. w[t].at # "out" /\ w'[t] = w[t] /\ drvOf(t)' = drvOf(t) /\ (Exposed(t)' <=> Exposed(t))
      BY <1>4, <1>0 DEF Died, Exposed, drvOf
    <2> QED BY <2>1, <1>2
  <1>5. CASE Returned(t) BY <1>5 DEF Returned, Quiet
  <1> QED BY <1>0, <1>1, <1>3, <1>4, <1>5, WriteCases

(* Every write's routine leads to its own driver, after any step. *)
LEMMA RoutineNext ==
    ASSUME IInv, Next
    PROVE  RoutineInv'
  <1>0. Kinds /\ MajorInv /\ RoutineInv BY DEF IInv
  <1> DEFINE Leads(t) ==
         w[t].at # "out" =>
            /\ w[t].routine \in {Own(drvOf(t)), Ours, Foreign, Null}
            /\ w[t].routine = Foreign => saved[drvOf(t)] # Null
            /\ w[t].routine = Null => w[t].depth > 0 /\ Exposed(t)
            /\ w[t].at = "done" => w[t].routine = Own(drvOf(t))
            /\ w[t].at \in InTheDriver => w[t].depth > 0
  <1>l. \A t \in Writers : Leads(t) BY <1>0 DEF RoutineInv
  <1>1. ASSUME Loader, NEW t \in Writers PROVE Leads(t)'
    <2>1. saved' = saved BY <1>1, LoaderFrame
    <2>2. /\ w'[t].at = w[t].at
          /\ w[t].at # "out" =>
                /\ w'[t].routine = w[t].routine /\ w'[t].depth = w[t].depth
                /\ drvOf(t)' = drvOf(t)
      BY <1>0, <1>1, LoaderWrites
    <2>3. ASSUME w[t].at # "out", w[t].routine = Null PROVE Exposed(t)'
      <3>1. w[t].depth > 0 /\ Exposed(t) BY <1>l, <2>3
      <3>2. CASE early' = early BY <2>1, <2>2, <2>3, <3>1, <3>2 DEF Exposed
      <3>3. CASE early' # early
        <4>1. early' = Engaged BY <1>1, <3>3, LoaderFrame DEF Restore
        <4>2. w[t].at # "done" BY <1>l, <2>3, RoutineFacts
        <4>3. w[t] \in WriteRec BY <1>0, <2>3, Busy
        <4>4. t \in Engaged BY <3>1, <4>2, <4>3, <2>3 DEF Engaged, Inside, WriteRec
        <4> QED BY <4>1, <4>4 DEF Exposed
      <3> QED BY <3>2, <3>3
    <2>4. Leads(t) BY <1>l
    <2> QED BY <2>1, <2>2, <2>3, <2>4
  <1>2. ASSUME NEW d \in Rivaled, ForeignHook(d) \/ ForeignUnhook(d), NEW t \in Writers
        PROVE  Leads(t)'
    <2>1. /\ w' = w /\ early' = early
          /\ \A e \in Drivers : saved'[e] = Null => saved[e] = Null
          /\ \A e \in Drivers : saved[e] = Ours => saved'[e] = Ours
      BY <1>0, <1>2, ForeignSaved
    <2>2. w[t].at # "out" => drvOf(t) \in Drivers /\ drvOf(t)' = drvOf(t)
      BY <1>0, <2>1, Busy DEF drvOf
    <2>3. Leads(t) BY <1>l
    <2> QED BY <2>1, <2>2, <2>3 DEF Exposed
  <1>3. ASSUME NEW t \in Writers, Write(t), NEW u \in Writers PROVE Leads(u)'
    <2>1. saved' = saved BY <1>0, <1>3, WriteFrame
    <2>2. CASE u = t BY <1>3, <2>1, <2>2, WriteRoutine
    <2>3. CASE u # t
      <3>1. w'[u] = w[u] /\ drvOf(u)' = drvOf(u) /\ (u \in early' <=> u \in early)
        BY <1>0, <1>3, <2>3, WriteOthers
      <3>2. Leads(u) BY <1>l
      <3> QED BY <2>1, <3>1, <3>2 DEF Exposed
    <2> QED BY <2>2, <2>3
  <1>4. \A t \in Writers : Leads(t)' BY <1>1, <1>2, <1>3 DEF Next
  <1> QED BY <1>4 DEF RoutineInv

(* The entries a write goes by, after a step of it. *)
LEMMA WriteEntry ==
    ASSUME IInv, NEW t \in Writers, Write(t), fault' = "none"
    PROVE  Entered(t)'
  <1>0. /\ Kinds /\ LoadInv /\ TableInv /\ Entered(t)
        /\ UNCHANGED <<hooks, hookCount, map, mapCount, ld>>
        /\ mapCount \in 0 .. MaxMap /\ MaxMap \in Nat
        /\ hookCount \in 0 .. MaxHooked /\ MaxHooked \in Nat
        /\ map \in [1 .. MaxMap -> MapRec]
    BY WriteFrame, HookAssumption DEF IInv, EntryInv, Kinds
  <1>u. (HooksUp' <=> HooksUp) /\ (MapUp' <=> MapUp) BY <1>0 DEF HooksUp, MapUp
  <1> USE DEF InTheDriver
  <1>1. CASE Issued(t) BY <1>1 DEF Issued, Entered
  <1>2. CASE Returned(t) BY <1>2 DEF Returned, Quiet, Entered
  <1>3. CASE Died(t) BY <1>3 DEF Died
  <1>4. CASE Moved(t)
    <2>0. w'[t].dev = w[t].dev /\ drvOf(t)' = drvOf(t) BY <1>4 DEF Moved
    <2>1. CASE Called(t)
      <3>1. w'[t].at \in {"done", "call"} \/ (w'[t].at = "lookup" /\ ld.at # "idle")
        BY <2>1 DEF Called
      <3> QED BY <3>1, <1>0 DEF Entered
    <2>2. CASE Marking(t)
      <3>1. \/ w'[t].at = "call"
            \/ /\ w[t].at = "check" /\ w'[t].at = "set" /\ w'[t].j = w[t].j
               /\ map[w[t].j].buffer = "ok"
        BY <2>2 DEF Marking
      <3> QED BY <3>1, <2>0, <1>0, <1>u DEF Entered
    <2>3. CASE Took(t)
      <3>1. \/ w'[t].at = "call"
            \/ w[t].at = "original" /\ w'[t].at = "check" /\ w'[t].j = w[t].j
        BY <2>3 DEF Took
      <3> QED BY <3>1, <2>0, <1>0, <1>u DEF Entered
    <2>4. CASE Searched(t)
      <3>0. ld.at # "idle" /\ w'[t].at \in InTheDriver \ {"check", "set"}
        BY <2>4, <1>0 DEF Searched, Entered
      <3>1. CASE w[t].at = "lookup"
        <4>1. \/ w'[t].at = "hook"
              \/ /\ w'[t].at = "entry" /\ w'[t].j \in 1 .. mapCount
                 /\ map[w'[t].j].dev = w[t].dev
          BY <2>4, <3>1 DEF Searched
        <4>2. w'[t].at = "entry" => w'[t].j \in 1 .. MaxMap BY <4>1, <1>0
        <4> QED BY <4>1, <4>2, <3>0, <2>0, <1>0 DEF Entered
      <3>2. CASE w[t].at = "hook"
        <4>1. \/ w'[t].at = "emergency"
              \/ /\ w'[t].at = "found" /\ w'[t].k \in 1 .. hookCount
                 /\ hooks[w'[t].k].drv = drvOf(t)
          BY <2>4, <3>2 DEF Searched, Known
        <4>2. w'[t].at = "found" => w'[t].k \in 1 .. MaxHooked BY <4>1, <1>0
        <4> QED BY <4>1, <4>2, <3>0, <2>0, <1>0 DEF Entered
      <3>3. CASE w[t].at = "found"
        <4>1. w'[t].at = "emergency" \/ (w'[t].at = "through" /\ w'[t].k = w[t].k)
          BY <2>4, <3>3 DEF Searched
        <4> QED BY <4>1, <3>0, <3>3, <2>0, <1>0, <1>u DEF Entered
      <3>4. CASE w[t].at = "entry"
        <4>1. /\ w'[t].at = "original" /\ map[w[t].j].hook # 0 /\ w'[t].k = map[w[t].j].hook
              /\ w'[t].j = w[t].j
          BY <2>4, <3>4 DEF Searched
        <4>2. w[t].j \in 1 .. MaxMap BY <3>4, <1>0 DEF Entered
        <4>3. map[w[t].j].hook \in 1 .. MaxHooked BY <4>1, <4>2, <1>0 DEF MapRec
        <4>4. MapUp => w[t].j \in 1 .. mapCount /\ map[w[t].j].dev = w[t].dev
          BY <3>4, <1>0 DEF Entered
        <4>5. HooksUp => MapUp BY DEF HooksUp, MapUp
        <4>6. HooksUp => w'[t].k \in 1 .. hookCount /\ hooks[w'[t].k].drv = drvOf(t)
          BY <4>1, <4>4, <4>5, <1>0 DEF TableInv, GoodMap, drvOf
        <4> QED BY <4>1, <4>2, <4>3, <4>4, <4>6, <3>0, <2>0, <1>0, <1>u DEF Entered
      <3> QED BY <2>4, <3>1, <3>2, <3>3, <3>4 DEF Searched
    <2> QED BY <1>4, <2>1, <2>2, <2>3, <2>4 DEF Moved
  <1> QED BY <1>0, <1>1, <1>2, <1>3, <1>4, WriteCases

(* The entries of the writes under way, after a step of the loading thread. *)
LEMMA LoaderEntry ==
    ASSUME IInv, Loader
    PROVE  EntryInv'
  <1>0. /\ Kinds /\ LoadInv /\ EntryInv /\ fault = "none"
        /\ mapCount \in 0 .. MaxMap /\ MaxMap \in Nat /\ map \in [1 .. MaxMap -> MapRec]
        /\ hookCount \in 0 .. MaxHooked /\ MaxHooked \in Nat
        /\ hooks \in [1 .. MaxHooked -> HookRec] /\ ld.i \in Nat
    BY HookAssumption DEF IInv, Kinds, Loader
  <1>w. ASSUME NEW t \in Writers
        PROVE  /\ Entered(t) /\ w'[t].at = w[t].at
               /\ w[t].at # "out" => /\ w'[t].dev = w[t].dev /\ w'[t].j = w[t].j
                                     /\ w'[t].k = w[t].k /\ drvOf(t)' = drvOf(t)
    BY <1>0, LoaderWrites DEF EntryInv
  <1> USE DEF InTheDriver
  <1>k. ASSUME ld.at # "idle", ld'.at # "idle", HooksUp' => HooksUp, MapUp' => MapUp,
               ld'.at \in {"free", "zero", "unmap"} \/ ld.at \notin {"free", "zero", "unmap"},
               MapUp' => /\ mapCount' \in Nat /\ mapCount <= mapCount'
                         /\ \A j \in 1 .. mapCount : map'[j].dev = map[j].dev,
               HooksUp' => /\ hookCount' \in Nat /\ hookCount <= hookCount'
                           /\ \A k \in 1 .. hookCount : hooks'[k].drv = hooks[k].drv,
               ld'.at \in {"free", "zero", "unmap"} \/
                  (MapUp /\ \A j \in 1 .. mapCount : map'[j].buffer = map[j].buffer)
        PROVE  EntryInv'
    <2>1. SUFFICES ASSUME NEW t \in Writers PROVE Entered(t)' BY DEF EntryInv
    <2>2. /\ Entered(t) /\ w'[t].at = w[t].at
          /\ w[t].at # "out" => /\ w'[t].dev = w[t].dev /\ w'[t].j = w[t].j
                                /\ w'[t].k = w[t].k /\ drvOf(t)' = drvOf(t)
      BY <1>w
    <2>3. w'[t].at \in {"entry", "original", "check", "set"} =>
             /\ w'[t].j \in 1 .. MaxMap
             /\ MapUp' => w'[t].j \in 1 .. mapCount' /\ map'[w'[t].j].dev = w'[t].dev
      <3>1. SUFFICES ASSUME w[t].at \in {"entry", "original", "check", "set"}
                     PROVE  /\ w[t].j \in 1 .. MaxMap
                            /\ MapUp' => w[t].j \in 1 .. mapCount' /\ map'[w[t].j].dev = w[t].dev
        BY <2>2
      <3>2. /\ w[t].j \in 1 .. MaxMap
            /\ MapUp' => w[t].j \in 1 .. mapCount /\ map[w[t].j].dev = w[t].dev
        BY <2>2, <3>1, <1>k DEF Entered
      <3>3. MapUp' => w[t].j \in 1 .. mapCount' BY <3>2, <1>k, <1>0
      <3> QED BY <3>2, <3>3, <1>k
    <2>4. w'[t].at \in {"found", "through", "original"} =>
             /\ w'[t].k \in 1 .. MaxHooked
             /\ HooksUp' => w'[t].k \in 1 .. hookCount' /\ hooks'[w'[t].k].drv = drvOf(t)'
      <3>1. SUFFICES ASSUME w[t].at \in {"found", "through", "original"}
                     PROVE  /\ w[t].k \in 1 .. MaxHooked
                            /\ HooksUp' => w[t].k \in 1 .. hookCount' /\ hooks'[w[t].k].drv = drvOf(t)
        BY <2>2
      <3>2. /\ w[t].k \in 1 .. MaxHooked
            /\ HooksUp' => w[t].k \in 1 .. hookCount /\ hooks[w[t].k].drv = drvOf(t)
        BY <2>2, <3>1, <1>k DEF Entered
      <3>3. HooksUp' => w[t].k \in 1 .. hookCount' BY <3>2, <1>k, <1>0
      <3> QED BY <3>2, <3>3, <1>k
    <2>5. w'[t].at = "set" /\ map'[w'[t].j].buffer # "ok" => ld'.at \in {"free", "zero", "unmap"}
      <3>1. SUFFICES ASSUME w[t].at = "set", ld'.at \notin {"free", "zero", "unmap"}
                     PROVE  map'[w[t].j].buffer = "ok"
        BY <2>2
      <3>2. w[t].j \in 1 .. mapCount /\ map[w[t].j].buffer = "ok"
        BY <2>2, <3>1, <1>k DEF Entered
      <3> QED BY <3>1, <3>2, <1>k
    <2> QED BY <2>3, <2>4, <2>5, <1>k DEF Entered
  <1>u. /\ ld.at \notin {"zero", "unmap"} => HooksUp /\ MapUp
        /\ ld'.at \notin {"zero", "unmap"} => HooksUp' /\ MapUp'
    BY DEF HooksUp, MapUp
  <1>1. CASE FindOrCreateHookEntry
    <2>1. /\ ld.at = "scan" /\ ld'.at \notin {"idle", "unmap", "free", "zero"}
          /\ map' = map /\ mapCount' = mapCount /\ hookCount' = hookCount
          /\ hooks' = hooks \/ \E e : hooks' = [hooks EXCEPT ![hookCount + 1] = e]
      BY <1>1 DEF FindOrCreateHookEntry, Goto
    <2>2. \A k \in 1 .. hookCount : hooks'[k] = hooks[k] BY <2>1, <1>0
    <2> QED BY <2>1, <2>2, <1>0, <1>u, <1>k
  <1>2. CASE Publish
    <2>1. /\ ld.at = "publish" /\ ld'.at = "map" /\ map' = map /\ mapCount' = mapCount
          /\ hookCount' = hookCount + 1
          /\ hooks' = [hooks EXCEPT ![hookCount + 1].installed = (major[Driver] = Ours)]
      BY <1>2 DEF Publish, Goto
    <2>2. \A k \in 1 .. hookCount : hooks'[k] = hooks[k] BY <2>1, <1>0
    <2> QED BY <2>1, <2>2, <1>0, <1>u, <1>k
  <1>3. CASE Exchange \/ Unload \/ Restore \/ Put \/ DeleteDevice
    <2>1. /\ ld.at \notin {"idle", "unmap", "free", "zero"} /\ ld'.at \notin {"idle", "unmap", "zero"}
          /\ UNCHANGED <<hooks, hookCount, map, mapCount>>
      BY <1>3 DEF Exchange, Unload, Restore, Put, DeleteDevice, Goto, tables
    <2> QED BY <2>1, <1>0, <1>u, <1>k
  <1>4. CASE FillMap
    <2>1. /\ ld.at = "map" /\ ld'.at \in {"count", "scan"} /\ mapCount' = mapCount
          /\ hooks' = hooks /\ hookCount' = hookCount
          /\ map' = map \/ \E e : map' = [map EXCEPT ![mapCount + 1] = e]
      BY <1>4 DEF FillMap, Goto
    <2>2. \A j \in 1 .. mapCount : map'[j] = map[j] BY <2>1, <1>0
    <2> QED BY <2>1, <2>2, <1>0, <1>u, <1>k
  <1>5. CASE CountMap
    <2>1. /\ ld.at = "count" /\ ld'.at = "scan" /\ mapCount' = mapCount + 1 /\ map' = map
          /\ hooks' = hooks /\ hookCount' = hookCount
      BY <1>5 DEF CountMap, Goto
    <2> QED BY <2>1, <1>0, <1>u, <1>k
  <1>6. CASE CleanupCbtState
    <2>1. /\ ld.at = "free" /\ ld'.at \in {"free", "zero"} /\ mapCount' = mapCount
          /\ hooks' = hooks /\ hookCount' = hookCount
          /\ map' = map \/ map' = [map EXCEPT ![ld.i].buffer = "null"]
      BY <1>6 DEF CleanupCbtState, Goto
    <2>2. \A j \in 1 .. mapCount : map'[j].dev = map[j].dev
      <3> TAKE j \in 1 .. mapCount
      <3>1. j \in 1 .. MaxMap /\ map[j] \in MapRec BY <1>0
      <3>2. map'[j] = map[j] \/ map'[j] = [map[j] EXCEPT !.buffer = "null"] BY <2>1, <3>1, <1>0
      <3> QED BY <3>1, <3>2 DEF MapRec
    <2> QED BY <2>1, <2>2, <1>0, <1>u, <1>k
  <1>7. CASE ZeroTables
    <2>0. ld.at = "zero" /\ ld'.at \in {"zero", "unmap"} BY <1>7 DEF ZeroTables, Goto
    <2>1. ld.at = "zero" /\ ld.i \in 1 .. 4 BY <1>0, <2>0 DEF LoadInv
    <2>2. ~HooksUp' BY <1>7, <2>1 DEF ZeroTables, Goto, HooksUp
    <2>3. ASSUME MapUp' PROVE MapUp /\ map' = map /\ mapCount' = mapCount
      BY <1>7, <2>1, <2>3 DEF ZeroTables, Goto, MapUp
    <2> QED BY <2>0, <2>2, <2>3, <1>0, <1>k
  <1>8. CASE Unmap
    <2>1. /\ fault' = "none" => \A t \in Writers : w[t].at \notin InTheDriver
      BY <1>8, <1>0 DEF Unmap, Inside
    <2> QED BY <2>1, <1>w DEF EntryInv, Entered
  <1>9. CASE DriverEntry
    <2>1. \A t \in Writers : w[t].at \notin InTheDriver BY <1>9, <1>w DEF DriverEntry, Entered
    <2> QED BY <2>1, <1>w DEF EntryInv, Entered
  <1> QED BY <1>1, <1>2, <1>3, <1>4, <1>5, <1>6, <1>7, <1>8, <1>9 DEF Loader

(* The entries of the writes under way, after any step. *)
LEMMA EntryNext ==
    ASSUME IInv, Next
    PROVE  EntryInv'
  <1>0. Kinds /\ MajorInv /\ EntryInv BY DEF IInv
  <1>1. CASE Loader BY <1>1, LoaderEntry
  <1>2. ASSUME NEW d \in Rivaled, ForeignHook(d) \/ ForeignUnhook(d) PROVE EntryInv'
    <2>1. UNCHANGED <<hooks, hookCount, map, mapCount, ld, w, fault>> BY <1>0, <1>2, ForeignSaved
    <2> QED BY <1>0, <2>1 DEF EntryInv, Entered, HooksUp, MapUp, drvOf
  <1>3. ASSUME NEW t \in Writers, Write(t) PROVE EntryInv'
    <2>1. /\ UNCHANGED <<hooks, hookCount, map, mapCount, ld>> /\ fault = "none"
      BY <1>0, <1>3, WriteFrame
    <2>2. ASSUME NEW u \in Writers, u # t PROVE Entered(u)'
      <3>1. Entered(u) BY <1>0, <2>1 DEF EntryInv
      <3>2. w'[u] = w[u] /\ drvOf(u)' = drvOf(u) BY <1>0, <1>3, <2>2, WriteOthers
      <3> QED BY <2>1, <3>1, <3>2 DEF Entered, HooksUp, MapUp
    <2>3. fault' = "none" => Entered(t)' BY <1>3, WriteEntry
    <2> QED BY <2>2, <2>3 DEF EntryInv
  <1> QED BY <1>1, <1>2, <1>3 DEF Next

-----------------------------------------------------------------------------
(* Unloading. *)

(* A write that is in the driver, about to be, or to return to it. *)
LEMMA EngagedIs ==
    ASSUME NEW t \in Writers
    PROVE  t \in Engaged <=> \/ w[t].at \in InTheDriver
                             \/ w[t].at = "call" /\ w[t].routine = Ours
                             \/ w[t].at \in {"call", "done"} /\ w[t].depth > 0
  BY DEF Engaged, Inside, InTheDriver

(* Once the hooks are out of the tables, a write comes to the driver only  *)
(* where another driver's hook leads to it.                                *)
LEMMA WriteStaysOut ==
    ASSUME IInv, NEW t \in Writers, Write(t), ld.at \in Gone, t \in Engaged'
    PROVE  Exposed(t)'
  <1>0. /\ Kinds /\ MajorInv /\ RoutineInv /\ RestoredInv /\ saved' = saved
    BY WriteFrame DEF IInv
  <1>e. \/ w'[t].at \in InTheDriver
        \/ w'[t].at = "call" /\ w'[t].routine = Ours
        \/ w'[t].at \in {"call", "done"} /\ w'[t].depth > 0
    BY DEF Engaged, Inside, InTheDriver
  <1>1. CASE Issued(t)
    <2>1. drvOf(t)' \in Drivers BY <1>1 DEF Issued, drvOf
    <2>2. w'[t].routine = Ours /\ major[drvOf(t)'] = Ours BY <1>1, <1>e DEF Issued, InTheDriver
    <2>3. ld.at \notin Building \cup {"loaded", "restore", "put"} BY DEF Gone, Building
    <2>4. saved[drvOf(t)'] = Ours BY <2>1, <2>2, <2>3, <1>0 DEF MajorInv, Building
    <2> QED BY <2>4, <1>0 DEF Exposed
  <1>2. CASE Returned(t) BY <1>2, <1>e DEF Returned, Quiet, InTheDriver
  <1>3. CASE Moved(t) \/ Died(t)
    <2>0. /\ w[t].at # "out" /\ drvOf(t)' = drvOf(t) /\ early' = early
      BY <1>3 DEF Moved, Died, drvOf
    <2>1. CASE t \in Engaged
      <3>1. Exposed(t) BY <2>1, <1>0 DEF RestoredInv
      <3> QED BY <3>1, <2>0, <1>0 DEF Exposed
    <2>2. CASE t \notin Engaged
      <3>1. /\ w[t].at \notin InTheDriver /\ ~(w[t].at = "call" /\ w[t].routine = Ours)
            /\ ~(w[t].at \in {"call", "done"} /\ w[t].depth > 0)
        BY <2>2, EngagedIs
      <3>2. ~Died(t) BY <2>2, <3>1 DEF Died, Engaged, Inside
      <3>3. Moved(t) /\ Called(t)
        BY <1>3, <3>1, <3>2 DEF Moved, Searched, Took, Marking, InTheDriver
      <3>4. \/ w'[t].at = "done" /\ w'[t].depth = w[t].depth
            \/ w'[t].at = "call" /\ w'[t].depth = w[t].depth /\ w'[t].routine = saved[drvOf(t)]
        BY <3>1, <3>3 DEF Called
      <3>5. saved[drvOf(t)] = Ours BY <3>1, <3>3, <3>4, <1>e DEF Called, InTheDriver
      <3> QED BY <3>5, <2>0, <1>0 DEF Exposed
    <2> QED BY <2>1, <2>2
  <1> QED BY <1>0, <1>1, <1>2, <1>3, WriteCases

(* Only exposed writes are engaged, after any step. *)
LEMMA RestoredNext ==
    ASSUME IInv, Next
    PROVE  RestoredInv'
  <1>0. Kinds /\ MajorInv /\ RestoredInv BY DEF IInv
  <1>p. Engaged' \subseteq Writers /\ Engaged \subseteq Writers BY DEF Engaged, Inside
  <1>1. CASE Loader
    <2>1. saved' = saved BY <1>1, LoaderFrame
    <2>2. CASE DriverEntry \/ FindOrCreateHookEntry \/ Exchange \/ Publish \/ FillMap \/ CountMap
               \/ Unload \/ Put
      <3>1. ld'.at \notin Gone
        BY <2>2 DEF DriverEntry, FindOrCreateHookEntry, Exchange, Publish, FillMap, CountMap,
                    Unload, Put, Goto, Gone
      <3> QED BY <3>1 DEF RestoredInv
    <2>3. CASE Restore
      <3>1. w' = w /\ (ld'.at \in Gone => early' = Engaged) BY <2>3 DEF Restore, Goto, Gone
      <3>2. Engaged' = Engaged BY <3>1 DEF Engaged, Inside
      <3> QED BY <3>1, <3>2 DEF RestoredInv, Exposed
    <2>4. CASE DeleteDevice \/ CleanupCbtState \/ ZeroTables \/ Unmap
      <3>1. ld.at \in Gone /\ w' = w /\ early' = early
        BY <2>4 DEF DeleteDevice, CleanupCbtState, ZeroTables, Unmap, Gone
      <3>2. Engaged' = Engaged /\ \A t : drvOf(t)' = drvOf(t) BY <3>1 DEF Engaged, Inside, drvOf
      <3> QED BY <3>1, <3>2, <2>1, <1>0 DEF RestoredInv, Exposed
    <2> QED BY <1>1, <2>2, <2>3, <2>4 DEF Loader
  <1>2. ASSUME NEW d \in Rivaled, ForeignHook(d) \/ ForeignUnhook(d) PROVE RestoredInv'
    <2>1. /\ UNCHANGED <<w, ld, early>>
          /\ \A e \in Drivers : saved[e] = Ours => saved'[e] = Ours
      BY <1>0, <1>2, ForeignSaved
    <2>2. Engaged' = Engaged BY <2>1 DEF Engaged, Inside
    <2>3. \A t \in Engaged : drvOf(t) \in Drivers /\ drvOf(t)' = drvOf(t)
      <3> TAKE t \in Engaged
      <3>1. t \in Writers /\ w[t].at # "out" BY <1>p, EngagedIs DEF InTheDriver
      <3> QED BY <1>0, <2>1, <3>1, Busy DEF drvOf
    <2> QED BY <1>0, <2>1, <2>2, <2>3 DEF RestoredInv, Exposed
  <1>3. ASSUME NEW t \in Writers, Write(t) PROVE RestoredInv'
    <2>1. UNCHANGED <<saved, ld>> BY <1>0, <1>3, WriteFrame
    <2>2. SUFFICES ASSUME ld.at \in Gone, NEW u \in Engaged' PROVE Exposed(u)'
      BY <2>1 DEF RestoredInv
    <2>3. u \in Writers BY <1>p
    <2>4. CASE u = t BY <1>3, <2>2, <2>4, WriteStaysOut
    <2>5. CASE u # t
      <3>1. w'[u] = w[u] /\ drvOf(u)' = drvOf(u) /\ (u \in early' <=> u \in early)
        BY <1>0, <1>3, <2>3, <2>5, WriteOthers
      <3>2. u \in Engaged BY <2>2, <2>3, <3>1 DEF Engaged, Inside
      <3>3. Exposed(u) BY <2>2, <3>2, <1>0 DEF RestoredInv
      <3> QED BY <2>1, <3>1, <3>3 DEF Exposed
    <2> QED BY <2>4, <2>5
  <1> QED BY <1>1, <1>2, <1>3 DEF Next

(* The write that meets what unloading has taken away is exposed. *)
LEMMA UnloadNext ==
    ASSUME IInv, Next
    PROVE  UnloadSafe'
  <1>0. /\ Kinds /\ LoadInv /\ TableInv /\ MajorInv /\ RoutineInv /\ EntryInv
        /\ RestoredInv /\ UnloadSafe
    BY DEF IInv
  <1>1. CASE Loader
    <2>1. saved' = saved /\ fault = "none" /\ (~Unmap => fault' = fault) BY <1>1, LoaderFrame
    <2>2. CASE ~Unmap BY <2>1, <2>2 DEF UnloadSafe
    <2>3. CASE Unmap
      <3>1. /\ ld.at \in Gone /\ early' = early /\ w' = w
            /\ fault' = "none" \/ culprit' \in Inside
        BY <2>1, <2>3 DEF Unmap, Gone, health
      <3>2. Inside \subseteq Engaged BY DEF Engaged
      <3>3. fault' = "none" \/ Exposed(culprit') BY <3>1, <3>2, <1>0 DEF RestoredInv
      <3>4. fault' = "none" \/ (culprit' \in early' \/ saved'[DriverOf[w'[culprit'].dev]] = Ours)
        BY <2>1, <3>1, <3>3 DEF Exposed, drvOf
      <3> QED BY <3>4 DEF UnloadSafe, drvOf
    <2> QED BY <2>2, <2>3
  <1>2. ASSUME NEW d \in Rivaled, ForeignHook(d) \/ ForeignUnhook(d) PROVE UnloadSafe'
    <2>1. fault' = "none" BY <1>0, <1>2, ForeignSaved
    <2> QED BY <2>1 DEF UnloadSafe
  <1>3. ASSUME NEW t \in Writers, Write(t) PROVE UnloadSafe'
    <2>1. saved' = saved /\ fault = "none" BY <1>0, <1>3, WriteFrame
    <2>2. CASE ~Died(t)
      <3>1. fault' = "none" BY <1>0, <1>3, <2>2, WriteCases DEF Issued, Moved, Returned
      <3> QED BY <3>1 DEF UnloadSafe
    <2>3. CASE Died(t) /\ fault' = "overflow" BY <2>3 DEF UnloadSafe
    <2>4. CASE Died(t) /\ fault' # "overflow"
      <3>0. w' = w /\ early' = early /\ culprit' = t /\ w[t].at # "out" BY <2>4 DEF Died
      <3>1. Exposed(t)
        <4>1. CASE w[t].at = "call" /\ w[t].routine = Null BY <4>1, <1>0 DEF RoutineInv
        <4>2. CASE \/ w[t].at = "call" /\ w[t].routine = Ours /\ ld.at = "idle"
                   \/ w[t].at = "done" /\ w[t].depth > 0 /\ ld.at = "idle"
          <5>1. t \in Engaged /\ ld.at \in Gone BY <4>2, EngagedIs DEF Gone
          <5> QED BY <5>1, <1>0 DEF RestoredInv
        <4>3. CASE w[t].at = "entry" /\ map[w[t].j].hook = 0
          <5>1. w[t].j \in 1 .. MaxMap /\ (MapUp => w[t].j \in 1 .. mapCount)
            BY <4>3, <2>1, <1>0 DEF EntryInv, Entered
          <5>2. ~MapUp
            <6>1. MapUp => map[w[t].j].hook \in 1 .. MaxHooked BY <5>1, <1>0 DEF TableInv, GoodMap
            <6> QED BY <6>1, <4>3, HookAssumption
          <5>3. ld.at \in Gone BY <5>2 DEF MapUp, Gone
          <5> QED BY <4>3, <5>3, <1>0, ExposedInside DEF InTheDriver
        <4>4. CASE w[t].at = "set" /\ map[w[t].j].buffer # "ok"
          <5>1. ld.at \in Gone BY <4>4, <2>1, <1>0 DEF EntryInv, Entered, Gone
          <5> QED BY <4>4, <5>1, <1>0, ExposedInside DEF InTheDriver
        <4> QED BY <2>4, <4>1, <4>2, <4>3, <4>4 DEF Died
      <3>2. culprit' \in early' \/ saved'[DriverOf[w'[culprit'].dev]] = Ours
        BY <2>1, <3>0, <3>1 DEF Exposed, drvOf
      <3> QED BY <3>2 DEF UnloadSafe, drvOf
    <2> QED BY <2>2, <2>3, <2>4
  <1> QED BY <1>1, <1>2, <1>3 DEF Next

-----------------------------------------------------------------------------
(* The theorems. *)

(* The invariant holds at the start. *)
LEMMA InitInv ==
    ASSUME Init
    PROVE  IInv
  <1>0. /\ MaxHooked \in Nat /\ MaxMap \in Nat /\ DriverOf \in [Devices -> Drivers]
    BY HookAssumption
  <1> USE DEF Init
  <1>1. NoHook \in HookRec /\ NoMap \in MapRec BY <1>0, RoutineFacts DEF NoHook, HookRec, NoMap, MapRec
  <1>2. Kinds
    <2>1. major \in [Drivers -> Routines] /\ saved \in [Drivers -> Routines] BY RoutineFacts
    <2>2. hooks \in [1 .. MaxHooked -> HookRec] /\ map \in [1 .. MaxMap -> MapRec]
      BY <1>1 DEF ZeroHooks, ZeroMap
    <2>3. ld \in [at : Building \cup Gone \cup {"loaded", "restore", "put"}, i : Nat] BY DEF Gone
    <2>4. w \in [Writers -> WriteRec \cup {Quiet}] OBVIOUS
    <2>5. hookCount = 0 /\ mapCount = 0 /\ fault = "none" /\ culprit = "none" /\ early = {} OBVIOUS
    <2> HIDE DEF Init
    <2>7. hookCount \in 0 .. MaxHooked /\ mapCount \in 0 .. MaxMap BY <1>0, <2>5
    <2> QED BY <2>1, <2>2, <2>3, <2>4, <2>5, <2>7 DEF Kinds
  <1>3. LoadInv /\ TableInv BY <1>0 DEF LoadInv, TableInv, Building, HooksUp, MapUp
  <1>4. MajorInv BY RoutineFacts DEF MajorInv
  <1>5. \A t \in Writers : w[t].at = "out" BY DEF Quiet
  <1>6. RoutineInv /\ EntryInv BY <1>5 DEF RoutineInv, EntryInv, Entered, InTheDriver
  <1>7. RestoredInv BY <1>5 DEF RestoredInv, Engaged, Inside
  <1>8. UnloadSafe BY DEF UnloadSafe
  <1> QED BY <1>2, <1>3, <1>4, <1>6, <1>7, <1>8 DEF IInv

(* The invariant does not depend on anything but the variables. *)
LEMMA StutterInv ==
    ASSUME IInv, UNCHANGED vars
    PROVE  IInv'
  <1>1. /\ UNCHANGED <<major, saved, hooks, hookCount, map, mapCount, ld, w>>
        /\ UNCHANGED <<fault, culprit, early>>
    BY DEF vars, tables, health
  <1>2. \A d, n : Published(d, n)' <=> Published(d, n) BY <1>1 DEF Published
  <1>u. (HooksUp' <=> HooksUp) /\ (MapUp' <=> MapUp) BY <1>1 DEF HooksUp, MapUp
  <1>3. \A k : GoodHook(k)' <=> GoodHook(k) BY <1>1 DEF GoodHook
  <1>4. \A k : GoodMap(k)' <=> GoodMap(k) BY <1>1, <1>u DEF GoodMap
  <1>5. Driver' = Driver /\ Known(Driver)' = Known(Driver) BY <1>1 DEF Driver, Known
  <1>6. Engaged' = Engaged BY <1>1 DEF Inside, Engaged
  <1>7. \A t : drvOf(t)' = drvOf(t) BY <1>1 DEF drvOf
  <1>x. \A t : Exposed(t)' <=> Exposed(t) BY <1>1, <1>7 DEF Exposed
  <1>8. Kinds' BY <1>1 DEF IInv, Kinds
  <1>9. LoadInv' BY <1>1, <1>3, <1>4, <1>5, <1>u DEF IInv, LoadInv
  <1>10. TableInv' BY <1>1, <1>3, <1>4, <1>5, <1>u DEF IInv, TableInv
  <1>11. MajorInv' BY <1>1, <1>2, <1>5 DEF IInv, MajorInv
  <1>12. RoutineInv' BY <1>1, <1>7, <1>x DEF IInv, RoutineInv
  <1>13. EntryInv' BY <1>1, <1>7, <1>u DEF IInv, EntryInv, Entered
  <1>14. RestoredInv' BY <1>1, <1>6, <1>x DEF IInv, RestoredInv
  <1>15. UnloadSafe' BY <1>1 DEF IInv, UnloadSafe, drvOf
  <1> QED BY <1>8, <1>9, <1>10, <1>11, <1>12, <1>13, <1>14, <1>15 DEF IInv

(* The invariant holds in every reachable state. *)
THEOREM Invariance == Spec => []IInv
  <1>1. Init => IInv BY InitInv
  <1>2. IInv /\ [Next]_vars => IInv'
    <2>1. ASSUME IInv, Next PROVE IInv'
      BY <2>1, KindsNext, TablesNext, MajorNext, RoutineNext, EntryNext, RestoredNext, UnloadNext
         DEF IInv
    <2> QED BY <2>1, StutterInv
  <1> QED BY <1>1, <1>2, PTL DEF Spec

(* The tables, the loading thread and the writes have their types: no      *)
(* table is filled beyond its end, and no write goes by an entry outside.  *)
THEOREM TypeCorrect == Spec => []TypeOK
  <1>1. IInv => TypeOK
    <2> SUFFICES ASSUME IInv PROVE TypeOK OBVIOUS
    <2>0. Kinds /\ MajorInv BY DEF IInv
    <2>1. major \in [Drivers -> Routines \ {Null}]
      <3>1. \A d \in Drivers : major[d] \in Routines /\ major[d] # Null
        BY <2>0, RoutineFacts DEF Kinds, MajorInv
      <3> QED BY <3>1, <2>0 DEF Kinds
    <2>2. saved \in [Drivers -> Routines \ {Foreign}]
      <3>1. \A d \in Drivers : saved[d] \in Routines /\ saved[d] # Foreign
        BY <2>0, RoutineFacts DEF Kinds, MajorInv
      <3> QED BY <3>1, <2>0 DEF Kinds
    <2>4. \A t \in Writers : w[t] = Quiet \/ w[t] \in WriteRec BY <2>0 DEF Kinds
    <2>5. ld \in [at : {"idle", "scan", "exchange", "publish", "map", "count", "loaded",
                     "restore", "put", "delete", "free", "zero", "unmap"}, i : Nat]
      BY <2>0 DEF Kinds, Building, Gone
    <2> QED BY <2>0, <2>1, <2>2, <2>4, <2>5 DEF TypeOK, Kinds, HookRec, MapRec, WriteRec
  <1> QED BY <1>1, Invariance, PTL

(* For any drivers, tables and writers, a write ends in the routine of the *)
(* driver of its own device, whatever loading, unloading and the other     *)
(* driver did to the tables on the way.                                    *)
THEOREM WriteReachesItsDriver == Spec => []RightRoutine
  <1>1. IInv => RightRoutine BY DEF IInv, RoutineInv, RightRoutine
  <1> QED BY <1>1, Invariance, PTL

(* Unloading stops the machine only through a write that was on its way    *)
(* through HwReadWrite when the restore loop ended, or a write to a driver *)
(* on which another driver has hooked over HwReadWrite.                    *)
THEOREM UnloadIsSafe == Spec => []UnloadSafe
  <1>1. IInv => UnloadSafe BY DEF IInv
  <1> QED BY <1>1, Invariance, PTL

(* A write whose driver's hook is in place comes to the emergency          *)
(* passthrough only out of a search made before the hook's entry was       *)
(* counted, and no hook entry sends it back into HwReadWrite, unless       *)
(* another driver has hooked over HwReadWrite there.                       *)
THEOREM NoLoop == Spec => NoDeadLoop
  <1> DEFINE A == \A t \in Writers :
                     LET d == drvOf(t)
                     IN  /\ w[t].at \in {"hook", "found"} /\ w'[t].at = "emergency" /\ Hooked(d)
                              => (ld.at = "publish" /\ Driver = d) \/ saved[d] = Ours
                         /\ w[t].at \in {"through", "original"} /\ w'[t].at \in {"call", "check"}
                              => w'[t].routine # Ours \/ saved[d] = Ours
  <1>1. IInv /\ [Next]_vars => [A]_vars
    <2> SUFFICES ASSUME IInv, Next, NEW t \in Writers, saved[drvOf(t)] # Ours
                 PROVE  /\ w[t].at \in {"hook", "found"} /\ w'[t].at = "emergency"
                           /\ Hooked(drvOf(t)) => ld.at = "publish" /\ Driver = drvOf(t)
                        /\ w[t].at \in {"through", "original"} /\ w'[t].at \in {"call", "check"}
                              => w'[t].routine # Ours
      OBVIOUS
    <2>0. /\ Kinds /\ LoadInv /\ TableInv /\ MajorInv /\ EntryInv
          /\ hookCount \in 0 .. MaxHooked /\ MaxHooked \in Nat /\ ld.i \in Nat
      BY HookAssumption DEF IInv, Kinds
    <2>1. ASSUME w[t].at \in {"hook", "found", "through", "original"}, w'[t].at # w[t].at
          PROVE  Entered(t) /\ (Searched(t) \/ Took(t))
      <3>1. ~Loader BY <2>0, <2>1, LoaderWrites
      <3>2. ~(\E d \in Rivaled : ForeignHook(d) \/ ForeignUnhook(d)) BY <2>0, <2>1, ForeignSaved
      <3>3. PICK u \in Writers : Write(u) BY <3>1, <3>2 DEF Next
      <3>4. u = t BY <3>3, <2>0, <2>1, WriteOthers
      <3>5. Issued(t) \/ Moved(t) \/ Returned(t) \/ Died(t) BY <3>3, <3>4, <2>0, WriteCases
      <3>6. Searched(t) \/ Took(t)
        BY <2>1, <3>5 DEF Issued, Moved, Called, Marking, Returned, Died
      <3>7. fault = "none" BY <3>3, <2>0, WriteFrame
      <3> QED BY <3>6, <3>7, <2>0 DEF EntryInv
    <2>2. ASSUME w[t].at \in {"hook", "found"}, w'[t].at = "emergency", Hooked(drvOf(t))
          PROVE  ld.at = "publish" /\ Driver = drvOf(t)
      <3>0. drvOf(t) \in Drivers BY <2>0, <2>2, Busy
      <3>1. major[drvOf(t)] = Ours BY <2>2 DEF Hooked
      <3>2. SUFFICES ASSUME ld.at \in Building \cup {"loaded", "restore", "put"},
                            Published(drvOf(t), 1)
                     PROVE  FALSE
        <4>1. ld.at \in {"restore", "put"} /\ Published(drvOf(t), ld.i) => Published(drvOf(t), 1)
          <5>1. ld.at \in {"restore", "put"} => ld.i \in Nat \ {0} BY <2>0 DEF LoadInv
          <5> QED BY <5>1, <2>0 DEF Published
        <4> QED BY <4>1, <3>0, <3>1, <2>0 DEF MajorInv
      <3>3. PICK k \in 1 .. hookCount : hooks[k].drv = drvOf(t) /\ hooks[k].installed
        BY <3>2 DEF Published
      <3>4. HooksUp BY <3>2 DEF HooksUp, Building
      <3>5. Entered(t) /\ (Searched(t) \/ Took(t)) BY <2>1, <2>2
      <3>6. CASE w[t].at = "hook"
        <4>1. Known(drvOf(t)) = {} BY <2>2, <3>5, <3>6 DEF Searched, Took
        <4> QED BY <3>3, <4>1 DEF Known
      <3>7. CASE w[t].at = "found"
        <4>1. ~hooks[w[t].k].installed BY <2>2, <3>5, <3>7 DEF Searched, Took
        <4>2. w[t].k \in 1 .. hookCount /\ hooks[w[t].k].drv = drvOf(t)
          BY <3>4, <3>5, <3>7 DEF Entered
        <4>3. w[t].k = k BY <3>3, <3>4, <4>2, <2>0 DEF TableInv
        <4> QED BY <3>3, <4>1, <4>3
      <3> QED BY <2>2, <3>6, <3>7
    <2>3. ASSUME w[t].at \in {"through", "original"}, w'[t].at \in {"call", "check"}
          PROVE  w'[t].routine # Ours
      <3>1. Entered(t) /\ w'[t].routine = hooks[w[t].k].original
        BY <2>1, <2>3 DEF Searched, Took
      <3>2. \/ hooks[w[t].k].drv = drvOf(t) /\ GoodHook(w[t].k)
            \/ hooks[w[t].k].original = Null
        BY <2>0, <2>3, <3>1, EntryRoutine
      <3> QED BY <3>1, <3>2, RoutineFacts DEF GoodHook
    <2> QED BY <2>2, <2>3
  <1>2. Spec => [][A]_vars BY <1>1, Invariance, PTL DEF Spec
  <1> QED BY <1>2 DEF NoDeadLoop

-----------------------------------------------------------------------------
(* Marking.  BuildDiskAndHookTables goes through the partition numbers of  *)
(* every disk once, so it meets a device object once.  Were it to meet one *)
(* twice, HwReadWrite would go by its first map entry, which may be the    *)
(* one without a bitmap.                                                   *)
ScannedOnce == \A m, n \in 1 .. Len(Scan) : Scan[m] = Scan[n] => m = n

(* The map has one entry for a device, and only devices already scanned. *)
OnceInv ==
    /\ MapUp => \A j, l \in 1 .. mapCount : map[j].dev = map[l].dev => j = l
    /\ ld.at \in Building => \A j \in 1 .. mapCount : \E n \in 1 .. ld.i - 1 : map[j].dev = Scan[n]

(* Where a write to which a mark is owed can be before it has its mark. *)
Awaiting(t) ==
    \/ w[t].at \in {"lookup", "entry", "original", "check", "set"}
    \/ w[t].at = "call" /\ \/ w[t].routine = Ours
                           \/ w[t].routine = Foreign /\ saved[drvOf(t)] = Ours
DueInv ==
    \A t \in Writers : w[t].at # "out" /\ w[t].due =>
        ld.at = "loaded" /\ Tracked(w[t].dev) /\ (w[t].marked \/ Awaiting(t))

MarkInv == OnceInv /\ DueInv

(* The map keeps one entry for a device. *)
LEMMA OnceNext ==
    ASSUME ScannedOnce, IInv, OnceInv, Next
    PROVE  OnceInv'
  <1>0. /\ Kinds /\ LoadInv /\ MajorInv /\ mapCount \in 0 .. MaxMap /\ MaxMap \in Nat /\ ld.i \in Nat
        /\ map \in [1 .. MaxMap -> MapRec] /\ Len(Scan) \in Nat
    BY HookAssumption DEF IInv, Kinds
  <1>k. ASSUME mapCount' = mapCount, \A j \in 1 .. mapCount : map'[j].dev = map[j].dev,
               MapUp' => MapUp,
               ld'.at \in Building => ld.at \in Building /\ ld.i <= ld'.i, ld'.i \in Nat
        PROVE  OnceInv'
    <2>1. \A n \in 1 .. ld.i - 1 : ld.i <= ld'.i => n \in 1 .. ld'.i - 1 BY <1>k, <1>0
    <2> QED BY <1>k, <2>1 DEF OnceInv
  <1>u. /\ ld.at \notin {"zero", "unmap"} => MapUp
        /\ ld'.at \notin {"zero", "unmap"} => MapUp'
    BY DEF MapUp
  <1>1. CASE Loader
    <2>1. CASE DriverEntry
      <3>1. mapCount' = 0 BY <2>1, <1>0 DEF DriverEntry, LoadInv, tables
      <3> QED BY <3>1 DEF OnceInv
    <2>2. CASE FillMap
      <3>1. /\ mapCount' = mapCount /\ ld.at = "map" /\ ld'.i \in {ld.i, ld.i + 1}
            /\ map' = map \/ \E e : map' = [map EXCEPT ![mapCount + 1] = e]
        BY <2>2 DEF FillMap, Goto
      <3>2. \A j \in 1 .. mapCount : map'[j] = map[j] BY <3>1, <1>0
      <3> QED BY <3>1, <3>2, <1>0, <1>k, <1>u DEF Building
    <2>3. CASE CountMap
      <3>1. /\ mapCount' = mapCount + 1 /\ map' = map /\ ld' = [at |-> "scan", i |-> ld.i + 1]
            /\ map[mapCount + 1].dev = Scan[ld.i] /\ ld.i \in 1 .. Len(Scan)
            /\ ld.at \in Building
        BY <2>3, <1>0 DEF CountMap, Goto, LoadInv, Building
      <3>2. \A j \in 1 .. mapCount : \E n \in 1 .. ld.i - 1 : map[j].dev = Scan[n]
        BY <3>1 DEF OnceInv
      <3>3. \A j \in 1 .. mapCount : map[j].dev # map[mapCount + 1].dev
        <4>1. \A n \in 1 .. ld.i - 1 : n \in 1 .. Len(Scan) /\ n # ld.i BY <3>1, <1>0
        <4> QED BY <3>1, <3>2, <4>1 DEF ScannedOnce
      <3>4. \A j, l \in 1 .. mapCount' : map'[j].dev = map'[l].dev => j = l
        <4>1. \A j \in 1 .. mapCount' : j \in 1 .. mapCount \/ j = mapCount + 1 BY <3>1, <1>0
        <4>2. MapUp BY <3>1, <1>u DEF Building
        <4> QED BY <3>1, <3>3, <4>1, <4>2 DEF OnceInv
      <3>5. \A j \in 1 .. mapCount' : \E n \in 1 .. ld'.i - 1 : map'[j].dev = Scan[n]
        <4>1. \A j \in 1 .. mapCount' : j \in 1 .. mapCount \/ j = mapCount + 1 BY <3>1, <1>0
        <4>2. ld.i \in 1 .. ld'.i - 1 /\ \A n \in 1 .. ld.i - 1 : n \in 1 .. ld'.i - 1
          BY <3>1, <1>0
        <4> QED BY <3>1, <3>2, <4>1, <4>2
      <3> QED BY <3>4, <3>5 DEF OnceInv
    <2>4. CASE CleanupCbtState
      <3>1. /\ mapCount' = mapCount /\ ld'.at \in {"free", "zero"} /\ ld'.i \in Nat
            /\ map' = map \/ map' = [map EXCEPT ![ld.i].buffer = "null"]
            /\ MapUp
        BY <2>4, <1>0, <1>u DEF CleanupCbtState, Goto
      <3>2. ASSUME NEW j \in 1 .. mapCount PROVE map'[j].dev = map[j].dev
        <4>1. j \in 1 .. MaxMap /\ map[j] \in MapRec BY <1>0
        <4>2. map'[j] = map[j] \/ map'[j] = [map[j] EXCEPT !.buffer = "null"] BY <3>1, <4>1, <1>0
        <4> QED BY <4>1, <4>2 DEF MapRec
      <3> QED BY <3>1, <3>2, <1>0, <1>k DEF Building
    <2>5. CASE ZeroTables
      <3>0. ld.at = "zero" /\ ld.i \in 1 .. 4 /\ ld'.at \in {"zero", "unmap"} /\ ld'.i \in Nat
        <4>1. ld.at = "zero" /\ ld'.at \in {"zero", "unmap"} /\ ld'.i \in Nat
          BY <2>5, <1>0 DEF ZeroTables, Goto
        <4> QED BY <4>1, <1>0 DEF LoadInv
      <3>1. MapUp' => MapUp /\ map' = map /\ mapCount' = mapCount
        BY <2>5, <3>0 DEF ZeroTables, Goto, MapUp
      <3> QED BY <3>0, <3>1, <1>0, <1>k DEF OnceInv, Building
    <2>6. CASE FindOrCreateHookEntry \/ Exchange \/ Publish
      <3>1. /\ mapCount' = mapCount /\ map' = map /\ ld'.i \in Nat /\ ld.at \in Building
            /\ ld'.at = "loaded" \/ ld.i <= ld'.i
        BY <2>6, <1>0 DEF FindOrCreateHookEntry, Exchange, Publish, Goto, Building, tables
      <3> QED BY <3>1, <1>k, <1>u DEF Building
    <2>7. CASE Unload \/ Restore \/ Put \/ DeleteDevice
      <3>1. /\ mapCount' = mapCount /\ map' = map /\ ld'.i \in Nat /\ ld'.at \notin Building
            /\ MapUp
        BY <2>7, <1>0, <1>u DEF Unload, Restore, Put, DeleteDevice, Goto, Building, tables
      <3> QED BY <3>1, <1>k
    <2>8. CASE Unmap
      <3>1. mapCount' = 0 BY <2>8, <1>0 DEF Unmap, LoadInv, tables
      <3> QED BY <3>1 DEF OnceInv
    <2> QED BY <1>1, <2>1, <2>2, <2>3, <2>4, <2>5, <2>6, <2>7, <2>8 DEF Loader
  <1>2. ASSUME UNCHANGED <<map, mapCount, ld>> PROVE OnceInv'
    BY <1>2 DEF OnceInv, MapUp
  <1>3. CASE \E d \in Rivaled : ForeignHook(d) \/ ForeignUnhook(d)
    BY <1>0, <1>2, <1>3, ForeignSaved
  <1>4. CASE \E t \in Writers : Write(t)
    BY <1>0, <1>2, <1>4, WriteFrame
  <1> QED BY <1>1, <1>3, <1>4 DEF Next

(* A tracked device's write finds the entry with the bitmap. *)
LEMMA OneBitmap ==
    ASSUME OnceInv, MapUp, NEW dev, Tracked(dev), NEW j \in 1 .. mapCount, map[j].dev = dev
    PROVE  map[j].buffer = "ok"
  BY DEF OnceInv, Tracked

(* A write to which a mark is owed comes nearer to it with each step. *)
LEMMA WriteDue ==
    ASSUME IInv, MarkInv, NEW t \in Writers, Write(t), fault' = "none",
           w'[t].at # "out", w'[t].due
    PROVE  ld.at = "loaded" /\ Tracked(w'[t].dev) /\ (w'[t].marked \/ Awaiting(t)')
  <1>0. /\ Kinds /\ Entered(t) /\ OnceInv /\ DueInv /\ saved' = saved
    BY WriteFrame DEF IInv, EntryInv, MarkInv
  <1>1. CASE Issued(t)
    <2>1. ld.at = "loaded" /\ Tracked(w'[t].dev) /\ Hooked(drvOf(t)') BY <1>1 DEF Issued
    <2>2. Awaiting(t)' BY <1>0, <1>1, <2>1 DEF Issued, Awaiting, Hooked
    <2> QED BY <2>1, <2>2
  <1>2. CASE Moved(t)
    <2>0. /\ w'[t].dev = w[t].dev /\ drvOf(t)' = drvOf(t)
          /\ ld.at = "loaded" /\ Tracked(w[t].dev) /\ (w[t].marked \/ Awaiting(t))
      BY <1>0, <1>2 DEF Moved, DueInv
    <2>u. MapUp BY <2>0 DEF MapUp
    <2>1. CASE Called(t)
      <3>1. w[t].routine \in {Own(d) : d \in Drivers} => ~Awaiting(t)
        BY <2>1, RoutineFacts DEF Called, Awaiting
      <3>2. Awaiting(t) => Awaiting(t)'
        BY <2>0, <2>1, <3>1, <1>0, RoutineFacts DEF Called, Awaiting
      <3> QED BY <2>0, <2>1, <3>2 DEF Called
    <2>2. CASE Searched(t)
      <3>1. w'[t].marked = w[t].marked BY <2>2 DEF Searched
      <3>2. ~(w[t].at = "lookup" /\ w'[t].at = "hook")
        BY <2>0, <2>2 DEF Searched, Tracked
      <3>3. Awaiting(t) => Awaiting(t)' BY <2>2, <3>2 DEF Searched, Awaiting
      <3> QED BY <2>0, <3>1, <3>3
    <2>3. CASE Took(t)
      <3>1. w'[t].marked = w[t].marked BY <2>3 DEF Took
      <3>2. Awaiting(t) => Awaiting(t)' BY <2>3 DEF Took, Awaiting
      <3> QED BY <2>0, <3>1, <3>2
    <2>4. CASE Marking(t)
      <3>1. w[t].at \in {"check", "set"} BY <2>4 DEF Marking
      <3>2. map[w[t].j].buffer = "ok" BY <2>0, <2>u, <3>1, <1>0, OneBitmap DEF Entered
      <3>3. \/ w'[t].at = "set"
            \/ w'[t].marked = (map[w[t].j].buffer = "ok")
        BY <2>4, <3>2 DEF Marking
      <3> QED BY <2>0, <3>2, <3>3 DEF Awaiting
    <2> QED BY <1>2, <2>1, <2>2, <2>3, <2>4 DEF Moved
  <1>3. CASE Returned(t) BY <1>3 DEF Returned, Quiet
  <1>4. CASE Died(t) BY <1>4 DEF Died
  <1> QED BY <1>0, <1>1, <1>2, <1>3, <1>4, WriteCases

(* The marks that are owed, after any step. *)
LEMMA DueNext ==
    ASSUME IInv, MarkInv, Next
    PROVE  DueInv'
  <1>0. Kinds /\ MajorInv /\ OnceInv /\ DueInv BY DEF IInv, MarkInv
  <1>1. CASE Loader
    <2>1. CASE Unload
      <3>1. \A t \in Writers : w'[t].at # "out" => w'[t].due = FALSE BY <1>0, <2>1, UnloadWrites
      <3> QED BY <3>1 DEF DueInv
    <2>2. CASE ~Unload
      <3>1. w' = w BY <1>1, <2>2, LoaderFrame
      <3>2. ld.at # "loaded"
        BY <1>1, <2>2 DEF Loader, DriverEntry, FindOrCreateHookEntry, Exchange, Publish, FillMap,
             CountMap, Restore, Put, DeleteDevice, CleanupCbtState, ZeroTables, Unmap
      <3> QED BY <1>0, <3>1, <3>2 DEF DueInv
    <2> QED BY <2>1, <2>2
  <1>2. ASSUME NEW d \in Rivaled, ForeignHook(d) \/ ForeignUnhook(d) PROVE DueInv'
    <2>1. /\ UNCHANGED <<map, mapCount, ld, w>>
          /\ \A e \in Drivers : saved[e] # Null => saved'[e] = saved[e]
      BY <1>0, <1>2, ForeignSaved
    <2>2. ASSUME NEW t \in Writers, w[t].at # "out", Awaiting(t) PROVE Awaiting(t)'
      <3>1. drvOf(t) \in Drivers /\ drvOf(t)' = drvOf(t) BY <1>0, <2>1, <2>2, Busy DEF drvOf
      <3> QED BY <2>1, <2>2, <3>1, RoutineFacts DEF Awaiting
    <2> QED BY <1>0, <2>1, <2>2 DEF DueInv, Tracked
  <1>3. ASSUME NEW t \in Writers, Write(t) PROVE DueInv'
    <2>1. /\ UNCHANGED <<saved, map, mapCount, ld>> /\ \A u \in Writers \ {t} : w'[u] = w[u]
      BY <1>0, <1>3, WriteFrame, WriteOthers
    <2>2. ASSUME NEW u \in Writers, u # t, w'[u].at # "out", w'[u].due
          PROVE  ld'.at = "loaded" /\ Tracked(w[u].dev)' /\ (w'[u].marked \/ Awaiting(u)')
      BY <1>0, <2>1, <2>2 DEF DueInv, Tracked, Awaiting, drvOf
    <2>3. ASSUME w'[t].at # "out", w'[t].due
          PROVE  ld'.at = "loaded" /\ Tracked(w[t].dev)' /\ (w'[t].marked \/ Awaiting(t)')
      <3>1. CASE fault' = "none"
        <4>1. ld.at = "loaded" /\ Tracked(w'[t].dev) /\ (w'[t].marked \/ Awaiting(t)')
          BY <1>3, <2>3, <3>1, WriteDue
        <4> QED BY <4>1, <2>1 DEF Tracked
      <3>2. CASE fault' # "none"
        <4>2. w' = w BY <1>0, <1>3, <3>2, WriteCases DEF Issued, Moved, Returned, Died
        <4> QED BY <1>0, <2>1, <2>3, <4>2 DEF DueInv, Tracked, Awaiting, drvOf
      <3> QED BY <3>1, <3>2
    <2> QED BY <2>1, <2>2, <2>3 DEF DueInv, Tracked
  <1> QED BY <1>1, <1>2, <1>3 DEF Next

(* If the scan meets a device once, then for any number of drivers,        *)
(* devices, writers and table entries a write through the hook of a loaded *)
(* driver to a tracked device is marked before the disk's driver has done  *)
(* it, also when another driver hooks over it or removes its hook.         *)
THEOREM TrackedWritesAreMarked == ScannedOnce /\ Spec => []MarkedWhenLoaded
  <1>1. Init => MarkInv BY DEF Init, MarkInv, OnceInv, DueInv, Quiet
  <1>2. ASSUME ScannedOnce PROVE IInv /\ MarkInv /\ [Next]_vars => MarkInv'
    <2>1. ASSUME IInv, MarkInv, Next PROVE MarkInv'
      BY <1>2, <2>1, OnceNext, DueNext DEF MarkInv
    <2>2. ASSUME MarkInv, UNCHANGED vars PROVE MarkInv'
      BY <2>2 DEF vars, tables, MarkInv, OnceInv, MapUp, DueInv, Tracked, Awaiting, drvOf
    <2> QED BY <2>1, <2>2
  <1>3. IInv /\ MarkInv => MarkedWhenLoaded
    BY DEF MarkInv, DueInv, Awaiting, MarkedWhenLoaded
  <1>4. CASE ScannedOnce
    <2>1. IInv /\ MarkInv /\ [Next]_vars => MarkInv' BY <1>2, <1>4
    <2> QED BY <1>1, <1>3, <2>1, Invariance, PTL DEF Spec
  <1>5. CASE ~ScannedOnce BY <1>5
  <1> QED BY <1>4, <1>5
=============================================================================
