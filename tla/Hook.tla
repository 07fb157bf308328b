-------------------------------- MODULE Hook --------------------------------
(***************************************************************************)
(* How the driver comes between the system and the disk drivers: loading   *)
(* (DriverEntry, BuildDiskAndHookTables, FindOrCreateHookEntry), the write *)
(* path (HwReadWrite) and unloading (CbtUnload, CleanupCbtState).  Nothing *)
(* of it is locked: writes on any processor run through the tables while   *)
(* they are built and torn down, and another driver may hook the same      *)
(* routine at any moment.                                                  *)
(*                                                                         *)
(* A driver's MajorFunction[IRP_MJ_WRITE] holds its own routine, the other *)
(* driver's hook, or HwReadWrite.  The other driver's hook calls what it   *)
(* found when it was installed, and puts that back when it is removed.     *)
(***************************************************************************)
EXTENDS Integers, Sequences, FiniteSets

CONSTANTS
    Drivers,    \* disk drivers (disk.sys, vhdmp.sys)
    Devices,    \* device objects
    DriverOf,   \* DeviceObject->DriverObject
    Scan,       \* the devices BuildDiskAndHookTables meets, in order
    MaxHooked,  \* MAX_HOOKED_DRIVERS
    MaxMap,     \* MAX_DISK_MAP_ENTRIES
    StackMax,   \* entries of HwReadWrite that fit a kernel stack
    Writers,    \* threads that write
    Rivaled     \* drivers that another driver may hook too, once each

ASSUME HookAssumption ==
    /\ DriverOf \in [Devices -> Drivers]
    /\ Scan \in Seq(Devices)
    /\ Rivaled \subseteq Drivers
    /\ MaxHooked \in Nat /\ MaxMap \in Nat /\ StackMax \in Nat \ {0}

Own(d) == <<"own", d>>
Ours == <<"HwReadWrite">>
Foreign == <<"foreign">>
Null == <<"null">>
Routines == {Own(d) : d \in Drivers} \cup {Ours, Foreign, Null}

VARIABLES
    major,   \* MajorFunction[IRP_MJ_WRITE] of each driver
    saved,   \* what the other driver's hook on it calls
    hooks,   \* g_HookList
    hookCount,  \* g_HookListCount
    map,     \* g_DiskMap
    mapCount,   \* g_DiskMapCount
    ld,      \* the thread that loads and unloads: [at, i], i its loop variable
    w,       \* the writes, one per thread
    fault,   \* why the machine has stopped, or "none"
    culprit, \* the thread whose write stopped it, or "none"
    early    \* history: the threads whose writes were on their way through
             \* the hook when the last restore ended

health == <<fault, culprit>>
tables == <<hooks, hookCount, map, mapCount>>
vars == <<major, saved, tables, ld, w, health, early>>

NoHook == [drv |-> "none", original |-> Null, installed |-> FALSE]
NoMap == [dev |-> "none", hook |-> 0, buffer |-> "null"]
ZeroHooks == [k \in 1 .. MaxHooked |-> NoHook]
ZeroMap == [j \in 1 .. MaxMap |-> NoMap]
Quiet == [at |-> "out"]

Init ==
    /\ major = [d \in Drivers |-> Own(d)]
    /\ saved = [d \in Drivers |-> Null]
    /\ hooks = ZeroHooks /\ hookCount = 0
    /\ map = ZeroMap /\ mapCount = 0
    /\ ld = [at |-> "idle", i |-> 0]
    /\ w = [t \in Writers |-> Quiet]
    /\ fault = "none" /\ culprit = "none" /\ early = {}

(* The writes whose next instruction is in the driver's code. *)
Inside ==
    {t \in Writers : w[t].at \in {"lookup", "hook", "found", "through", "emergency",
                                  "entry", "original", "check", "set"}}

-----------------------------------------------------------------------------
(* Loading. *)

Goto(at, i) == ld' = [at |-> at, i |-> i]
Driver == DriverOf[Scan[ld.i]]  \* of the device in hand

DriverEntry ==
    /\ ld.at = "idle"
    /\ Goto("scan", 1)
    /\ UNCHANGED <<major, saved, tables, w, health, early>>

Known(d) == {k \in 1 .. hookCount : hooks[k].drv = d}

(* FindOrCreateHookEntry up to line 42: the entry exists, or there is no   *)
(* room, or a new one is filled in behind the last counted one.  A device  *)
(* that cannot be opened is passed over.                                   *)
FindOrCreateHookEntry ==
    /\ ld.at = "scan"
    /\ \/ /\ ld.i > Len(Scan)
          /\ Goto("loaded", 0) /\ hooks' = hooks
       \/ /\ ld.i <= Len(Scan)
          /\ Goto("scan", ld.i + 1) /\ hooks' = hooks
       \/ /\ ld.i <= Len(Scan) /\ Known(Driver) # {}
          /\ Goto("map", ld.i) /\ hooks' = hooks
       \/ /\ ld.i <= Len(Scan) /\ Known(Driver) = {} /\ hookCount >= MaxHooked
          /\ Goto("scan", ld.i + 1) /\ hooks' = hooks
       \/ /\ ld.i <= Len(Scan) /\ Known(Driver) = {} /\ hookCount < MaxHooked
          /\ hooks' = [hooks EXCEPT ![hookCount + 1] =
                         [drv |-> Driver, original |-> major[Driver], installed |-> FALSE]]
          /\ Goto("exchange", ld.i)
    /\ UNCHANGED <<major, saved, hookCount, map, mapCount, w, health, early>>

\* Mutant: the original routine is saved after the exchange.
ExchangeThenSave ==
    /\ ld.at = "exchange"
    /\ major' = [major EXCEPT ![Driver] = Ours]
    /\ hooks' = [hooks EXCEPT ![hookCount + 1].original = Ours]
    /\ Goto("publish", ld.i)
    /\ UNCHANGED <<saved, hookCount, map, mapCount, w, health, early>>

Exchange ==
    /\ ld.at = "exchange"
    /\ major' = [major EXCEPT ![Driver] = Ours]
    /\ Goto("publish", ld.i)
    /\ UNCHANGED <<saved, tables, w, health, early>>

(* The self-check, and the entry becomes visible to HwReadWrite. *)
Publish ==
    /\ ld.at = "publish"
    /\ hooks' = [hooks EXCEPT ![hookCount + 1].installed = (major[Driver] = Ours)]
    /\ hookCount' = hookCount + 1
    /\ Goto("map", ld.i)
    /\ UNCHANGED <<major, saved, map, mapCount, w, health, early>>

(* The entry FindOrCreateHookEntry returned. *)
HookOf == CHOOSE k \in Known(Driver) : \A l \in Known(Driver) : k <= l

\* Mutant: the limit of the map is not looked at.
FillMapNoLimit ==
    /\ ld.at = "map"
    /\ \E b \in {"ok", "null"} :
          map' = [map EXCEPT ![mapCount + 1] =
                    [dev |-> Scan[ld.i], hook |-> HookOf, buffer |-> b]]
    /\ Goto("count", ld.i)
    /\ UNCHANGED <<major, saved, hooks, hookCount, mapCount, w, health, early>>

(* The map entry with its bitmap; without a partition length or memory it  *)
(* has none, and the device is not tracked.                                *)
FillMap ==
    /\ ld.at = "map"
    /\ \/ /\ mapCount >= MaxMap
          /\ Goto("scan", ld.i + 1) /\ map' = map
       \/ /\ mapCount < MaxMap
          /\ \E b \in {"ok", "null"} :
                map' = [map EXCEPT ![mapCount + 1] =
                          [dev |-> Scan[ld.i], hook |-> HookOf, buffer |-> b]]
          /\ Goto("count", ld.i)
    /\ UNCHANGED <<major, saved, hooks, hookCount, mapCount, w, health, early>>

CountMap ==
    /\ ld.at = "count"
    /\ mapCount' = mapCount + 1
    /\ Goto("scan", ld.i + 1)
    /\ UNCHANGED <<major, saved, hooks, hookCount, map, w, health, early>>

-----------------------------------------------------------------------------
(* Unloading. *)

Unload ==
    /\ ld.at = "loaded"
    /\ Goto("restore", 1)
    /\ w' = [t \in Writers |-> IF w[t].at = "out" THEN w[t]
                               ELSE [w[t] EXCEPT !.due = FALSE]]
    /\ UNCHANGED <<major, saved, tables, health, early>>

(* Our hook is reachable from driver d. *)
Hooked(d) == major[d] = Ours \/ (major[d] = Foreign /\ saved[d] = Ours)

(* Threads that are in HwReadWrite, about to enter it, or to return to it. *)
Engaged ==
    Inside \cup {t \in Writers : \/ w[t].at = "call" /\ w[t].routine = Ours
                                 \/ w[t].at \in {"call", "done"} /\ w[t].depth > 0}

\* Mutant: the last entry is left out.
RestoreButLast ==
    /\ ld.at = "restore"
    /\ \/ /\ ld.i >= hookCount
          /\ Goto("delete", 0) /\ early' = Engaged
       \/ /\ ld.i < hookCount
          /\ IF hooks[ld.i].installed /\ major[hooks[ld.i].drv] = Ours
             THEN Goto("put", ld.i) ELSE Goto("restore", ld.i + 1)
          /\ early' = early
    /\ UNCHANGED <<major, saved, tables, w, health>>

(* One turn of the restore loop: only a hook that is still ours is taken   *)
(* out; one that is not installed, already gone, or under another driver's *)
(* hook is left alone.                                                     *)
Restore ==
    /\ ld.at = "restore"
    /\ \/ /\ ld.i > hookCount
          /\ Goto("delete", 0) /\ early' = Engaged
       \/ /\ ld.i <= hookCount
          /\ IF hooks[ld.i].installed /\ major[hooks[ld.i].drv] = Ours
             THEN Goto("put", ld.i) ELSE Goto("restore", ld.i + 1)
          /\ early' = early
    /\ UNCHANGED <<major, saved, tables, w, health>>

Put ==
    /\ ld.at = "put"
    /\ LET e == hooks[ld.i]
       IN  major' = [major EXCEPT ![e.drv] = e.original]
    /\ Goto("restore", ld.i + 1)
    /\ UNCHANGED <<saved, tables, w, health, early>>

(* The symbolic link and the control device. *)
DeleteDevice ==
    /\ ld.at = "delete"
    /\ Goto("free", 1)
    /\ UNCHANGED <<major, saved, tables, w, health, early>>

CleanupCbtState ==
    /\ ld.at = "free"
    /\ IF ld.i > mapCount THEN Goto("zero", 1) /\ map' = map
       ELSE /\ map' = [map EXCEPT ![ld.i].buffer = "null"]
            /\ Goto("free", ld.i + 1)
    /\ UNCHANGED <<major, saved, hooks, hookCount, mapCount, w, health, early>>

(* The tables go one after the other: the hooks, their count, the map, its *)
(* count.                                                                  *)
ZeroTables ==
    /\ ld.at = "zero"
    /\ hooks' = IF ld.i = 1 THEN ZeroHooks ELSE hooks
    /\ hookCount' = IF ld.i = 2 THEN 0 ELSE hookCount
    /\ map' = IF ld.i = 3 THEN ZeroMap ELSE map
    /\ mapCount' = IF ld.i = 4 THEN 0 ELSE mapCount
    /\ IF ld.i < 4 THEN Goto("zero", ld.i + 1) ELSE Goto("unmap", 0)
    /\ UNCHANGED <<major, saved, w, health, early>>

(* CbtUnload has returned and the system takes the driver's code away,     *)
(* also from under a write that is in it.                                  *)
Unmap ==
    /\ ld.at = "unmap"
    /\ Goto("idle", 0)
    /\ IF Inside = {} THEN UNCHANGED health
       ELSE fault' = "unmapped" /\ culprit' \in Inside
    /\ UNCHANGED <<major, saved, tables, w, early>>

Loader ==
    /\ fault = "none"
    /\ \/ DriverEntry \/ FindOrCreateHookEntry \/ Exchange \/ Publish \/ FillMap
       \/ CountMap \/ Unload \/ Restore \/ Put \/ DeleteDevice \/ CleanupCbtState
       \/ ZeroTables \/ Unmap

-----------------------------------------------------------------------------
(* The other driver. *)

ForeignHook(d) ==
    /\ fault = "none" /\ saved[d] = Null
    /\ saved' = [saved EXCEPT ![d] = major[d]]
    /\ major' = [major EXCEPT ![d] = Foreign]
    /\ UNCHANGED <<tables, ld, w, health, early>>

ForeignUnhook(d) ==
    /\ fault = "none" /\ major[d] = Foreign
    /\ major' = [major EXCEPT ![d] = saved[d]]
    /\ UNCHANGED <<saved, tables, ld, w, health, early>>

-----------------------------------------------------------------------------
(* A write. *)

Step(t, r) == w' = [w EXCEPT ![t] = r] /\ UNCHANGED health
Die(t, cause) == fault' = cause /\ culprit' = t /\ w' = w
drvOf(t) == DriverOf[w[t].dev]

(* The device is tracked: its entry is counted and has a bitmap. *)
Tracked(dev) == \E j \in 1 .. mapCount : map[j].dev = dev /\ map[j].buffer = "ok"

(* The system calls the driver's write routine. *)
Issue(t) ==
    /\ w[t].at = "out"
    /\ \E dev \in Devices :
          Step(t, [at |-> "call", dev |-> dev, routine |-> major[DriverOf[dev]],
                   j |-> 0, k |-> 0, depth |-> 0, marked |-> FALSE,
                   due |-> ld.at = "loaded" /\ Tracked(dev)
                             /\ Hooked(DriverOf[dev])])
    /\ UNCHANGED <<major, saved, tables, ld, early>>

(* A routine is called; HwReadWrite may be called from itself or may no    *)
(* longer be there, and a zeroed hook entry has no routine.                *)
Call(t) ==
    LET r == w[t].routine
    IN  /\ w[t].at = "call"
        /\ \/ /\ r \in {Own(d) : d \in Drivers}
              /\ Step(t, [w[t] EXCEPT !.at = "done"])
           \/ /\ r = Foreign
              /\ Step(t, [w[t] EXCEPT !.routine = saved[drvOf(t)]])
           \/ r = Null /\ Die(t, "zeroed")
           \/ r = Ours /\ ld.at = "idle" /\ Die(t, "unmapped")
           \/ r = Ours /\ ld.at # "idle" /\ w[t].depth = StackMax /\ Die(t, "overflow")
           \/ /\ r = Ours /\ ld.at # "idle" /\ w[t].depth < StackMax
              /\ Step(t, [w[t] EXCEPT !.at = "lookup", !.depth = @ + 1])
        /\ UNCHANGED <<major, saved, tables, ld, early>>

\* Mutant: the newest map entry is not looked at.
LookupButLast(t) ==
    LET found == {j \in 1 .. mapCount - 1 : map[j].dev = w[t].dev}
    IN  /\ w[t].at = "lookup"
        /\ \/ /\ found = {}
              /\ Step(t, [w[t] EXCEPT !.at = "hook"])
           \/ \E j \in found :
                 /\ \A l \in found : j <= l
                 /\ Step(t, [w[t] EXCEPT !.at = "entry", !.j = j])
        /\ UNCHANGED <<major, saved, tables, ld, early>>

Lookup(t) ==
    LET found == {j \in 1 .. mapCount : map[j].dev = w[t].dev}
    IN  /\ w[t].at = "lookup"
        /\ \/ /\ found = {}
              /\ Step(t, [w[t] EXCEPT !.at = "hook"])
           \/ \E j \in found :
                 /\ \A l \in found : j <= l
                 /\ Step(t, [w[t] EXCEPT !.at = "entry", !.j = j])
        /\ UNCHANGED <<major, saved, tables, ld, early>>

\* Mutant: the first hook entry is taken, whoever's it is.
SearchFirst(t) ==
    /\ w[t].at = "hook"
    /\ Step(t, IF hookCount = 0 THEN [w[t] EXCEPT !.at = "emergency"]
               ELSE [w[t] EXCEPT !.at = "found", !.k = 1])
    /\ UNCHANGED <<major, saved, tables, ld, early>>

\* Mutant: the newest hook entry is not looked at.
SearchButLast(t) ==
    LET found == Known(drvOf(t)) \ {hookCount}
    IN  /\ w[t].at = "hook"
        /\ \/ /\ found = {}
              /\ Step(t, [w[t] EXCEPT !.at = "emergency"])
           \/ \E k \in found :
                 /\ \A l \in found : k <= l
                 /\ Step(t, [w[t] EXCEPT !.at = "found", !.k = k])
        /\ UNCHANGED <<major, saved, tables, ld, early>>

(* The device is not in the map: its driver is looked for in the hook      *)
(* table.  (Entries are only added behind, and go before the counts do: a  *)
(* search that takes its time finds what one at its end would.)            *)
SearchHooks(t) ==
    LET found == Known(drvOf(t))
    IN  /\ w[t].at = "hook"
        /\ \/ /\ found = {}
              /\ Step(t, [w[t] EXCEPT !.at = "emergency"])
           \/ \E k \in found :
                 /\ \A l \in found : k <= l
                 /\ Step(t, [w[t] EXCEPT !.at = "found", !.k = k])
        /\ UNCHANGED <<major, saved, tables, ld, early>>

(* HookInstalled of the entry found. *)
Installed(t) ==
    /\ w[t].at = "found"
    /\ Step(t, [w[t] EXCEPT !.at = IF hooks[w[t].k].installed THEN "through" ELSE "emergency"])
    /\ UNCHANGED <<major, saved, tables, ld, early>>

(* OriginalWrite of the entry found, to be called at once. *)
PassThrough(t) ==
    /\ w[t].at = "through"
    /\ Step(t, [w[t] EXCEPT !.at = "call", !.routine = hooks[w[t].k].original])
    /\ UNCHANGED <<major, saved, tables, ld, early>>

(* The emergency passthrough: whatever the driver's routine is now. *)
Emergency(t) ==
    /\ w[t].at = "emergency"
    /\ Step(t, [w[t] EXCEPT !.at = "call", !.routine = major[drvOf(t)]])
    /\ UNCHANGED <<major, saved, tables, ld, early>>

(* The hook entry of the map entry, which unloading may have zeroed. *)
Entry(t) ==
    LET e == map[w[t].j]
    IN  /\ w[t].at = "entry"
        /\ \/ e.hook = 0 /\ Die(t, "zeroed")
           \/ e.hook # 0 /\ Step(t, [w[t] EXCEPT !.at = "original", !.k = e.hook])
        /\ UNCHANGED <<major, saved, tables, ld, early>>

(* OriginalWrite of that entry, to be called after the mark. *)
Original(t) ==
    /\ w[t].at = "original"
    /\ Step(t, [w[t] EXCEPT !.at = "check", !.routine = hooks[w[t].k].original])
    /\ UNCHANGED <<major, saved, tables, ld, early>>

(* MarkBlockChanged: no bitmap, no mark. *)
Check(t) ==
    /\ w[t].at = "check"
    /\ Step(t, [w[t] EXCEPT !.at = IF map[w[t].j].buffer = "ok" THEN "set" ELSE "call"])
    /\ UNCHANGED <<major, saved, tables, ld, early>>

(* The bits are set; in freed memory this goes unnoticed or stops the      *)
(* machine.                                                                *)
Set(t) ==
    /\ w[t].at = "set"
    /\ \/ Step(t, [w[t] EXCEPT !.at = "call", !.marked = (map[w[t].j].buffer = "ok")])
       \/ map[w[t].j].buffer # "ok" /\ Die(t, "freed")
    /\ UNCHANGED <<major, saved, tables, ld, early>>

(* The driver's routine returns, through HwReadWrite unless the compiler   *)
(* made its call a jump.                                                   *)
Return(t) ==
    /\ w[t].at = "done"
    /\ \/ Step(t, Quiet) /\ early' = early \ {t}
       \/ w[t].depth > 0 /\ ld.at = "idle" /\ Die(t, "unmapped") /\ early' = early
    /\ UNCHANGED <<major, saved, tables, ld>>

Write(t) ==
    /\ fault = "none"
    /\ \/ Issue(t) \/ Call(t) \/ Lookup(t) \/ SearchHooks(t) \/ Installed(t)
       \/ PassThrough(t) \/ Emergency(t) \/ Entry(t) \/ Original(t) \/ Check(t)
       \/ Set(t) \/ Return(t)

Next ==
    \/ Loader
    \/ \E d \in Rivaled : ForeignHook(d) \/ ForeignUnhook(d)
    \/ \E t \in Writers : Write(t)

Spec == Init /\ [][Next]_vars
-----------------------------------------------------------------------------
(* Properties. *)

TypeOK ==
    /\ major \in [Drivers -> Routines \ {Null}]
    /\ saved \in [Drivers -> Routines \ {Foreign}]
    /\ hooks \in [1 .. MaxHooked -> [drv : Drivers \cup {"none"}, original : Routines,
                                    installed : BOOLEAN]]
    /\ map \in [1 .. MaxMap -> [dev : Devices \cup {"none"}, hook : 0 .. MaxHooked,
                                buffer : {"ok", "null"}]]
    /\ hookCount \in 0 .. MaxHooked /\ mapCount \in 0 .. MaxMap
    /\ ld \in [at : {"idle", "scan", "exchange", "publish", "map", "count", "loaded",
                     "restore", "put", "delete", "free", "zero", "unmap"}, i : Nat]
    /\ \A t \in Writers :
          \/ w[t] = Quiet
          \/ w[t] \in [at : {"call", "lookup", "hook", "found", "through", "emergency",
                              "entry", "original", "check", "set", "done"},
                        dev : Devices, routine : Routines, j : 0 .. MaxMap,
                        k : 0 .. MaxHooked, depth : 0 .. StackMax, marked : BOOLEAN, due : BOOLEAN]
    /\ fault \in {"none", "overflow", "unmapped", "zeroed", "freed"}
    /\ culprit \in Writers \cup {"none"} /\ early \subseteq Writers

(* What keeps a write from going round in HwReadWrite (write.c:43-58): the *)
(* emergency passthrough is taken on a driver whose hook is in place only  *)
(* when the hook table was searched in the moment before the entry was     *)
(* counted, and a hook entry holds HwReadWrite itself as the original, only*)
(* where another driver has hooked over our hook.                          *)
NoDeadLoop ==
    [][\A t \in Writers :
          LET d == drvOf(t)
          IN  /\ w[t].at \in {"hook", "found"} /\ w'[t].at = "emergency" /\ Hooked(d)
                   => (ld.at = "publish" /\ Driver = d) \/ saved[d] = Ours
              /\ w[t].at \in {"through", "original"} /\ w'[t].at \in {"call", "check"}
                   => w'[t].routine # Ours \/ saved[d] = Ours]_vars

(* The remark at write.c:56-58: when the driver is not in the hook table,  *)
(* or its entry is not installed, the routine the emergency passthrough    *)
(* calls is not HwReadWrite.  This is false while the hook is being        *)
(* published; NoDeadLoop says what holds.                                  *)
EmergencyNotOurs ==
    [][\A t \in Writers :
          w[t].at = "emergency" /\ w'[t].at = "call" => w'[t].routine # Ours]_vars

(* A write that the system issues through the hook of a loaded driver, to  *)
(* a tracked device, is marked before the disk's driver has done it.       *)
MarkedWhenLoaded ==
    \A t \in Writers :
        w[t].at = "done" /\ w[t].due /\ ld.at = "loaded" => w[t].marked

(* Whatever tables it went through, a write ends in the routine of the     *)
(* driver of its own device (write.c:90-92).                               *)
RightRoutine ==
    \A t \in Writers : w[t].at = "done" => w[t].routine = Own(drvOf(t))

(* Unloading stops the machine only through a write that was already on    *)
(* its way through HwReadWrite when the restore loop ended (CbtUnload does *)
(* not wait for those), or one to a driver whose hook the loop had to      *)
(* leave because another driver has hooked over it.                        *)
UnloadSafe ==
    fault \in {"unmapped", "zeroed", "freed"} =>
        culprit \in early \/ saved[drvOf(culprit)] = Ours

(* The claim of CleanupCbtState (bitmap.c:72-73): by then "all hooks have  *)
(* been restored, so no new writes will enter HwReadWrite".  This is false *)
(* for writes that read the routine before, and for those that come        *)
(* through another driver's hook; UnloadSafe says what holds.              *)
NoNewWrites ==
    [][\A t \in Writers :
          ld.at = "free" /\ w'[t].at = "lookup" => w[t].at = "lookup"]_vars
=============================================================================
