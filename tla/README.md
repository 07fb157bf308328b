# A TLA+ verification of go2cbt

go2cbt backs up Windows disks incrementally. A kernel driver records which
1 MB blocks of a disk were written (changed block tracking, CBT); a client
reads the blocks and sends them to a server, which keeps an image of each
disk. This project models the parts of that system where threads, processes
and failures meet, checks them with TLC on small instances, and proves the
safety properties that the runs check, and both refinements, with TLAPS for
instances of every size.

Paths such as `client/BackupEngine.cpp` are relative to `src/`.
`PROJECT.json` maps every definition to the lines it models.

## The system

| Part | State | Operations | What is hard |
| --- | --- | --- | --- |
| **Driver: bitmap** (`go2cbt/go2cbt.h`, `bitmap.c`, `ioctl.c`, `write.c`) | one bitmap and one spinlock per disk | mark a written range, copy the bitmap (query), clear it (reset) | writes on all CPUs at once; the bitmap routines load and store whole words; unsigned arithmetic on offsets |
| **Driver: hooks** (`go2cbt/go2cbt.c`, `hook.c`, `write.c`) | table of hooked drivers, table of disks, two counts | replace `IRP_MJ_WRITE` of the disk drivers at load, look a write's device up, restore the routine at unload | writes run through the hook, without any lock, while the tables are built and torn down; other drivers hook the same routine |
| **Client: full backup** (`client/BackupEngine.cpp`, `NetworkClient.cpp`) | window of slots, in-flight counter, error flag, statistics | acquire a slot, read, hash, compress, send; an ACK thread receives answers and frees slots | two threads over one mutex, two atomics and one condition variable; a network that breaks |
| **Client: incremental transfer** (same files) | the block, the retry counter, the connection flag | send a block, wait for its answer, retry | late answers, timeouts, retries of what was already stored |
| **Client: orchestration** (`BackupEngine.cpp`, `CbtClient.cpp`) | none of its own | query bits, snapshot, transfer, reset bits | writes go on during all of it; the reset is unconditional |
| **Client: block state** (`BlockStateManager.cpp`) | block states, versions, dirty flag; the state file | create a version, set up full or incremental blocks, record answers, save, load | the process dies in the middle of a save; the ACK thread records answers meanwhile |
| **Client: VSS** (`VssManager.cpp`, `VolumeMapper.cpp`, `DiskParser.cpp`) | the interface, the identifiers and paths of the snapshot set | initialize, start, add volumes, create, choose the source, clean up | every call may fail, every wait may time out while the service goes on; `cleanup-shadows` deletes all sets |
| **Server** (`server/*.cpp`) | connections with receive and send buffers, open image files | accept, receive, parse, handle HELLO, DATA_BLOCK and BYE, answer, shut down | non-blocking sockets, partial messages and sends, connections closed inside a handler, a signal handler that runs `Stop`, the page cache |
| Discovery, hashing, compression, logging, command lines | none that the backup depends on | parse, convert, print | sequential code around system libraries |

How they interact: the client calls the driver through two device controls
(query, reset); the client and the server exchange HELLO, DATA_BLOCK, ACK and
BYE over one TCP connection per disk; inside the client the main thread and the
ACK thread share the window and the block states.

What makes each part correct:

- bitmap: every write whose mark has returned is reported by every later query,
  until a reset; queries and resets are atomic;
- full backup: what is recorded as stored is stored; the counters of the window
  stay exact; no notification is lost for good; the backup ends;
- incremental transfer: an answer is taken for the block it belongs to; the
  transfer ends;
- block state: the file is always the saved state of one moment; counters agree
  with the block records;
- orchestration: a changed block is reported until a backup holds it;
- hooks: a write ends in the routine of its own disk driver, marked if its disk
  is tracked; loading and unloading do not bring the machine down;
- VSS: a backup reads a snapshot that exists, ends although the service may not
  answer, and leaves nothing behind;
- server: messages are handled in order, each is answered once, answers keep
  their order and leave the buffer; an acknowledged block is in the image.

## The modules

| Module | Models | Role |
| --- | --- | --- |
| `CbtLayout` | the arithmetic of `MarkBlockChanged` and `InitCbtState` | pure operators, with the reference definition `Touched` |
| `ChangeSet` | what the bitmap promises | abstract specification |
| `CbtBitmap` | `MarkBlockChanged`, `HandleIoctlQuery`, `HandleIoctlReset`, word by word under the spinlock | implements `ChangeSet` |
| `MCCbtBitmap` | | instance for TLC |
| `CbtBitmap_proofs` | | theorems on `CbtLayout` and `CbtBitmap` |
| `Hook`, `MCHook`, `Hook_proofs` | loading, write path and unloading of the driver | instance for TLC; theorems |
| `Pipeline`, `Pipeline_proofs` | `FullBackup` from the connection on: both threads, the network, the server's answers | theorems |
| `Transfer`, `Transfer_proofs` | `TransferBlocks` over `SendBlock` | theorems |
| `StateFile`, `MCStateFile`, `StateFile_proofs` | `BlockStateManager` and its file | instance for TLC; theorems |
| `VssManager`, `MCVssManager`, `VssManager_proofs` | the snapshot set of a backup from `Initialize` to the destructor | instance for TLC; theorems |
| `AckChannel` | what a client may rely on when it talks to the server | abstract specification |
| `Server`, `MCServer`, `Server_proofs` | the server: event loop, buffers, parser, handlers, image files, shutdown | implements `AckChannel`; instance for TLC; theorems |
| `BackupCycle` | backup after backup of one disk: `BackupDisk`, `IncrementalBackup`, `FullBackup`, `CbtClient`, against writes, driver and reboots | composes what the modules above promise |
| `MCBackupCycle`, `BackupCycle_proofs` | | instance for TLC; theorems |

### CbtLayout, CbtBitmap, ChangeSet

`CbtLayout` fixes a disk (`DiskSize`, `BlockSize`) and the width of the
arithmetic (`Wrap`, standing for 2^64). `MarkRange` is the set of bits
`RtlSetBits` is asked to set, with the two early returns of `MarkBlockChanged`;
`Touched` is the set of blocks that hold a written byte.

`CbtBitmap` runs any number of kernel threads. `Enter` is a write that reaches
`HwReadWrite`, or a device control; `Reject` is an early return; `Acquire` takes
the spinlock; then `SetLoad`/`SetStore` (one word of `RtlSetBits`), `Clear`
(`RtlClearAllBits`) or `Copy` (`RtlCopyMemory`) go through the words, and the
last word releases the lock. The history variable `owed` collects the blocks of
marks that have returned since the last reset took the lock.

`ChangeSet` is the promise: a set on which mark, query and reset act at one
instant between call and return. The refinement mapping lets an operation take
effect at `Acquire`: a mark under way counts as done, a reset as cleared, a
query as copied.

A write of length 0 at offset 0 wraps round and marks the whole disk, although
the comment in `MarkBlockChanged` takes zero-length ranges for empty. That only
reports too much, and `ChangeSet` allows it for empty writes alone.

### Hook

One thread loads and unloads (`ld`), any number of threads write (`w`), another
driver may hook a routine and unhook it (`ForeignHook`, `ForeignUnhook`). The
steps of the loader are the accesses to shared memory, in the code's order: an
entry is filled in, the routine exchanged, the entry counted
(`FindOrCreateHookEntry`, then the steps at "exchange" and "publish"), the map
entry filled in and counted; at unload the routines are restored one by one, the
device deleted, the bitmaps freed, the two tables and their counts zeroed one
after the other (`ZeroTables`), the code unmapped. A write looks its device up
(`Lookup`), reads its map entry and that entry's hook (`Entry`, `Original`),
marks (`Check`, `Set`) and calls the original routine; or, when the device is not
in the map, it searches the hook table (`SearchHooks`), tests what it found
(`Installed`) and takes its original routine (`PassThrough`) or, having found
none, whatever routine the driver has by then (`Emergency`). These are separate
steps because the loader may publish, restore or zero in between. Whatever is
undefined ends in a `fault`, with the thread that met it as the `culprit`: code
that is gone, a zeroed table, freed memory, a stack that overflows. When the
driver is loaded again, it is at the same address: a stale pointer to
`HwReadWrite` leads into the new one.

Two remarks in the code are not true as they stand; the module states each, and
next to it a property that says what is true:

- `write.c:58` says that the emergency passthrough does not find `HwReadWrite`
  (`EmergencyNotOurs`, false). A write that searches the table between the
  exchange of the routine and the count of its entry does, and turns in a circle
  until the entry is counted or the stack is used up. `NoDeadLoop` says that
  this moment, and another driver's hook over ours, are the only ways to get
  there, and that an original routine is `HwReadWrite` only in the latter case.
- `bitmap.c:72` says that no write enters the hook once the routines are restored
  (`NoNewWrites`, false). `UnloadSafe` says that the machine stops only
  through a write that was on its way into or through the hook when the restore
  loop ended (`early`; nothing counts or awaits such writes), or through a write
  to a driver whose hook the loop had to leave because another driver has
  hooked over it.

### Pipeline

One variable per piece of shared state: the slots (`inUse`, `idx`), the two
atomics (`inFlight`, `perr`), the block states, the statistics, the socket.
A step of a thread ends where the other can notice it: so taking a slot
(`Acquire`) and giving it its number (`Tag`) are two steps, as are the send and
the count, freeing a slot and clearing its buffers, the decrement and the
notification. Waiting on the condition variable is modelled in full: the
predicate is evaluated under the mutex (`Acquire`, `WaitForAllAcks`), the thread
goes to sleep (`Doze`), and a notification wakes only a thread that is asleep.

The server is external here: `Serve` is what `BlockProcessor::Process` does to
the image and answers (stored; refused; refused after a short write that tore
the block), `Break` loses the blocks on their way and a tail of the answers.
A failed send may have got through.

Two threads freeing the same vector is undefined behaviour: `Racing` is that
state, `Crash` its worst outcome.

### Transfer

The same network, with one thread: `Block` reads and compresses, `Try` sends,
`ReceiveAck` takes the next answer on the stream whatever block it names,
`RecvFails` is the timeout or the closed socket, `Result` records the answer and
decides on the retry. `tx` counts the transmissions of a block.

### StateFile

The members of `BlockStateManager` and the two files. Every method is one step
under `m_mutex`, except `Save`, whose file operations are steps between which
the process may die (`Crash`) and at which another thread waits for the mutex.
On a volume that fills up, any end of the temporary file may be missing, or all
of it (`Parts`): `Save` looks at the result of no `WriteFile`. A checksum is
modelled by what it covers: two checksums over different lengths of a header
differ. Hashes are left out, versions are reduced to their two counters.

`SetBlockAckRange` takes any status for any block, as the code does. What the
backups record through it is narrower (`RegularAnswer`: acknowledged or failed,
for a block that waits for its answer or already has this one); the history
variable `regular` says that there was nothing else so far, and `AckCountExact`
and `ResumePointSafe` are stated for such histories. `SkippedNotPending` is what
the documentation and a test say of the status Skipped, and is false; so is
`AtomicCommit`, what a comment and the documentation say of `Save`, on a volume
that fills up.

### VssManager

The members of `VssManager`, the operation the service works on (`async`), the
snapshots that exist (`snaps`) and the depth of COM initialization (`com`).
`Begin` maps the volumes of a freshly parsed disk; one action per call of the
interface follows, each with its failing branch, and `Cleanup`,
`DeleteSnapshots`, `Uninitialize`, `Destroy` on every way out.
`WaitForAsyncOperation` is the polling loop: one step per poll, a timeout after
`Polls` of them. The service finishes, fails or cancels at any time or never
(`ServiceEnds`), also after the client has given the set up (`ServiceLate`).
`Die` ends the process; `DeleteOrphanedSnapshots` is `cleanup-shadows` in
another process.

The service is not part of the repository. The model takes of it what the code
relies on: a set is made as a whole or not at all, `DeleteSnapshots` finds a set
by the identifier of the set, and snapshots that are not persistent end with the
last reference to the interface (`docs/VssManager.md:255`).

Things the module shows as they are in the code:

- `AddVolumeToSnapshotSet` overwrites the identifier of the set with that of a
  snapshot (line 433), so the `DeleteSnapshots` of `Cleanup` (line 877) never
  finds the set: only the release of the interface removes the snapshots;
- a failed `Initialize` does not undo `CoInitializeEx` (`leaked`);
- an error that only `hrResult` carries does not end the wait, which goes on to
  its timeout;
- `cleanup-shadows` deletes the set of a running backup too (`swept`).

### AckChannel, Server

`AckChannel` is the view of a client: messages of a connection are handled one
at a time in their order, each that asks for an answer gets one, answers come
back in that order; the end of a connection loses what is not handled and a tail
of the answers. `Pipeline` and `Transfer` rest on it.

`Server` is the one thread of `Server.cpp`. A message is as many units as
`TryParse` tells apart, so that it arrives in pieces; `HandleConnReadable`
receives until the socket is empty, `ProcessMessages` handles one message per
step, with the resynchronisation after bytes that start no header,
`AfterRead` is the EPOLLOUT half of an event (`Drain`, arming and disarming).
A handler may close the connection. `Stop` is the signal handler: it runs
between any two steps of the thread, and when it falls into a handler the
handler goes on in a destroyed `Conn` or the logger waits for its own mutex
("crashed", "hung"). `cache` and `disk` are the image as the operating system
and as the disk hold it; only `CloseAll` syncs, `PowerLoss` takes the rest.

Two statements of `docs/ServerDesign.md` are not what the code does, and the
module follows the code: an acknowledged block is not yet on the disk (line 34
says that it is: `AckedIsDurable`, false), and an unknown device in HELLO
closes the connection (line 404 says that it stays). `AckedSurvives` is what
holds: an acknowledged block is in the image unless its last write has failed
(`torn`), and after a loss of power if `CloseAll` had synced the image.

### BackupCycle

One disk, the driver's bits (the atomic set of `ChangeSet`), the server's image
and one backup at a time, full or incremental, each step of which may fail as
the code's early returns do (`Connect`, `Query`, `Snapshot`, `State`, `Server`,
`Hash`, `Send`, `EndFull`, or `Reset` and `EndIncremental`). A write is marked when it is issued
(`Write`) and lands later (`Land`). A block that was sent is on the `wire` until
the server stores it, tears it or the connection loses it, even if the client
is gone by then; at most one block is on its way at a time. `LoadDriver`,
`UnloadDriver`, `OperatorReset` (the `cbtctl` tool), `ClientCrash` and `Reboot`
come at any time.

Three habits of the code are modelled as they are:

- the data source is the snapshot of the first volume, read at offsets of the
  disk (`Source`); it is aligned with the image only if that volume starts at
  block 0, or if the disk has no volume and is read itself;
- the hashes of an incremental backup are computed with a manifest whose
  offsets are all zero (`Hash`), so the server accepts a block only if it
  equals block 0, or if an earlier hash fits by chance;
- the block records of an incremental backup are those of the state file, which
  `Load` rejects (`StateFile`); the model also allows the lucky case.

A dry run is a backup whose sends do not happen. The history variables `base`,
`fresh` and the `reported` flag on the wire say for which blocks every write
since their data was taken is reported; `seen` holds the bits of the last query
until its backup has reset the bitmap or succeeded. The reset (`Reset`) and the
end of the backup (`EndIncremental`) are two steps: a client that dies in
between has lost its bits and its records. `FailureKeepsBits` is about every
earlier end.

What a reset, an unload or a reboot takes away is not owed by `BitsCoverStale`:
it empties `base`. That the changes of the blocks in question are then in no
backup is what `cycle_reset` shows for the reset of a backup; for the others
nothing in the repository says otherwise.

## The runs

Passing runs:

- **bitmap** (`MCCbtBitmap`): three threads, four blocks (the last one partial)
  in two words; the writes hit one block, two blocks in two words, the end of
  the disk, the space behind it, and the empty range at offset 0. Three threads
  are the fewest with a mark, a reset and a query at once; two words the fewest
  with an operation interrupted between them. Threads are symmetric.
  `NoLostSet` and the refinement `Atomic` hold.
- **pipeline**: three blocks over a window of two (so a slot is reused while
  the other is in flight), a save every second block, any failure of disk,
  compressor, network and server at any time. `WindowBound`, `InFlightExact`,
  `SlotNotStolen` and `SlotWakeup` are about the two threads, `AckedMeansStored`
  and `StatsHonest` about what is recorded, `CleanRunComplete` about a run
  without failures, `Terminates` is the liveness property.
- **transfer**: three blocks, two retries. `AnswerIsOwn` holds because a
  timeout ends the connection; `AckedMeansStored`, `SentCountExact`,
  `CleanRunComplete` and `Terminates` as above.
- **state_file** (`MCStateFile`): two blocks and two versions, each set up as a
  full or an incremental one, any answers to any blocks (also late ones to a
  block of the older version), saves on a volume that may fill up at any record
  of the two tables, crashes. `CommitOfOneState`, `CleanMeansSaved`,
  `AckCountExact`, `ResumePointSafe`. The view of the run leaves out the records
  of a file that nothing looks at any more: `Load` rejects every file, and the
  properties compare the file with the memory only until that changes.
- **cycle** (`MCBackupCycle`): two blocks with two contents, in a byte of three
  bits; every position of the first volume. Two blocks are the fewest with one
  changed and one unchanged, or a volume that does not start at block 0; the
  byte has more bits than the disk has blocks. Contents are symmetric.
  `BitsCoverStale` relates image, disk and bits across writes that land late,
  old snapshots and late stores; `FailureKeepsBits` says what a backup that
  fails before its reset leaves for the next.

- **hook** (`MCHook`): three disk drivers, five devices (two of one driver; one
  device past the limit of each table; one created after the scan), one writer,
  one driver with a rival. One writer is enough because writes only read the
  tables. Loads and unloads repeat.
- **vss** (`MCVssManager`): two volumes in any layout over two partitions, waits
  of two polls, three backups, so that a backup follows one that left something
  behind. `NothingLeft`, `SourceIsLive`, and the liveness property `BackupEnds`.
- **server** (`MCServer`): one client with three messages, or two with one each,
  of every kind; a receive buffer just larger than the longest message and a
  socket that takes one answer, so that receives and sends are cut everywhere.
  The refinement `InOrder`, `RecvNeverFull`, `AckedSurvives`, and the liveness
  property `Answered`.

Runs that show where the code and what is said of it differ:

- **pipeline_success**: `FullBackup` returns true with blocks missing.
- **state_file_round_trip**: `Load` rejects every file `Save` writes.
- **cycle_reset**: the bitmap is reset after a backup that stored nothing.
- **cycle_parse**: the client reads the bits of a byte from the highest, the
  driver writes them from the lowest; the wrong blocks are backed up.

Five more statements of the code and its documentation are not what the code
does. They are stated in the modules and checked by no run of their own, as each
run has properties next to them that say what does hold; in the instance of the
run TLC refutes each of them in seconds.

| Statement | Where it is made | What happens |
| --- | --- | --- |
| `AtomicCommit` (`StateFile`) | `BlockStateManager.cpp:531` "写入中断时原始文件不受影响", `docs/BlockStateManager.md:252` "崩溃时: 不存在半写文件" | on a full volume `Save`, which looks at the result of no `WriteFile`, replaces the good file by a truncated one and takes it for saved |
| `SkippedNotPending` (`StateFile`) | `docs/BlockStateManager.md:326` "自动过滤 Skipped", test `GetPendingBlocks_OnlyReturnsNeedsUpload` (`tests/test_BlockStateManager.cpp:411`) | a changed block that is set to Skipped stays pending, while `GetLastAcknowledgedBlock` passes it over |
| `AckedIsDurable` (`Server`) | `docs/ServerDesign.md:34` "ACK = 数据已持久化，可恢复" | an acknowledged block is in the page cache until `CloseAll` and is lost with the power of the machine |
| `EmergencyNotOurs` (`Hook`) | the comment at `write.c:56-58` | the emergency passthrough calls `HwReadWrite` again while the hook is being published |
| `NoNewWrites` (`Hook`) | `bitmap.c:72` "no new writes will enter HwReadWrite" | a write enters `HwReadWrite` while the bitmaps are freed |

Two more facts follow from the modules. The state `Racing` of `Pipeline`, both
threads freeing one buffer (`BackupEngine.cpp:1481`), is reachable.
In `Transfer` the retries that follow an ACK timeout do not send, because the
timeout has marked the connection as lost; `docs/BackupEngine.md:96` speaks of
three retries.

Fairness. `Pipeline` assumes that each of the two threads keeps running
(`WF_vars(Main)`, `WF_vars(AckThread)`), which the operating system provides:
every wait of theirs is a wait with a timeout (`wait_for`, `select`, socket
timeouts), and the steps of the model include the timeouts. `Transfer` assumes
the same of its one thread. Nothing is assumed of the server or the network: a
silent server is a behaviour of both. `Terminates` in `Pipeline` depends on the
timeouts. The notification of the last answer or of a lost connection can be
lost, because `m_inFlightCount` and `m_pipelineError` change outside the mutex;
the backup then stands still until the wait times out.

`VssManager` assumes that the thread of the backup goes on, and nothing of the
service. `Server` assumes that its thread goes on, that `epoll_wait` reports
every ready connection (it is level triggered, and the list of events is longer
than the connections of the instance), and that a client's ACK thread reads what
arrives. Clients need not send or leave. As they send a bounded number of
messages, `Answered` does not speak of a client that never stops sending, which
keeps the receive loop (`Server.cpp:244`) from the other connections. `Hook`
states no fairness: a kernel thread may be preempted for any time.

Bounds. N, W, RetryCount, MaxVersions and MaxAcked are constants of the modules;
only MaxVersions, MaxAcked (answers counted for a version: a block set back from
Acknowledged is counted again without end) and in `BackupCycle` the one block on
the wire are bounds the code does not have. So are MaxBackups of `VssManager` and Quotas of `Server`, which
end the input; Polls, StackMax, RecvCap, SockCap, MaxHooked and MaxMap are
limits the code or its environment has, at small values. `Hook` allows one
foreign hook per driver. No state constraint is used. Deadlock is not checked
where the system comes to rest: after the last backup, after the end of input,
after a fault.

## The proofs

Every proof of an invariant has the same shape: the conjuncts of an inductive
invariant, one lemma per conjunct (or per action) saying that a step keeps it,
a theorem `Invariance`, and the properties the runs check as consequences.

### Bitmap

`CbtBitmap_proofs` proves `MarkRangeCorrect`: for every disk size, block size
and word width, a write of at least one byte whose end does not overflow marks
exactly the blocks that hold a written byte. The lemmas are facts on integer
division, the clamp, and the two inclusions.

It also proves, for every set of threads, every set of writes, every disk and
every word size,

- `TypeCorrect`: `Spec => []TypeOK`,
- `NoSetIsLost`: `Spec => []NoLostSet`,
- `BitmapIsAtomic`: `Spec => Atomic`, that is, `CbtBitmap` implements
  `ChangeSet`.

`NoLostSet` is not inductive: it says nothing of a thread in the middle of a
word. The inductive invariant of `Invariance` adds

- who is inside the spinlock: a thread at a bitmap step holds the lock, and the
  lock is held only by such a thread (mutual exclusion follows);
- which request is at which step;
- the word register: a thread about to store has loaded what the bitmap still
  holds in that word, so the store loses nothing;
- progress: the words a mark has gone through contain its range, the words a
  reset has gone through are empty, the words a query has copied are the
  bitmap's;
- while a reset is under way, nothing is owed.

The first three are what is meant by "the lock protects the bitmap";
the fourth is what makes the last word of a routine complete it, and the
refinement follows from it step by step: `Acquire` is the abstract operation,
`Enter`, `Reject` and `Return` are the abstract call, refusal and return, and
the steps in between stutter.

### Backup cycle

`BackupCycle_proofs` proves, for a disk of any size and any set of contents,

- `TypeCorrect`: `Spec => []TypeOK`,
- `NoChangeEscapes`: `Spec => []BitsCoverStale`,
- `FailedBackupKeepsBits`: `Spec => []FailureKeepsBits`.

`BitsCoverStale` is about the image at rest; a step may store data that was read
long ago. The inductive invariant says the same of every copy of a block: a
content is `Tracked` if the driver is loaded, no unmarked write of the block is
under way, and it equals the disk or the block is marked. The image (`BaseInv`),
the block on the wire (`WireInv`) and the snapshot (`FreshInv`) are tracked at
the blocks the history variables name. `WriteTracked` and `LandTracked` are the
heart of the argument: a write keeps every copy tracked because it is marked
before it lands. `SentTracked` carries the fact from the snapshot, or from the
disk, to the wire. A reset empties the history, and with it the obligation.

### Full-backup pipeline

`Pipeline_proofs` proves, for any number of blocks, any window and any interval
of saves, every invariant of the run `pipeline`: `TypeCorrect`, `WindowBounded`,
`CountExact`, `SlotKept`, `NoLostWakeup`, `AckedIsStored`, `HonestStatistics`
and `CleanRunIsComplete`. The parts of the inductive invariant:

- control (`Kinds`, `NetKinds`, `ControlInv`): where the two threads can be at
  the same time, and what a dry run does not have;
- where a block is: blocks go up and answers come down in the order of their
  numbers, and none is beyond the one in the main thread's hands (`OrderInv`,
  `SentInv`), so a block has at most one answer;
- where a slot is: no two slots have the same number, save the 0 the window
  starts with (`SlotInv`), and every block on its way still has the slot it was
  sent from, except the last one if its send failed, which has left its number
  in it (`HomeInv`). That is what keeps an answer from freeing the slot the main
  thread is filling (`SlotNotStolen`), although a slot is taken before it gets
  its number;
- the counter (`InFlightExact`, `BoundInv`): `m_inFlightCount` is incremented
  after the send and decremented after the slot is freed, so between these steps
  it differs from the number of slots in use by what the two threads are about
  to do;
- sleep (`DozeInv`, `SlotWakeup`): the main thread goes to sleep for a slot with
  the mutex held and no slot free, and if one is free while it sleeps the ACK
  thread still has to notify it;
- answers and statistics (`AnswerInv`, `AckedMeansStored`, `StatInv`): a block
  without an answer is pending, an answer that says stored is about a block in
  the image, the counters are those of the block states and no more than one
  answer per block can still come;
- a run without failures (`CleanInv`): every block so far is acknowledged or on
  its way, and the count is zero at the end.

The counting rests on cardinalities of finite sets (`FiniteSetTheorems`). That
`find_if` returns the first free slot rests on the existence of a least element,
which follows from the well-foundedness of the inclusion of finite sets.

### Incremental transfer

`Transfer_proofs` proves, for any number of blocks and retries, `TypeCorrect`
(so a block is sent at most 1 + RetryCount times), `AnswersAreOwn`
(`Spec => []AnswerIsOwn`) and `AckedBlocksAreStored`
(`Spec => []AckedMeansStored`). The invariant says what may be on its way:
while the client is connected nothing but the block in hand or its answer, and
only while `ReceiveAck` waits (`NetInv`); after that, only blocks that are not
acknowledged and never will be (`StrayInv`), so that a late message cannot tear
an acknowledged block. `CountIsExact` (`Spec => []SentCountExact`) adds which
blocks the counter has taken in (`CountInv`: those before the current one that
are acknowledged), and `FlawlessRunIsComplete` (`Spec => []CleanRunComplete`)
that without a failure every block before the current one is acknowledged and no
refusal is on its way (`FlawlessInv`).

### State file

`StateFile_proofs` proves, for any number of blocks and versions, on a volume
that may fill up, `TypeCorrect`, `CommitIsOfOneState`
(`Spec => CommitOfOneState`), `CleanIsSaved` (`Spec => []CleanMeansSaved`),
`CountersAreExact` (`Spec => []AckCountExact`) and `ResumeIsSafe`
(`Spec => []ResumePointSafe`).

For the commit the invariant ties the temporary file to the manager's memory at
each step of `Save`: it is the memory of this moment, of which at most the end is
missing (`TmpInv`: the mutex keeps the memory as it is); and it says
`CleanMeansSaved` also during a `Save`, which may fail (`CleanInv`). The types
cover the memory and both files (`TypeInv`).

`AckCountExact` by itself is not inductive: an answer may still come for a block
that an older version set up and the current one did not touch, and it counts in
the older version. So every version has room for all the blocks it is still owed
(`GoodCounts`); and an acknowledged block is a changed one, a skipped one is not
(`GoodBlocks`), which is also what the resume point rests on. Both are claimed
while all answers were those of `BackupEngine` (`regular`). `CountInv` adds that
no file there is has a checksum that `Load` would accept, as the run
`state_file_round_trip` shows, so a manager always starts empty. A `Load` that
accepted files would have to notice a truncated one first.

### VSS

`VssManager_proofs` proves, for any volumes, layouts, timeouts and number of
backups, `BackupLeavesNothing` (`Spec => []NothingLeft`). Outside of a backup
nothing is held; inside, COM is one deeper than what was leaked (`ComInv`), every
snapshot is the backup's own or of a process that died (`SnapInv`), and an
operation is at work exactly while the backup waits (`AsyncInv`), from which
every continuation leads back to `Uninitialize` (`AfterInside`).

`TypeCorrect` (`Spec => []TypeOK`, which also says what the flags tell of one
another) and `SourceExists` (`Spec => []SourceIsLive`) need more: before
`DoSnapshotSet` the backup has no snapshot and no entry (`EarlyInv`), its
snapshots are of volumes that were added, and those are of mapped partitions
with a file system (`VolInv`), `m_initialized` holds from the end of
`Initialize` to `Uninitialize` and a created set has entries (`FlagInv`), and an
entry was read from a snapshot that existed (`LiveInv`), which only
`cleanup-shadows` deletes before the backup has read. The first path found in
the order of the volumes is one of the entries because a set of numbers has a
least element.

### Hooks

`Hook_proofs` proves, for any drivers, devices, scan orders, table sizes,
writers and stack depths, `TypeCorrect`, `WriteReachesItsDriver`
(`Spec => []RightRoutine`), `UnloadIsSafe` (`Spec => []UnloadSafe`), `NoLoop`
(`Spec => NoDeadLoop`) and `TrackedWritesAreMarked`
(`ScannedOnce /\ Spec => []MarkedWhenLoaded`). The inductive invariant says

- where the loader is and how far the tables are filled or zeroed (`LoadInv`,
  `TableInv`): a counted hook entry holds its driver's own routine unless
  another driver has been at that driver's table, a counted map entry has the
  hook of its device's driver, and a driver has one entry;
- what a driver's table points to (`MajorInv`): unless another driver has hooked
  over our hook, it is `HwReadWrite` only while the hook is being published or
  is in the table and the restore loop has not come to it;
- what a write holds (`RoutineInv`, `EntryInv`): the routine it is about to call
  leads to its driver or was read from a zeroed entry, and the entries it has
  found are those of its device and its driver for as long as each table is
  there;
- who can still be in the hook once the restore loop has ended (`RestoredInv`):
  a write that was engaged then, or one to a driver on which another driver has
  kept our hook. Without it `UnloadSafe` is not inductive.

`NoDeadLoop` follows from `MajorInv` and `EntryInv` at the step at which the
search, or the test of the entry, decides for the emergency passthrough.

Marking needs `OnceInv` and `DueInv` on top: a write that owes a mark has it, or
is still ahead of the step that marks. `ScannedOnce` says that
`BuildDiskAndHookTables` (`hook.c:72-160`) meets a device object once, which it
does as it goes through the partition numbers of each disk. Without it the
theorem is false: `HwReadWrite` goes by the first map entry of a device, which
may be one without a bitmap.

### Server

`Server_proofs` proves, for any set of connections, any quotas, blocks and
buffer sizes above the longest message, `TypeCorrect`, `BufferNeverFull`
(`Spec => []RecvNeverFull`), `AckedBlocksSurvive` (`Spec => []AckedSurvives`)
and `ServerKeepsProtocol` (`Spec => InOrder`: `Server` implements `AckChannel`).
The inductive invariant:

- `HandInv`: the connection the thread is handling is open;
- `SpaceInv` and `BufferInv`: a receive buffer has room whenever
  `ProcessMessages` is not at work on it, so `recv` is never asked for zero
  bytes. That `ProcessMessages` leaves room needs the next part: what it stops
  at is the beginning of a message, and a message is shorter than the buffer;
- `StreamInv`: what is in the receive buffer and on its way to it is whole
  messages in order, up to the last one sent (`InSequence`), so the parser
  always starts at the first unit of a message;
- `AnswerInv`: every answer in the send buffer, in the socket or at the client
  keeps its promise (`Kept`: if it is OK, the block is in the image unless the
  last write of it failed; a write that succeeds redeems an earlier one);
- `SyncInv`: the image is on the disk only at the end, after `CloseAll`.

The refinement maps a receive, a drain and a change of the epoll set to
stuttering, a handled message to `Handle`, a close to `End` or to the `Handle`
whose handler closes, a client's send and read to `Send` and `Deliver`. `Stop`
ends all connections at once, so the abstract actions take sets of connections.

`TryParse` is a chain of conditions in the order of the code, because they
overlap: which one applies decides what is parsed.

### Assumptions and limits

Constants: `TransferAssumption`, `StateFileAssumption`, `VssAssumption`,
`PipelineAssumption` and `LayoutAssumption` (positive sizes; for `VssAssumption`
also that no volume is listed twice), `CycleAssumption`
(positive sizes, some content), `HookAssumption` (the scan lists devices, each
of one driver), `ServerAssumption` (a receive buffer longer than the longest
message) and `BitmapAssumption` (writes are short enough that offset + length
does not overflow for offsets on the disk; on the real driver lengths are 32
bits wide and disks far below 2^63). `TrackedWritesAreMarked` has the hypothesis
`ScannedOnce`, which holds in the run.

Only model-checked: liveness (`Terminates` of `Pipeline` and of `Transfer`,
`Answered`, `BackupEnds`), which is out of the prover's reach. The runs that expect
a violation have nothing to prove.

## Not modelled

- Hashing and compression: pure conversions around system libraries. Where they
  fail, the failure is a branch of `Prepare`, `Block` or `DryBlock`.
- Of disk and volume discovery, what is only printed: free ranges, metadata
  ranges, `DiskScanner`. What a backup takes from it is in `VssManager` (`Map`,
  `HasFilesystem`).
- Logger, privileges, argument parsing and printing of the four programs:
  output around system calls, with no state a backup depends on.
- `CoInitializeEx` refused because the thread has another apartment model
  (`VssManager.cpp:72-78`): nothing else initializes COM on it.
- The byte layout of the state file's records.
- The set-up of the server's listening socket and the opening of its image
  files: they are the initial state of `Server`.
- `Run` over several disks: the disks follow one another and share nothing but
  the process; `VssManager` has backups follow one another, the other modules
  model one disk.

## Plan

The system's own logic is modelled, and every invariant, action property and
refinement that a passing run checks is proved. What is left is to keep the
modules and the proofs in step with the code, and to shorten the longest proofs
(`Server_proofs`, `Pipeline_proofs`).
