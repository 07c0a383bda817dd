# A verification development for QSINIT

QSINIT is a boot loader that replaces OS2LDR: a 32-bit flat-mode kernel with
its own module loader, heap, file i/o, console sessions and - after
`mt_initialize()` - preemptive multi-tasking on one CPU, started from a boot
sector or from an EFI application.  This directory holds TLA+ specifications of
its core logic, the TLC configurations that check them on small instances and
the TLAPS proofs of the results that hold for every instance.  All paths below
are relative to `src/system/src/`.

## 1. Inventory

| Part | Where | State it keeps | Operations |
|---|---|---|---|
| Mutexes, events, wait objects | `ldrapps/mtlib/mutex.c`, `wobj.c` | `mutex_data` (owner, lock count, wait count, list of the owner), `event_data`, the wait list `we_first..we_last` | create, free, capture, release, set/reset/pulse, `mt_waitobject`, `w_check_conditions` |
| Scheduler and MT lock | `ldrapps/mtlib/sched.c`, `timer.asm`, `tmproc.c`, `init/misc/util.asm` (`mt_swlock`, `mt_swunlock`, `mt_yield`) | `pt_current`, `tiState`, `tiLastTime`, `TFLM_TLP`, `mtcb_glock`, `next_rdtsc` | `switch_context`, timer interrupt, yield, lock, unlock |
| Threads, fibers, processes | `ldrapps/mtlib/thread.c`, `process.c` | `piList`, `piThreads`, `tiState`, `tiWaitReason`, the process tree, `pid_list` | create, exit, terminate, suspend, resume thread; exec, chain, exit process; fibers |
| Signals, sessions start | `ldrapps/mtlib/smcode.c` | `tiSigQueue`, `tiSigFiber` | `mt_sendsignal`, `signal_fiber`, `mod_stop`, `mod_execse` |
| Process tree listing, task list | `ldrapps/mtlib/tasklist.c`, `sched.c` (`walk_next`) | `piTmpWalk` | tree walk |
| Queues and the schedule | `ldrapps/start/main/sysque.cpp`, `mtlib/mutex.c` (`callat`) | `uq`, `fq` of each queue, `se_list`, `attcb` | post, take, wait, schedule, unschedule, reschedule, close |
| System file table, handles | `ldrapps/start/main/sysio.c`, `sysmt.c` | `sftable` with share bits and `ioh_first` lists, `ftable` with chains of shared positions | open, dup, inherit, close, close-as-process, detach, seek |
| Service thread | `ldrapps/start/main/sysmt.c` | `sys_q` | session free, delayed stack free, alarms, cache timer |
| Disk cache | `ldrapps/cache`, `init/fat/diskio.c` | table of 32 kb blocks, removal ring, index with circles of blocks, bitmap and priority bits of each disk; write-through, nothing is ever dirty | read, write, invalidate, priority, enable, resize, mount notification |
| File name cache, delayed objects | `ldrapps/start/misc/cache.cpp`, `dce.cpp` | `celist` | lookup, insert, drop |
| Page memory | `init/misc/membase.c`, `ldrapps/start/pm/*` | block list, page tables | alloc, free, map |
| Heap | `ldrapps/start/main/memmgr.cpp` | pools, free tables, block signatures | malloc, realloc, free, owner change, pool free |
| Module loader | `init/misc/mdt.c`, `ldrapps/start/loader/*` | `mod_list`, `mod_ilist`, use counts | load, free, exec, chain, import |
| Shared classes | `ldrapps/start/misc/exi.cpp` | class table, instance lists, instance mutex | register, create, call, free |
| Notifications, hot keys | `ldrapps/start/main/notify.c` | callback list | register, fire, free by process |
| Sessions and consoles | `ldrapps/start/vio/*`, `ldrapps/console` | session list, device bits, key buffers | new, switch, device attach, key push |
| Exceptions, traps | `ldrapps/start/misc/trap*.c` | chain of `sys_xcpt` frames | `_try_`, `_throw_`, trap screen |
| Virtual disks | `ldrapps/vdisk`, `ldrapps/vhdd` | page-mapped RAM disk, sector bitmap file | create, read, write, grow, free |
| Disk management | `ldrapps/partmgr` | partition tables, GPT, LVM info | scan, create, delete, format |
| File systems | `ldrapps/fsfat`, `ldrapps/fslib`, `init/fat` | FatFs volumes, HPFS/JFS readers | mount, file i/o |
| MTRR setup | `ldrapps/vmtrr` | MTRR register list | optimise, set |
| OS loaders | `ldrapps/bootos2`, `ldrapps/doshlp`, `ldrapps/bootmenu` | kernel image, DOSHLP segment | fixups, start |
| Hosts | `init/misc/*.asm`, `ldrefi` | mode switch, interrupt tables | real-mode calls, EFI thunks |
| User programs, UI, tools | `ldrapps/sysview`, `tv`, `cmd`, `extcmd`, `tetris`, `aoscfg`, `anacnda2`, `usrapps`, `tools`, `runtime` | - | - |

How they interact.  Everything runs on one CPU.  `mtlib` replaces hooks of the
QSINIT binary (`mt_exechooks`) and so turns `mod_exec()` into process creation;
START (`ldrapps/start`) offers handles over the objects of mtlib
(`qs_sysmutex` methods, called under the MT lock) and gives back three helpers
(`muxcvtfunc`, `qe_available_spec`, `qe_getschedlist`).  The scheduler calls
into START at interrupt time: `cbattime` moves scheduled events to their
queues, `w_check_conditions()` looks at queues, events and mutexes.  A thread
that exits calls back into START (`mt_pexitcb`), which closes handles and
unschedules its alarm; the rest of a dead process is freed by the service
thread, asked for through the system queue.

What is hard here: the timer may switch threads between any two instructions
outside the MT lock; one global lock counter is incremented, decremented and
*reset* by different routines; the wait list is examined at interrupt time
while its entries belong to threads that may be terminated; ids of scheduled
events outlive the events; objects may be closed by force under their waiters.

What makes each part correct (those in the plan):

- *wait objects*: a mutex has one live owner or none; a wait ends when, and only
  when, its condition holds; a mutex that is reported is owned; long waiting
  threads come first; nothing refers to a thread that is gone.
- *scheduler*: a thread is switched out only where it expects it; the lock
  counter is what the running code believes; no thread keeps the CPU; no ready
  thread starves.
- *queues*: an event is in one place; deliveries come in order, once, in time
  and not never; the list, its index arrays and the alarm agree.
- *processes*: a pid is one process, a tid one thread; the end of a process
  reaches the one that waits for it; everything it owned is freed after it and
  not before.
- *signals*: delivered in order, on the signal fiber, to the thread meant.
- *handles*: what a file entry keeps about its handles is true of them; handles
  that share a position agree on it; a process that ends leaves none behind.
- *disk cache*: a read returns what was written last, whatever was evicted,
  invalidated or failed in between; a block is found again as long as it is kept.
- *tree walk*: each process of a tree once, parents first.
- *page memory, heap, loader*: blocks do not overlap and have one owner; a
  module is in memory while somebody uses it.

## 2. Plan

| # | Module | What | Specification it is held against | State |
|---|---|---|---|---|
| 1 | `MtWait` | mutexes, events, wait list, ends of threads | `FifoLock` (locks with queues) | done, every safety property and the refinement proved |
| 2 | `SysQueue` | queues, schedule, alarm | `EventQueue` (ready and pending events) | done, every safety property and the refinement proved |
| 3 | `MtSched` | choice of a thread, timer, yield, MT lock | - | done, every safety property proved |
| 4 | `MtProc` | processes, thread slots, exec, chain, exit, launch waits, `mod_stop`, service thread | - | done, every property proved |
| 5 | `DiskCache` | blocks, removal ring, circles, bitmap, the disk below | the disk itself: which sectors of a copy differ from it | done, every property proved |
| 6 | `IoHandle` | file table, handles, shared positions, close as another process, unmount | `FilePos` (who shares a position with whom) | done, every property and the refinement proved |
| 7 | `MtSignal` | signal queue, signal fiber, alarms | a queue of signals by thread | next |
| 8 | `TreeWalk` | `walk_next()` as an operator on trees | recursive preorder | then |
| 9 | `PageMem`, loader use counts | block list, load and free | disjoint intervals, reference counts | if time allows |

The modules are composed by what they leave open.  `MtWait` lets the scheduler
choose any ready thread and needs that each one is chosen again and again:
`MtSched` shows it.  `MtSched` lets any set of waiting threads wake up: `MtWait`
and `SysQueue` say which ones do.  `SysQueue` needs a timer that goes on:
`SliceBound` and `NoStarvation` of `MtSched`.  `MtProc` has the thread calls of
`MtWait` again, with the processes around them and without the wait objects;
what it takes from `MtSched` is that a thread may act at any time outside of the
lock.  The end of a process in `MtProc` calls `io_close_as()`, which is `Exit`
and `CloseNext` of `IoHandle`.

Every safety property and every refinement of the modules above is proved; for
what is only model-checked see the end of section 6.

## 3. Modules

### MtWait - mutexes, events and wait objects

`mutex.c`, `wobj.c` and the thread calls of `process.c` they interact with.
The library runs under the MT lock, so a library call is one action; the walk
of `w_check_conditions()` is one step per list entry.  `pass` says who has
started the walk: `"wait"` the check at the beginning of `mt_waitobject()`,
`"switch"` a `switch_context()`, `"event"` a pulse, `"exit"` the walk at the end
of a thread.  While a walk is on nothing else runs; between calls the timer
(`Timer`) may start `switch_context()` at any time, which then walks the list
and takes any ready thread (`Dispatch`).

| State | Code |
|---|---|
| `cur`, `tstate`, `waitfor`, `dying` | `pt_current`, `tiState`, `tiWaitReason` with `tiWaitHandle`, threads on the exit fiber made by `mt_termthread()` |
| `owner`, `lockcnt`, `owned`, `waitcnt`, `evstate`, `alive` | `mutex_data`, `event_data`, the `tiFirstMutex` list (as a set), valid signatures |
| `wlist`, `we` | `we_first..we_last` and the `we_list_entry` of each thread |
| `pass`, `at`, `target`, `hit`, `pulsed` | locals of the walk and of its caller |

A request is a sequence of items (mutex, event, clock, thread exit) with their
groups, and the set of groups that are combined by AND.  Time is left open: a
clock item may be on at any look.  Queue, key and process items are not there.

`FifoLock` is the promise of the mutexes: recursive locks with a queue each.  A
request is *firm* if the lock alone satisfies it (an ungrouped item or an OR
group), and a free lock is never granted past an older firm request; one that
also needs something else (an AND group) may be passed, because it could not have
been granted.  The refinement mapping takes the entries of the wait list that ask
for the mutex and have no verdict yet as its queue, in list order, and finds out
from the groups which of them are firm.

### SysQueue - queues and the schedule

`sysque.cpp` with the one-shot callback of `callat()` and `switch_context()`.
Each `qe_*` call is one action, `qe_waitevent()` is three (`WaitEvent`, `Ask`,
`Got`) because it gives the lock up, the loop of `qe_close()` is one step per
round because its index is the point (`CloseNext`), and so is the loop of
`cbattime()` (`Deliver`).

| State | Code |
|---|---|
| `now`, `et`, `phase`, `closing` | `sys_clock()`, locals of `cbattime()` and of the loop of `qe_close()` |
| `ioh`, `opened` | the handle table, `sys_queue` blocks |
| `orphans` | not in the code: the scheduled blocks whose handle was closed since |
| `uq`, `fq` | the two arrays of a `sys_queue` |
| `sched`, `se_list` | `sched_event` blocks, doubly linked; their address is the event id |
| `alarm` | the entry of `attcb` for `cbattime()` |
| `heap`, `evtime`, `held` | event blocks in use, their times, those a thread was given |
| `call` | the `qe_waitevent()` of each thread |

Events and schedules are blocks of finite sets which are released and used
again, so that a dangling id or a double free is visible.  So are handle numbers:
`common_alloc()` gives out the lowest free slot of a table that files and mutexes
use too, so any closed number may be the next one (`FreeHandle`).  Two parameters
describe the program: `StaleIds` (does it use ids of events that were delivered)
and `ClosedIds` (ids it got with a handle that it has closed since).  `EventQueue` is the
promise: per queue the ready events in order, and the pending ones, of which
the earliest becomes ready, at most `Early` before its time, once.

### MtSched - the scheduler

`switch_context()` of `sched.c`, the interrupt of `tmproc.c`, `yield()` of
`timer.asm`, the MT lock of `util.asm`.  `glock` is `mtcb_glock`; `depth[t]` is
not in the code: it is the nesting the program of `t` believes in.  `age`
holds the ranks of the `tiLastTime` stamps, which is all the search looks at.
`left` is the time to `next_rdtsc`, `irq` to the next APIC interrupt, `ran`
what the current thread has had.  A call that switches (wait, suspend,
terminate, exit) is made under exactly one lock, the one it takes itself;
`mt_exec()` takes none, though `sched.c:44` asks for it (a timer interrupt
between its assignments and the switch is not modelled: the switch is one step).

Parameters that describe the host and the program: `Apic`, `Efi`,
`YieldLocked` (does a program call `mt_yield()` under the lock), `EarlyWake`
(may a wait come true in the very switch that begins it).

### MtProc - processes

`process.c`, the slots of `thread.c`, `mod_stop()` of `smcode.c`, the switches
`SWITCH_EXEC` to `SWITCH_EXIT` of `sched.c`, `mod_execcall()` of
`init/misc/mdt.c` and the session part of `process_sysq()`.  A library call is
one step; the routines that give the lock up in the middle are split there:
`New` - `Launch` - `Return` (`mod_execcall()`), `Exit` - `ExitMain`
(`mt_exitthread_int()`), `Stop` - `StopNext` (`mod_stop()`), `SessionFree` -
`SessionResume` (the service thread).  Any running thread may take the next
step.

| State | Code |
|---|---|
| `pid`, `parent`, `ppid`, `ptid`, `flags`, `cnt` | `piPID`, `piParent`, `piParentPID`, `piParentTID`, `PFLM_NOPWAIT`, `_LWAIT`, `_CHAINEXIT`, `piThreads` of a block |
| `tree` | `piFirstChild` and `piNext` of all blocks |
| `st`, `wh` | `piList` with `tiState`, `tiWaitReason`, `tiWaitHandle` |
| `pc`, `tgt`, `info`, `todo` | position and locals of the routines above, `QTLS_CHAININFO` |
| `lock` | the thread that keeps the MT lock between two steps |
| `sysq`, `rpid`, `nextpid` | the system queue, the local of `process_sysq()`, `lastusedpid` |
| `trap` | a trap screen (`THROW_ERR_PD`) was reached, or a walk over a child list met a freed block or has no end |

A process is a block, so that two processes with one pid and pointers to a
block that was freed can be told apart.  `StopList` is the list `mod_stop()` makes
from the slots, the caller last; a thread of it that has ended meanwhile ends
the loop, which matters when the loop belongs to a chain (`"passed"`).

The tree is kept as the code keeps it.  `Linked`, `Unlinked` and `Moved` are
`mt_linktree()`, `mt_unlinktree()` and the links of `mt_switchtosession()`, stale
`piNext` included; `CanLink`, `CanUnlink`, `CanMove` say that their loops end on
blocks in use, and where they do not the step is a trap.  `SoundTree` has the tree
checks of `check_prcdata()` (err 4 to 6).  A walk is the least set that is closed
under `piNext` (`Walk`), so that it exists on a cycle as well (`Ends`).

`Uses` names what a program can do and the code is not made for; section 7 says
what each entry breaks.  `"sibling"` is not even unusual: a process chains, or is
given to QSINIT, while a younger one is behind it in the list of its parent.

### DiskCache - the sector cache

`cproc.c` with the part of `hlp_diskread()` and `hlp_diskwrite()` that calls it,
for one disk.  All of a request is under the MT lock; it is one step per 32k
block all the same (`Hit`, `Skip`, `Load`, `LoadFails`), because the blocks of
one request evict each other.

| State | Code |
|---|---|
| `ring` | `prev`, `next` and `cachehead`, as the sequence from `cachehead` on |
| `loc`, `snext`, `marks` | `blockinfo.loc` (with `pdi`), `snext`, `BI_PRIO` |
| `bitmap`, `prio` | the bit arrays of `diskinfo` |
| `on`, `enabled`, `mounted` | is the cache installed, `di->enabled`, is the volume mounted |
| `stale` | not in the code: the sectors of a block that differ from the disk |
| `req`, `served`, `cause` | the locals of `cache_io()`; history |

`Walk` follows `snext` from a block; `Circle` is what it meets.  The free list is
a set: any free block may be taken.  Data is `stale` only, a
write on the disk makes copies stale and the update of a copy makes it fresh.
`cause` remembers the three ways the code is known to lose a copy; `GoOn` lets
behaviours go on behind one.

### IoHandle - files and their handles

`sysio.c` for files of one volume.  A call is one step; `io_close_as()` is
`Exit` and then one `CloseNext` per handle.

| State | Code |
|---|---|
| `sft` | `sftable`: the set of handles (`ioh_first` list), `sbits`, `fh`, `broken`, by path |
| `ft` | `ftable`: `pid`, the file, share bits of `omode`, `pos`, `inh_main`, `inh_next` |
| `volopen`, `mounted` | the handles the volume has open; is it mounted |
| `alive`, `job` | processes; what `io_close_as()` has collected and still has to close, in the order of the slots |
| `detached`, `misuse` | history: detached on purpose; a foreign handle was passed to the volume |

`fh->inherit` is no state: a process may set it for any handle of its own at any
time and only `io_inherit()` reads it, so `Start` chooses the set.  Existence,
deletion and read-only files are left out with the calls that only change them
(`io_remove()`, `IOFS_DELONCLOSE`), and an open that fails changes nothing.
Positions saturate at `MaxPos`.

`FilePos` is the promise: handles that share a position move together, a
duplicate begins where its source is, closing moves nobody.  Under the mapping a
handle is together with the handles of its chain, and its position is the one
of the chain's first handle.

`MCWait`, `MCQueue`, `MCProc` and `MCHandles` give the constants values and
restrict the calls for the runs that need it; `MtSched` and `DiskCache` are run
as they are.

## 4. Runs

| Run | Question | Instance |
|---|---|---|
| `wait_mutex` | Are mutexes consistent, wakeups complete, grants real and in order; does `mutex.c` implement `FifoLock`? | 3 threads, 2 mutexes, nesting 2, single, timed and AND requests, all thread calls |
| `wait_objects` | The same for events, exits and objects closed by force | 3 threads, 1 mutex, 1 event, an AND of both, wait for any exit; no suspension, which `wait_mutex` has |
| `wait_live` | Does nobody starve; does `mt_termthread()` return? | 3 threads, 1 mutex |
| `queue_list` | Are list, arrays and alarm right, and do they implement `EventQueue`? | 3 events, 3 schedules, times 1, 3 and 7, 100 mks = 2 units |
| `queue_share` | Is an event always in one place; does the id of an event lead to it, while handle numbers pass from queue to queue? | 2 threads, 2 queues, 2 handles, 2 schedules, blocks and handle numbers reused |
| `queue_live` | Is everything delivered, does a waiter wake up? | 2 events, 2 schedules, 2 batches |
| `sched_lock` | Is the lock counter what the code thinks? | 3 threads, nesting 2, no APIC, host calls, yields under the lock |
| `sched_fair` | The same under interrupts; is the slice bounded, does nobody starve? | 3 threads, nesting 1, APIC host |
| `proc` | Do callers and children find each other, are the child lists right, is everything freed by one, does nobody wait in vain? | 3 process blocks (QSINIT and two), 2 thread slots each, 1 secondary at a time, 3 pids, every kind of start |
| `cache_sound` | Is every block found again, and up to date, unless a named cause has occurred? | 3 blocks (`NBlocks` counts the unused block 0), 4 locations of 2 sectors, the last one half, 3 locations per bit, a handle of the cached disk and one with flags, requests of 1 or 2 sectors, disk errors |
| `cache_stale` | (violated) copies in the cache do not get outdated | 3 blocks, 4 locations of 1 sector, 2 locations per bit, no disk errors; behaviours go on behind a cause |
| `handles` | Do the tables agree, are positions shared as promised, is nothing left behind? | 2 processes, 1 file, 3 handles, 2 positions, 2 modes |

Why the bounds are enough.  Three threads are an owner, a waiter and a third
one that passes, terminates or joins; the wait list then has a first, a middle
and a last entry, all the walk distinguishes.  Two mutexes make a partial AND.
A nesting of 2 separates "released once" from "free"; `wait_objects` has 1, so
that the limit itself is met.  Three schedules are needed for an insertion or a
removal in the middle of the list; the times 1, 3 and 7 with a resolution of 2
give a batch, a gap that is rounded and an event that must not be in the batch.
In `queue_share` a queue can keep one handle while its other number goes to the other
queue, with an event scheduled by each.
In `queue_live` each event needs an alarm of its own, so the second one depends
on the re-arming.  In `MtSched` ages saturate at ranks, so three threads show
ties and an order; `MaxBorn` bounds the creation of threads, which have
priority by design (`sched.c:154`) and would starve the others.

In `proc` two blocks besides QSINIT are a process and its child, a process and
its successor, or two sessions; a third (checked once, 1.8 million states, with
the same result) adds a child of a successor.  One secondary thread at a time,
in any process, is enough for every interleaving of a main thread with one
other; only the loop of `mod_stop()` wants a second one (section 7).
A child list then has a first and a last entry; one with a middle, and a tree of three
levels, were checked once with 4 blocks of one thread, 4 pids, exec, sessions and chains
(278,219 states), and the proof has every tree.  In the
cache three blocks for four locations force evictions, three locations per bit
make circles with a middle, and a request of two sectors that straddles two
blocks can evict the first for the second.  Three handles are a chain with a
first, a middle and a last handle, or a chain and a stranger.

Symmetry over threads, blocks, queues and handles is used in safety runs only;
no definition chooses among them (the last child, or the one before a given one,
is determined).  `CHECK_DEADLOCK` is on in every run but `proc`: a
program may suspend all of its threads, or end with every process, and then
nothing is left to happen.

## 5. Fairness

- `MtWait`: the walk goes on (`WF`); the timer ticks again and again (`SF`, since
  library calls disable it for a moment: a tick that meets the lock is repeated
  by `mt_swunlock()`, proved as `SliceBound`); every ready thread is dispatched
  again and again (`NoStarvation` of `MtSched`); a thread on its exit fiber goes on.
  Program code has no fairness: a thread need not release anything, so
  `NoStarvation` is conditional on the mutex being free infinitely often.
- `SysQueue`: the clock and the switches go on; a delivery or a close that has
  begun is finished, being under the lock; a thread inside `qe_waitevent()` that
  may run does.
- `MtSched`: time and interrupts go on, a thread gives the lock back and returns
  from a host call; without an APIC the idle loop yields after `hlt` and a
  program that runs for ever comes to a yield.
- `MtProc`, `DiskCache`, `IoHandle`: none.  Only safety is stated there; "nobody
  waits for what has passed" (`NobodyForgotten`) is an invariant.

## 6. Proofs

Every invariant a passing run checks is a theorem for all values of the
constants; so are the action properties `FifoGrant` and
`ReportedGroupReady` and the refinements of `FifoLock`,
`EventQueue` and `FilePos`.  Each
proof goes by one inductive invariant per module, with one lemma per action; the invariants were
checked by TLC on the instances of section 4 before they were proved.

**Lemmas.**  `SeqLemmas` has the facts on `RemoveAt` that `MtWaitProofs` and
`SysQueueProofs` share.  `NatLemmas` has induction in the form this prover can
use, about sets in place of predicates: a set of naturals has a least element
(`LeastNat`), a set that holds 0 and each successor up to `n` holds `0..n`
(`UpTo`), and so a recursive function over `0..n` exists and has the values its
equation says (`Iterated`, `Orbit`).  That is enough for the walks along links in
`IoHandle`, `DiskCache` and `SysQueue` and for the loop that makes the list of `mod_stop()`.

**MtWaitProofs.**  `IInv` = `TypeOK`, `OwnerInv`, `WaitersListed`, `JoinInv`,
`SchedInv`, from the assumptions on the constants only.  `OwnerInv` needs
`SchedInv`: the thread that is granted a mutex by the walk is alive because only
the exiting thread is `THRD_FINISHED` and its entry is removed before the walk
passes it.  `JoinInv` needs that a thread on its exit fiber never waits, else its
joiner would wait for a thread that a second termination puts somewhere else.

`WInv` adds what an entry without a verdict means: it belongs to a thread that
sleeps or to the one that walks (`PendingInv`), what was on before does not meet
its condition (`StickyInv`), and behind the walk every entry is settled
(`WalkInv`; all three TLC-checked on 532,373 states of `wait_mutex` and 766,914
of `wait_objects`).  From it follow `NoMissedWakeup`, `SuspendedOwnsNothing` and
the order of grants, `FifoGrant`, without further assumptions.
`ReportedGroupReady` and `GrantedOwns` assume that no request mixes an OR group
with an AND group (`Unmixed`): `wobj.c:264` stops at the first OR group and
reports unfinished AND groups, see section 7.  `GrantedOwns` and `WaitCntExact`
assume that nobody frees an object by force (`Forced \subseteq {FALSE}`): `muxev_free()`
with `force`, called for what a process has left behind, zeroes the counter and
takes the object away from its waiters.  `WaitCntExact` rests on `CountedAlive`,
which relates each wait counter to the set of entries that name the object.

`LocksRefine` is the refinement of `FifoLock`, for any requests, AND groups
included, under the same assumption on forced closing (a block that is freed under
its waiters and handed out again would be a new mutex with a queue).  A step of one
mutex is described by `LockMoves`: who owns it (`Holds`) and how its queue changes
(`Queues`, `Joins`, `Leaves`), and `LockMoveStep` turns each of them into a step of
`FifoLock`.  That a free mutex is not granted past an older firm request is
`NobodyAhead`: that entry is behind the walk, so it is settled (`WalkInv`), but the
free mutex alone would satisfy it.  That a mutex is born without a queue is
`CountedAlive`.

**SysQueueProofs.**  `QInv` = `TypeOK`, `LinkInv` (the links are mutually
inverse and end), `LoopInv` (what `cbattime()` and `qe_close()` have in hand),
`AlarmFollowsList`, `OwnerInv`, `OnePlace`.  All theorems have one premise,
`OwnIds`: `StaleIds = FALSE` and `ClosedIds = FALSE`.  It is about the program; the
handle table does what `common_alloc()` does, closed numbers come back.  Without
either half `QInv` is false, see section 7.  The part that speaks of handles is
`OwnerInv`: an entry belongs to the queue its owner number leads to, or its handle was
closed (`orphans`); a new handle has a number only orphans know.  `QInv`
never describes the list as a sequence: it speaks of neighbours only, so that
insertion (`LinkedProps`) and removal (`CutProps`) are local lemmas.  `WholeInv`
adds that nothing is lost: `Grounded` (no set of blocks is closed under `prev`, so
every way back ends at the head), and the `fq` array of a queue with a handle names
every entry of it.  `ListSound` and `UnlinkFindsEntry` follow: the walk from
`se_list` meets no entry twice (`LinkOnce`), so it ends within as many steps as there
are blocks (`LinkEnds`; the heap is finite, `HeapAssumption`), and what it did not
meet would be closed under `prev` (`LinkAll`).

`QueuesRefine` is the refinement of `EventQueue` under the same premise:
what is ready is `uq` of the queues with a handle, what is pending the entries of
such queues (`Plans`), and each action is one of `EventQueue` or a stutter: a round
of the loop in `qe_close()` is one, since its queue is closed there already.  A
delivery needs two more facts.  The head is the earliest entry (`HeadFirst`): a
set of earlier ones would be closed under `prev`.  And it is not much too early
(`InTime`): `TimeInv` bounds the time of the head by that of the alarm, half of 100
mks for each entry that has left the list so far, because `switch_context()` counts
the next alarm from the one before (`sched.c:65`) and rounds the difference.  Under
these premises that bound, `Early`, depends on the number of blocks; no fixed one
holds (section 7, `PostedInTime`).  `FreshInv`: a queue that was never opened is empty.

**MtSchedProofs.**  `LockStaysExact` and `SchedTypes` from `EarlyWake = FALSE`
(false without, section 7): every way out of the CPU leaves `glock = 0` and the
depth of the thread zero.  `SliceBounded` for an APIC on a BIOS host without
yields under the lock: `SliceInv` relates the time a thread has had to the time
left to the yield and to the next interrupt; a tick lost to the lock finds the
yield due when the lock ends.

**MtProcProofs.**  `PInv` has ten parts.  `BlockInv`: a block is free or has its
main thread, and `piThreads` counts the slots.  `RootInv`: QSINIT has pid 1 and
does not end.  `ThreadInv`: what a thread waits for is still to come.  `StopInv`:
the list of a chain ends with the thread that works on it, so `mt_exec()` does not
return there.  `FlagInv`: a process has a caller or is to be freed by the service
thread, and of two with one pid one was replaced by the other.  `LaunchInv`: between
`mt_new()` and `mt_exec()` the new process has not been touched.  `ChildInv`: a
process and its caller name each other, also through `QTLS_CHAININFO`.  `SysqInv`:
the service thread is asked once for what has ended without a caller.  `HeirInv`:
the successor of a chained process has one thread, which has not begun or is
about to end.  None of the properties is inductive alone: `OneReaper` needs
`ChildInv` and `SysqInv`, those need `FlagInv` for `mt_termthread()`, which finds a
child by its pid, and `FlagInv` needs `HeirInv` for a chain that follows a chain.
The child lists have an invariant of their own, `TreeInv`; the two are proved together,
since a start needs whole lists not to trap, and a give-away needs `ChildInv` to know
whose child it moves.  `Forest` says that links
lead to children of the same parent, that no block has two predecessors, that each child
is on the walk of its parent and that the walks end.  One lemma each says what linking,
unlinking, moving and erasing a block do to a forest (`LinkForest`, `UnlinkForest`,
`MoveForest`, `EraseForest`); moving needs a block whose own `piNext` is empty.

The theorems assume `Uses = {}`: a program that does none of what section 7 lists
for `MtProc`.  Each entry of `Uses` breaks a property there, so none can be dropped.
(`PInv` was checked on the 178,524 states of `proc`, and on a million with three slots.)

**DiskCacheProofs.**  From the assumptions on the constants only.  `snext` is
injective on the blocks that have a successor and closed on them (`Loops`), so
that a circle is the least set that holds a block and is closed under `snext`, and
every block of it has the same circle (`CircleClosed`, `CircleLeast`,
`CircleSym`).  Linking a block in joins it to one circle (`LinkedCircle`), freeing
a set takes it out of all (`UnlinkedCircle`).  `CInv` is the shape of the table,
the ring and the circles, whatever has happened; `FInv` says that unless a named
cause has occurred all blocks of a group are in one circle (`Gathered`), the bit
of the group is on (`BitsOn`), and what is stale in a copy is still to be
written by the request under way (`Behind`): this last one is what makes
`CopiesFresh` inductive, since a write reaches the disk before the copies.
(TLC: 551,092 states of `cache_sound`.)

**IoHandleProofs.**  A chain is given by ranks: the first handle has rank 0, each
next one rank + 1, and two handles of a chain have different ranks (`Ranked`).
The walk of `io_close()` to the handle before its own is then shown to end there,
after fewer steps than there are slots.  `TableInv` relates the chains, the lists
of the file entries, their share bits, the handles the volume has open and what
`io_close_as()` has in hand; `TypeOK` and `NothingLeft` follow without
assumptions.  `TablesAgree` assumes `"broken" \notin Uses`, no open of a file whose
entry is left from before an unmount (section 7).  `HandlesRefine` shows that every
step is one of `FilePos` or a stutter: the new positions are computed by two
operators on tables (`With`, `At`) whose effect on the sets of handles that are
together is a lemma each.  It assumes `"copy" \notin Uses`, no duplicate of a handle
that follows another one (section 7).

Model-checked only: all liveness (the prover has no fairness or `ENABLED`).  `SchedInv`, `QInv`, `WholeInv`,
`TimeInv`, `SliceInv` and the other invariants are proved and not run: their
consequences are.

## 7. Where the code does not do what it says

Shown by a run:

- `cproc.c:456` (`cache_stale`) - a block is looked up, then room is made, which
  may free that very block; the new one is linked to itself and its bitmap bit
  is off.  The next write misses the copy, a later read is answered from it.

Stated in the modules and seen to fail, with the constants named; not kept as
runs:

- `ReportedGroupReady` (`MtWait`, an OR and an AND group in one request) -
  `wobj.c:264`: an OR group that is on ends the look at the items; AND groups
  behind it stay marked and are reported without being complete.
- `OnePlace` (`SysQueue`, `StaleIds = TRUE`) - `sysque.cpp:57`: the id of a
  delivered event stays valid; `qe_unschedule()` gives the event out again.
- `UnlinkFindsEntry` (`SysQueue`, `ClosedIds = TRUE`) - `sysque.cpp:441`, `:468`: the queue
  of a scheduled event is found by a handle number which may have been closed and
  given to another queue (`sysio.c:129`).  The entry is not found there
  (`sysque.cpp:96`), the array of its own queue keeps a pointer to the deleted block,
  and `qe_reschedule()` moves the event to the other queue (2 queues, 2 handles, 1
  event: 6 states).  `qstask.h:561` promises that the id can be used "later", without a
  word on the handle.
- `CloseFreesSchedule` (`SysQueue`) - `sysque.cpp:208`: `qe_close()` skips every
  other scheduled event.
- `LockExact` (`MtSched`, `EarlyWake = TRUE`) - `sched.c:217`: no lock reset when
  the thread that waits is chosen again.
- `PostedInTime` (`SysQueue`) - `sched.c:66`: roundings of a chain of alarms add
  up; `EventQueue` allows half of the resolution for each.
- `YieldAfterCall` (`MtSched`, `Efi = TRUE`) - `swcode.asm:147`: no yield after a
  call of the EFI host, against `mtlib.h:28`.
- `NoStarvation` (`MtSched`, `Apic = FALSE`, `YieldLocked = TRUE`) -
  `tmproc.c:106`: one `mt_yield()` under the lock turns yields off, and without
  an APIC nothing turns them on again.
- `NoTrap`, `CallersPaired` (`MtProc`, `"window"` in `Uses`) - `mdt.c:934`: the new
  process is visible, and the lock free, between `mt_new()` and `mt_exec()`;
  resuming it, stopping it, adding a thread to it or terminating the thread that
  starts it ends in a trap screen (`process.c:199`, `:817`) or in a child nobody
  frees.  The same holds for the thread that frees it, between the end of the
  child and `mt_exit()` (`OneReaper`).
- `NoTrap` (`MtProc`, `"late"`) - `process.c:797`: the main thread waits for its
  secondaries once; one created from another process after that traps
  `mt_exit()`.
- `NobodyForgotten` (`MtProc`, `"held"`) - `process.c:565`: a process that waits for
  the wait of its launcher and has been given a second thread is not released
  when the launcher ends.
- `HeirWaits` (`MtProc`, `"early"`) - `sysmt.c:80`: the successor of a chained
  process can be resumed before its predecessor is freed, whose
  `session_free()` then closes its handles (they have one pid).
- `NoTrap`, `TreeWhole` (`MtProc`, `"sibling"`) - `process.c:302`: `mt_switchtosession()` does
  not clear `piNext` of the process it links anew.
  A session that chains (`:388`) with a younger session behind it makes the list of
  QSINIT a cycle, and `mt_linktree()` of the successor (`:395`) never ends, under the
  MT lock (4 blocks, 1 thread each, 3 pids, sessions and chains: 5 states).
  A child that `mt_termthread()` gives away (`:737`) while a younger sibling is
  behind it joins two lists: that of QSINIT continues in the sibling's.  After the
  sibling's end the next start of a session walks into a freed block (4 blocks, 2
  threads each, 5 pids, exec and sessions: 12 states).  A session that is started
  before that is linked behind the sibling, into the list of its parent, and the end
  of the parent traps with err 6 of `check_prcdata()`.  A chain below another process
  than QSINIT joins two lists in the same way.
- `OneReaper` (`MtProc`, `MaxTid = 3`, `MaxMore = 2`, `"passed"`) - `smcode.c:366`: the
  loop of `mod_stop()` ends at a thread that has gone meanwhile; at a chain
  `mt_exec()` then returns, and the successor is freed while it lives.
- `UnmountClears` (`DiskCache`) - `sysio.c:1925`: the cache is told of an unmount
  after the volume was taken out of `v_mounted`; nothing is cleared, against
  `format.c:163`.
- `CopiesFresh` without its `cause` (`DiskCache`) - `cproc.c:593`, `:655`: a write of
  more than half of the cache through a volume invalidates nothing, the disk
  number has a flag in it; `diskio.c:161`: a write that fails half-way leaves the
  copies of what was written.
- `ImplementsPositions` (`IoHandle`, `"copy"`) - `sysio.c:1148`: duplicating a handle
  that follows another one, without `IODH_SHAREPOS`, copies a position that has
  not been kept up to date.
- `TablesAgree` (`IoHandle`, `"broken"`) - `sysio.c:498`: the entry of a file of an
  unmounted volume is found by its path after the next mount, and its old
  volume handle is truncated.

Seen while reading, outside of what is modelled:

- `wobj.c:78` - the test of a `QWHT_PID` item is inverted.
- `wobj.c:296` - a capture that fails with `E_MT_LOCKLIMIT` in the middle of an AND
  group leaves the mutexes captured before it.
- `thread.c:43` - when the slot list is full and doubled, the new thread gets the
  number of the last living one.
- `thread.c:288` - `mt_setfiber()` has the comparison with `tiListAlloc` inverted.
- `smcode.c:92` - the `memmove` of the signal queue counts bytes as entries.
- `sysque.cpp:404` - `qe_sendevent()` tests its error variable before it sets it.
- `process.c:430` - after a chain `mt_exec()` returns the exit code from the block of
  the process that was replaced and freed.
- `sysio.c:461` - `volinfo()` failing after `vol->open()` leaks the volume's handle;
  `:505` a failed truncation leaves `IOFM_CLOSE_DEL` set; `:715` a stream's
  `fh->std.eof` is written after the lock was given up; `:1152` the copy of a
  stream handle leaves `eof` and `efe` uninitialized.

## 8. Not modelled

Of `MtProc`: fibers, stacks, exit codes, the growth of slot lists, contexts and
modules of processes, which follow their blocks.  Of `DiskCache`: more than one
cached disk (blocks of different disks share the removal ring and nothing else).
Of `IoHandle`: deletion and renaming on close, streams, directories, devices.

Image parsing, on-disk formats, partition arithmetic, video and text output,
machine-level mode switches, the FPU, fibers other than the exit fiber, the
applications and the vendored libraries.  Memory exhaustion: by default the
heap stops the system (`HaltOnNoMem`, `memmgr.cpp:106`), so allocations of the
library do not fail.  Races between CPUs
do not exist here; there is one.

By size most of the repository is of these kinds: three copies of FatFs, the text
mode windows of `sysview`, the command interpreter, partition and boot code that
computes layouts once and in sequence.  What is modelled is the part in which
several actors share state.
