# Models of the OZONE kernel

OZONE is an operating system for PCs (and Alphas, and Xen): a small SMP kernel
in C (`oz_knl_*.c`), device drivers (`oz_dev_*.c`), a layer of hardware routines
per machine (`oz_hw*`, `oz_common_*`, `oz_kernel_*`), a loader, user-mode
libraries (`oz_sys_*`, `oz_crtl_*`) and utilities.  There are no tests.  What
the code promises is said in the comment that heads each routine.

This directory holds TLA+ models of the kernel's own concurrent logic, the TLC
configurations that check them on small instances, and TLAPS proofs.

## 1. Inventory

Everything in the kernel synchronises in one of three ways.  *Smplocks* are
spin locks with a level; holding one raises the cpu's smplevel and so holds off
interrupts of that level and below.  *Softint level* is where threads run when
they may not be rescheduled; *lowipl routines* are calls deferred from a high
smplevel down to softint.  *Event flags* make a thread wait.  Thread locks,
mutexes, the cache, timers and i/o completion are all built of these, which is
why the models start there.

| component | state it keeps | operations | hard because | what makes it correct |
|---|---|---|---|---|
| thread locks (`oz_knl_threadlock.c`) | one packed lock word (readers, EX bit, waiters), an event flag | lock_ex, lock_pr, ex_pr, unlk_ex, unlk_pr | lock-free compare-and-swap, event flag cleared by late comers | exclusion; the word counts holders and waiters exactly; no free lock with a forgotten waiter |
| event flags (`oz_knl_event.c`) | value, refcount, callback list, list of waiting threads, high-ipl queue, interval timer | create, set, inc, waitlist, queuecb, increfc, setimint, event_timer, highiplq_proc | setters at any smplevel on any cpu, unlocked reads of the lists, deferred work that holds references | every waiter of a set flag is woken, callbacks once and at softint, freed exactly when unreferenced |
| mutex device (`oz_dev_mutex.c`) | four counters per mutex, queue of waiting requests, queue of unblock requests, mode per channel | create/lookup, setmode, unblock, close, abort | conversions between six modes, queueing with and without express, requests in flight when another arrives | holders compatible, counters exact, whoever can go goes, the willing are told |
| cache (`oz_knl_cache.c`) | pages by key, reference counts, modes per page, lru list, one shared event | find, conv, done, freepage | pages wanted in conflicting modes, memory reclaimed meanwhile | exclusion per page, one page per key, waiters woken |
| disk cache (`oz_knl_dcache.c`) | page state (valid, dirty, dirtier), dirty queue, pending i/o count, flush timer | readw, writew, map, prefetch, pfmap/pfupd/pfrel, write_done, term | write-back racing new writes, asynchronous read-in | no write lost, flush ends, term waits for all i/o |
| threads and scheduler (`oz_knl_thread.c`, `oz_knl_ast.c`) | state per thread, com queue, ast queues per mode, wait and suspend state, per-cpu current thread | create, wait, wakewev, queueast, deqast, suspend, resume, exit, handleint | wake-ups racing the switch-out, asts racing waits, exit racing everything | a woken thread runs, an ast is delivered once and in order, a suspended thread stays so |
| low-ipl calls (`oz_knl_lowipl.c`) | free list, queue of calls | alloc, call, handleint | called from any interrupt level on any cpu | every call is made once |
| timers (`oz_dev_timer.c`) | sorted queue of requests | insert, remove, timeisup, timer_call | removal racing expiry | fires once or is removed, never both, in time order |
| physical memory (`oz_knl_phymem.c`) | page states, free list by cache colour | alloc, allocontig, free | unlocked counters, reclaiming from the cache | no page given out twice |
| pool (`oz_knl_kmalloc.c`, `oz_knl_malloc_binned.c`), quota (`oz_knl_quota.c`) | free blocks; usage per quota type | alloc, free; debit, credit | quota charged and refunded by different holders | usage is what is allocated |
| sections and paging (`oz_knl_section.c`) | page table entries, global pages, section locks | mapping, faultpage, unmappage, iolk | faults of several threads on one page during page-in and page-out | a page is read in once, a dirty one is written before it is reused |
| processes (`oz_knl_process.c`), jobs and users (`oz_knl_userjob.c`) | lists, page tables, reference counts | create, cleanup, increfc, mapsections | exit of the last thread against look-ups | freed when unreferenced, once |
| handles (`oz_knl_handle.c`) | table with reuse counters, private ref counts | assign, takeout, putback, release, table copy | release while an object is taken out; table expanded meanwhile | a handle never reaches another object |
| i/o channels and units (`oz_knl_devio.c`) | channels, i/o in progress, reference counts, alloc state | create, start, done, abort, deassign | completion racing abort, deassign with i/o outstanding | each i/o completes once; a channel outlives its i/o |
| logical names (`oz_knl_logname.c`) | trees of names and values | create, lookup, delete, increfc | supersede while in use, table in table | refcounts exact |
| pipes (`oz_dev_pipe.c`) | ring buffer, read and write queues | read, write, abort, close | records across the buffer's end, end of file | bytes come out in order and once |
| tcp (in `oz_dev_ip.c`, with arp, ip, icmp, udp, filters) | per connection: sequence numbers of both directions, transmit requests not acknowledged, a circular receive window, segments out of order | connect, listen, transmit, receive, close, abort, cancel, proc_tcp, the timer | segments lost, duplicated, reordered; a window that fills and wraps; ends that close, reset or give up at any time | what is read is what was sent; end of file only after everything |
| security, idno, log, images, loader, console and hardware drivers, file systems (dfs, vdfs, fat, cdfs), C library, utilities | - | - | - | see section 6 |

Interactions: a thread lock waits on an event flag; an event flag wakes threads
(`oz_knl_thread_wakewev`) and defers work by lowipl; the interval timer of a
flag is a timer request; the mutex device, the cache, disk cache and i/o
completion wait on and set event flags; asts wake waiting threads; the disk cache finds and locks its
pages in the page cache; tcp runs in one kernel thread per host and meets the others only through the network.

The hazards, each at the line where it bites, are the `hazards` of PROJECT.json.

## 2. The models

The source is C for several cpus.  In all modules a step is one thing another
cpu could see happen by itself: one atomic instruction, one read or write of a
shared variable that nothing protects, or everything between taking and
releasing a smplock.  `map` in PROJECT.json gives the source lines of every
definition; the names are the source's where TLA+ allows it.

| module | models | composed with |
|---|---|---|
| `RWLock` | what a thread lock promises: readers or one writer, and a writer may become a reader | implemented by `Threadlock` |
| `Threadlock` | `oz_knl_threadlock.c` | - |
| `ThreadlockProofs` | theorems about `Threadlock` | extends it |
| `EventFlag` | `oz_knl_event.c` but for its interval timer | - |
| `EventTimer` | the interval timer of one event flag: `setimint`, `event_timer`, the last `increfc` | - |
| `LockModes` | the six modes and the tables of `oz_knl_lock.h` | - |
| `LockTable` | what a mutex promises: the modes held at a time are compatible | implemented by `MutexDev` |
| `MutexDev` | `oz_dev_mutex.c`, one mutex of one unit | extends `LockModes` |
| `MutexDevProofs` | theorems about `MutexDev` | extends it |
| `TimerRequests` | what the timer queue promises: a request is taken back or called, in order of time | implemented by `TimerQueue` |
| `TimerQueue` | `oz_dev_timer.c` on the timer of `oz_hw_timer_486.s` | - |
| `TimersProofs` | theorems about `TimerQueue` and `EventTimer`, one after the other | extends them |
| `KeyLocks` | what the cache promises: the page of a key is held by readers or by one writer | implemented by `PageCache`, relied on by `DiskCache` |
| `PageCache` | `oz_knl_cache.c`, and the pages' allocator of `oz_knl_phymem.c` | - |
| `PageCacheProofs` | theorems about `PageCache` | extends it |
| `DiskCache` | `oz_knl_dcache.c`, with the event flag it waits for | uses pages as `KeyLocks` promises |
| `DiskCacheProofs` | theorems about `DiskCache` | extends it |
| `Scheduler` | the com queue, event waits, quantum and asts of `oz_knl_thread.c` and `oz_knl_ast.c` | - |
| `SchedulerProofs` | theorems about `Scheduler` | extends it |
| `Lowipl` | `oz_knl_lowipl.c` | - |
| `Handles` | `oz_knl_handle.c`, the table of a process | - |
| `ObjectsProofs` | theorems about `EventFlag`, `Lowipl` and `Handles`, one after the other | extends them |
| `Tcp` | the tcp of `oz_dev_ip.c`, two hosts and a network | - |
| `QueueLemmas` | what taking from and putting into a queue does to it; no state | used by the modules with proofs that have queues |
| `MC<module>` | values for the configurations of a run of that module | extend the module |
| `MCWaiting`, `MCObjects`, `MCTimers`, `MCMutex`, `MCCache`, `MCThreads`, `MCTransfers` | suites: several instances checked in one run, see section 3 | extend the modules that theorems are about, instantiate the others |

### Thread locks

`flag` is the lock word, a record of its three bit fields.  A thread in
`oz_knl_threadlock_ex` or `_pr` samples it (`Sample`) and either takes it
(`Take`, a compare-and-swap) or clears the event flag (`ClearEvent`), counts
itself as waiting (`SayWaiting`, another compare-and-swap) and waits
(`CheckEvent`, `LinkEvent`, `Woken`).  `waitinc` is the routine's local variable:
one as long as the thread is counted.  A releaser changes the word in one step
(`UnlockEx`, `UnlockPr`, `ExToPr`) and, if it saw waiters, sets the event flag
(`SetEvent`) and wakes those linked to it (`WakeThreads`).  The event flag is the
part of `oz_knl_event.c` a lock uses, unlocked look at the list included, so that
its own race (section 5) is in the model too.  `AstWake` is any ast to a thread
that waits.  A failed compare-and-swap in `Take` goes back to the sample, as in
the code; the `do ... while` of a releaser is the step that succeeds.

`WAITC` is not given a width in the model: `WaitcFits` proves that it stays
within its field, on the assumption that the kernel has no more threads than
the field counts.  `READC` has its limit (`MaxReadc`), at which `_pr` waits.

### Event flags

`value`, `refcount`, `evcbs`, `eventlists`, `onhiq`, `evlock` and `freed` are the
fields of the flags; `hiq` and `lowipl` the static variables of the high-ipl queue.
Each user and each cpu has a program counter `at`, a record of where it is,
for which flag and at what smplevel.  A setter changes the value atomically,
looks at the list without its lock (`Look`), and then, depending on its
smplevel, walks the list (`Walk`), leaves the flag to `highiplq_proc`
(`PutHighipl`), and calls the callbacks (`CallCallbacks`, `CallOne`).
`highiplq_proc` is `HighiplStart` and `HighiplNext`; `increfc (-1)` is `DropRef`,
`DecRef`, `DecRefToZero`, `NullCall`; `waitlist` is `WaitList`, `WaitCheck`,
`WaitLink`, `WaitDone`, `WaitUnlink`; `queuecb` is `QueueCb`, `QueueLink`,
`QueueRecheck`.  The critical section of `waitlist` is two steps, since setters
look at the list without the lock.

### The interval timer of an event flag

`interval`, `timerstate` and the pointer `timer` are fields of the flag that
`setimint`, `event_timer` and `increfc` use without a common lock; each access is
a step.  `queued` is membership of the timer queue: `TimerRequests` says that an
inserted timer expires once unless it is removed, and whether `remove` found it
is known to the caller, which is what `FreeOrKill` branches on.  The arithmetic
of `nextwhen`, which is only about when, is left out.

### The mutex device

A channel (`Chans`) opens the mutex, sets its mode, waits, leaves an unblock
request and closes.  `counts` are the four counters of `mutex`, `curmode` the mode
of each channel, `waiters` the queue of waiting requests, `unblockers` that of the
unblock requests.  Every routine holds the unit's lock from beginning to end, so
it is one step unless it loops: `op` says which loop is under way, and while it is, no
other routine may begin.  `trytoconvert` is `Without`, `CanHave` and `With`.  A waiting
request keeps the mode its channel had when it was queued (`oldmode`), because
that is what the code does.

`OneAtATime` says how the clients behave: one setmode and one unblock request
outstanding per channel, and none when it closes.  The device does not enforce it.  It
is how its only client behaves, the command line (`oz_cli.c:6957`, `9524`), since
`oz_sys_io` waits for each request.  Section 5 says what happens otherwise.

### The timer queue

`queue` is `alltimers`, sorted by `datebin`; `armed` is the hardware timer.  The one
`lowipl` struct with which the interrupt defers work to softint level is in
`spare` (`timer_lowipl`), on the list of low-ipl calls (`calls`), or with a
`timer_call` (`holding`).  `SetEvent` is `oz_hw_timer_setevent`, during which the clock
may go on (`Later`), and which deals with a time that has come at once.
`Call`, `Leave` and `Return` are an iteration of `timer_call`; `Callers` are where it
can run at the same time, since a completion routine may wait and the struct is
free meanwhile.  `Insert` says where a request goes (`GoesAt`) instead of walking the list.  `IoStart` and `IoAbort`
are the device that programs see; `Without` is the queue that the loop of `oz_dev_timer_abort` leaves.

### The page cache

A user (`Users`) is a thread, or a request of the disk cache, that has one page of the cache at a
time: it finds it (`Find`), converts its lock (`Conv`) and releases it (`Done`).  A section
(`Sects`) takes a physical page by `oz_knl_phymem_allocpagew` and lets it go.  `hash` are the
pages in the hash table, `key`, `refcount` and `lockcount` their fields, `oldpages` the list from which
pages are reclaimed and `free` the free list.  `at` is where each thread is in its
routine, with its local variables: `cefs` says which event flags it has cleared, or owes to set.

`oz_knl_cache_find` goes from `Scan` by `AllocFree` or `Reclaim` to `Enter`, and from there
or from a page that was found to `Link`.  When the lock does not fit it goes by `Wait`, `LockWoken`
and `Relock`; when there is no memory by `AllocNone`, `SayWaiting`, `ClearFree`, `Wait` and `MemWoken`;
when somebody else entered the key meanwhile by `GiveBack`.  `Signal` sets the event flags at the end
of a routine.  `smplock_cp` is released between two steps.  `oz_s_smplock_pm` is held through the
failing allocation, three steps in which the cache is not locked: `pmlock` says by whom.

Taken from elsewhere: the event flags are as their comments promise (a set flag lets all its waiters go; the
race of section 5 is in `EventFlag`).  `memfullentry` releases nothing, as in its one implementation
(`oz_knl_dcache.c:1588`).  All pages are of one colour, as on machines without `OZ_HW_MEMORYCOLORING`, and belong to one cache.

### The disk cache

A request (`Users`) is a call of one of the routines (`Ops`: `readw`, `writew` with and without
writethru, `map` for reading or writing, `prefetch`, `pfmap` with `pfupd` and `pfrel`) for a part of one page.  It
goes from `Find` by `Lock` to `Have`, if the page holds what is wanted, or by `Raise` and `StartRead` to the
disk; a thread then waits in `Sleep`, `Wait`, `Link`, `Woken` for the one event flag that all share, a
request that is called back in `callback`.  `Modify`, `SetValid`, `Mark` and `Marked` are a write: the copy, and
the three parts of `mark_page_dirty`, which holds `smplock_vl` in the second only.  `WriteThru` is the other way.
`FlushTick`, `Take`, `SetState`, `Issue` and `SpreadTick` are the flush timer, `startwriting` and `start_write`, and
`writer` says who uses `spread_timer`, the thing that keeps them from each other.  `WriteDone`, `WriteDrop` and
`WriteCount` are `write_done`; `Term...` is `oz_knl_dcache_term`.

The data of a page are a few units, and `old` says of each whether the memory or the disk
is behind what was written to it last.  A transfer takes what is in memory at some moment between the start and
the completion of the request, which is what makes a write-back racing a new write visible.  `dcpage.state` is the
page's state: 0 clean, 1 queued, 2 being written, 3 being written and dirtied again.
How many pages `startwriting` takes depends on the average write rate, of which the model keeps the least
value it can have (`MinRate`) and leaves the rest open.

The event flag is that of `oz_knl_event.c`.  `TestEvent` is the test of the flag and `LinkEvent` the linking of the thread, with
`linking` the thread that is between the two; `SetEvent` has both outcomes of a setter's look at the list, which takes no
lock: all who sleep, and the one who is linking, are woken, or the look came while the list was empty, and nobody is.  The set, the
look and the walk of `wakethreads` are one step with these outcomes, and a walk that takes its time is not told from a
later set.

The model goes as far as the first of three faults of the code (section 5), with the step that meets it included.  `spoilt` says that one was met:
a page is reclaimed under the routine that has queued it (`Reclaim`), `pfupd` gives the queue the reference of who mapped
the page (`Modify`), or a write fails (`Fail`).  After it there are no more steps, and nothing is claimed.  Nothing keeps them from happening.

### The scheduler

A step is what is done under a thread's `smplock_tp`, with what is done under `smplock_tc` inside.
`oz_knl_thread_wait` is `Take`, `Unload` and `Load` (a cpu picks the next thread, lets go of its own,
gets the stack of the next one), which is where two cpus can meet; `TestEvent`, `CheckAsts` and `EndWait` are where a thread
turns out not to wait.  `HandleInt` is `oz_knl_thread_handleint`, `Quantimex` the quantum timer,
`MakeCom` and `Insert` are `makecom` and `INSTHREADTOCOMQ`, `WakeWev` is `oz_knl_thread_wakewev`.
`WaitEvent`, `TestEvent`, `LinkEvent` and `CheckAsts` are `oz_knl_event_waitlist` with one flag, and `SetEvent`, `LookList` and `WakeThread`
the change of the value, the look at the list without its lock, and the walk of `wakethreads` with the lock, so the
hand-over between event flags and threads is in this model with both sides and all their steps.  `setter` is where the setter of a thread's flag is; "late" is a
setter that is gone, having looked between the test and the linking: what it missed (section 5) stays on record until the wait is over.
A flag has one setter at a time.  Asts are counted, not named:
`QueueAst`, `DeqAst`, `EndAsts` and `SetAst` are queueing, `oz_knl_thread_deqast`, the end of `checkknlastq`, and `oz_knl_thread_setast`.
A thread has been interrupted as often as `handlingint` says.  Priorities are numbers; by how much a waker
raises one is the arithmetic of the source (`Raised`).  `oz_knl_thread_quantimex` raises threads that are in the queue
and merges them with the others in one walk; `Merged` says what comes out of it.
`setcurprio` is three steps, because it changes the priority before it locks the queue and locks the queue once to take the
thread out and once to put it in: `SetCurPrio`, `Unqueue` (with `renicing` the thread that a cpu is going to look for) and
`Requeue` (`moving`, the one it has taken out).
In the beginning every cpu runs a thread, and the com queue holds the others in order of their priorities.

### Low-ipl calls

`LowiplCall` and `Push` are the two halves of `oz_knl_lowipl_call`, a sample of the list head and a compare-and-swap; the steps
of a cpu (`handling`) are those of `oz_knl_lowipl_handleint`.  A struct is used by one driver, which does not ask again before
its routine was called.

### Handles

A table of `count` entries, of which the part of a handle above the index is the re-use counter.  Steps are
what is done under the exclusive table lock, and the parts of `assign` and `statsget` that go on under
the shared lock (`FillObject`, `FillRest`, `StatsCopy`, `StatsCount`).  `Expanded` and `ExpandedFree` are `expand_table` with its
bit arithmetic: an entry moves to the half its handle belongs in, and its twin gets the re-use
counter that keeps old handles invalid.  `refs` counts what the routines add to and take from the objects' reference
counts, so that `TableExact` can compare it with who holds the object.  A list of the table is made with the shared
lock, which the second half of `assign` has too: a list made at that moment reads an object whose type is not stored
yet (section 5).  The module has this (`tablecrashed`); the run lists a table nobody assigns in.

### TCP

One kernel thread per host runs everything, so a step is a whole handler: a segment
(`Deliver`, that is `ProcTcp`), a tick of the timer that sends something (`Tick`) or gives up (`Expire`), a
request (`Connect`, `Send`, `Read`, `Close`, `AbortClose`, `Cancel`).  Routines are operators from
connection block to connection block; the record's fields are named and explained above `NewCon`.  `NoteAck`, `NoteWindow`,
`NoteSyn`, `AnswerOld`, `Fresh`, `Store`, `Insert`, `Advance`, `Accept` are the parts of `proc_tcp` in their order.
Sequence numbers are integers, counted from the first of each side, where those of the source have 32 bits and begin anywhere.
`Zero` is where the 0 that the fields for the other side hold before its SYN lies among that side's numbers, chosen
below all of them; that numbers wrap and pass zero is not in the model.  The circular window does wrap.  A byte's value is its
sequence number, so that a byte in the wrong place shows.  The network keeps a set of segments, loses, reorders
and (with `Dups`) duplicates them.  Left open: when the timer is due, and the congestion window.


## 3. The runs

`expect` is `pass` for seven runs and `violation` for five.  Every property of a passing run has a mutant in
PROJECT.json, a plausible error in the code with which the run reports it violated.

A passing run is a suite: a variable `part`, chosen in the initial state and never changed, says
which of several instances takes steps, and the others stay in their initial states.
The parts of the modules that theorems are about have the constants of the configuration, or some of their
steps, so that the properties a run checks are the definitions that the theorems name.  A suite is thus a
number of separate checks.  The components of a suite share no state; it is made of those whose questions are alike.

| run | part | asks | size |
|---|---|---|---|
| `waiting` | locks | the lock word is exact; a free lock with waiters has a wake-up owed; it implements `RWLock`; the wake-up is delivered | three threads, at most two readers |
| | flush, redirty | pages that are queued get written, a dismount ends; unless `term` is stranded | two pages written once; one page written up to three times |
| | readers | a thread that waits for the disk goes on, unless it is stranded (section 5) | two threads, two pages, reads that fail |
| `objects` | flag | at most one thread stranded (section 5); a callback on a set flag is owed a call, called once and at softint; exact reference count | one flag, three users, one cpu, one callback |
| | table, copied | a handle keeps its meaning; references exact; what is taken out stays; free list whole | two threads, table growing from 2 to 4, four assigns; one thread that lists and exits, two objects, one copy |
| | onecpu, twocpus | every low-ipl call is made once | two structs used twice; three structs and two cpus |
| `timers` | queue | the lowipl struct is in one place; the hardware timer is set for the first request; i/o requests complete once; it implements `TimerRequests`; a due i/o request is served | two kernel timers, one i/o request, two callers, clock to 2 |
| | interval | flag and timer are not used once freed; someone owns the timer; both are freed once, and in the end; no timer state is met that the code crashes on | three users, two calls of `event_timer`, one `setimint` |
| | calls | a low-ipl call is made in the end | two structs, one cpu |
| `mutex` | plain, aborted, ordered | exact counters; no `oz_crash`; it implements `LockTable` | three channels, modes CW and PR, express or not; the same express and with aborts; modes NL, PR, PW, EX, all express |
| | ordered | `LoopServes`: the loop over the waiting requests moves on, leaves nobody waiting who could go, and ends | as above |
| | flag | a flag is freed when it is out of reach, and then in the end; a callback on a flag that stays set is called | two users, one cpu, `oz_knl_event_inc` |
| | threads | who wants a cpu gets one | three threads of one priority that compute, one of which exits; two cpus |
| `cache` | memory | one page per key, a page in use stays; exact counts; every physical page in one place; it implements `KeyLocks` | two users, one section, two pages, two keys, all modes, asts |
| | locks | who sleeps on a page that is free for him is owed a wake-up | three users, two pages, PR and EX |
| `transfers` | rw, map, pf | no write is lost; a page in use stays, and is locked as its users hold it | two users, a page of two blocks; reads and writes of parts of it with and without writethru; requests called back that fail; a mapped page that is modified |
| | term | the same, and a dismount leaves nothing unwritten | one user, two pages |
| | lossy, short, mixed, inplace, twice, bothways, back, broken | what is read is what was sent; end of file means all of it; no `oz_crash` | two hosts, windows of 2 or 3 bytes, at most 3 bytes, segments of 2, at most two under way per direction |
| `threads` | asts, quanta | a thread is in one place; the com queue is in order; nobody sleeps through an ast or a flag whose setter did not look too early; an ast has an interrupt on its way; no `oz_crash` | two cpus; a thread that waits, one that computes, an idle one; the first gets asts and quanta do not run out, or the other way round |
| | one | where a thread is, who sleeps, and no `oz_crash`, with asts inhibited and enabled, priorities set, and exit | one cpu, two threads, two priorities to set |
| `event_stranded` | | violation: a waiter is left asleep on a set flag | one flag, two users |
| `mutexdev_spin` | | violation: the loop does not move | not all requests express |
| `cache_forgotten` | | violation: a thread sleeps for memory that is there | two users, one section, two pages, two keys |
| `sched_starves` | | violation: a thread that wants a cpu never gets one | two cpus, threads of one priority of which one waits |
| `dcache_leak` | | violation: a page nobody uses keeps a reference | one page, one user |

Why the bounds are enough.

- locks: with two readers the count fills, so that `_pr` waits for a reader;
  three threads are a holder, a waiter and a late comer who clears the
  event flag, which is what the hazards need.  The theorems hold for any number.
- flag: a setter, a waiter and one who drops the last reference meet with `highiplq_proc`;
  a second cpu cannot run `highiplq_proc` on the same entries, since it takes the
  whole list.  A callback block is queued once and never reused, so one shows
  what happens to each.
- mutex: CW and PR are compatible with themselves and not with each other, NL, PR, PW and EX are each stronger than
  the one before: together every relation two modes can have.  Three channels are two holders and a waiter, or a holder and two
  waiters.  `MaxWaiting` is 3, which one request per channel never exceeds, and 2 with aborts, which leaves a holder and two waiters.
  The theorems hold for all six modes, aborts and any number of channels.  The loop's properties are asked of part "ordered" only,
  because with PR to CW and back, aborts or requests that are not express they are false of the code (section 5).
- queue: a request for now and one for later, a third while the first is
  being called; `MaxTime` bounds the clock and so the time left to a request at
  the end is always up to 2.
- memory, locks of `cache`: with two pages and three takers memory runs out, pages are reclaimed for another key
  and for the section, and both users find the same key at the same time.  A third user is needed
  for one to clear the flag that was set for another.  NL, which never waits, and asts, which only wake more
  threads, are left out of the latter.
- disk cache: what can go wrong is between a page's state, its queue and the disk, for one page at a time; two
  users write to it and extend it while it is queued, being written and completed.  `Ranges` within a block, across
  two, and up to the end of a block are the cases of `Covered`.  Two pages are needed for the spreading of writes and for a
  second wait for the event flag.  `MaxRefs` bounds the references to a page, which leak (section 5).  `spoilt` and a terminator
  that is stranded end a part: the suites stutter there (`Over`).  The part
  "pf" meets `pfupd`; "rw", "map", "pf" and "term" meet the other two.
- threads: three threads on two cpus give each cpu one and the com queue one, and an idle thread lets a thread
  wait with nothing else to run.  Asts and quanta meet only in part "one", on one cpu.  Part "one" has what is about priorities and inhibited asts on one cpu, where
  the second cpu would only add orders that parts "asts" and "quanta" have.  `NewPrios` are the priorities that `setcurprio` is called
  with: that of the thread it is called for, and one below.  The order of the queue and the interrupt for an ast
  are asked of the other two parts only (`QueueInOrder`, `AstsInterrupt`): setting priorities breaks the one, and a
  thread that enables asts itself the other (section 5).
- table: growing once takes all branches of `expand_table`; four assigns re-use entries before and after it.
- calls: with two cpus each struct is used once, because the code does not survive more (section 5).
- interval: with a second `setimint` after the first the properties are false of the code
  (section 5), so `MaxSets` is 1.
- tcp: a window of 3 with 3 bytes read one by one fills, wraps and closes; two segments under way overtake each other; a segment
  sent again overlaps one that was received.  `MaxTicks` bounds the timer: after one resend everything can be lost once.
  The parts divide what together is too much: "lossy" loses and sends again and nobody closes; "short" does so
  and closes, with one segment under way; "mixed" closes with segments that overtake each other, none sent again;
  "twice" has duplicates of one request and closes; "broken" aborts and cancels, and connections time out.

Symmetry is used where no liveness property is checked: users in `objects`, users, pages and keys of `cache`,
users in `transfers` (the disk cache orders its keys), cpus in `threads`.

Deadlock is checked in `waiting`, `cache` and `transfers`, where a state without a step would be everyone waiting for everyone
(the end of a transfer and a disk cache that was freed are stutters of the suite, so of `transfers` this asks of the disk cache that
it goes on until it is freed, meets one of its faults, or `term` is stranded).
Elsewhere parts rightly stop: users of event flags and interval timers have
dropped their references; all structs of low-ipl calls have been used; all channels may wait for one another's
conversions (two PR holders that both ask for EX), which the device does not detect; a connection is closed; or a thread
has exited.  In the violation runs the question is another.

### Fairness

- `WF` of a thread's or a cpu's steps inside a kernel routine: a routine once entered is carried on with
  (the scheduler runs every runnable thread, and a cpu at softint level or above is not
  rescheduled).  Steps in which a caller decides to call (lock, set, wait, insert, release) have no
  fairness.
- `WF` of `HighiplStart`, `Enter` and `HandleInt`: `oz_knl_lowipl_call` requests a software interrupt that some cpu takes once it
  is below softint level.
- `WF` of `Interrupt` of the timer queue: the PIT interrupts when its count is reached; of `FlushTick` and, in `Writer`, `SpreadTick`: timers
  expire, which is `DueServed`.
- `WF` of `Return`: completion routines return.
- `WF` of the steps of the disk (`Served`, `Flushed`): the disk answers every request, be it with an error.
- `WF` of `Expire` in `EventTimer`: `DueServed` of the timer queue.  `DueServed` itself is stated for i/o
  requests only: a request of the kernel may be inserted again for ever, with another time or behind
  others of the same time.
- `WF` of `Wakes`: who has set a flag goes on to look at the list and to walk it.  That a thread gets the spin lock `smplock_ev` in the
  end is assumed: in `DiskCache` whoever finds it taken links after the other.
- `Interrupt` and `Expire` of the scheduler: an interrupt that is pending is taken when softints are enabled.  `WF` is enough in
  part "threads" of `mutex`, where threads only compute and so leave softints enabled; `sched_starves` assumes `SF`, the
  only strong fairness (they are enabled again and again but not all the time), and finds its counterexample all the same.


## 4. What is proved

The proofs hold for every value of the constants that satisfies the named
assumptions of the modules (finite sets, bounds that are numbers, `MaxReadc` at least
1, no more threads than `MaxWaitc`, sizes of pages that are whole blocks, names that are not taken for other names).

**Thread locks.**  `TypeCorrect`, `Exclusion`, `ExactWord`, `NoForgottenWaiter` and `Refinement`
state the five safety properties of the run, `WaitcFits` that the waiter count stays in its
field.  `MutualExclusion` is not inductive: it is the lock word that keeps the threads apart, so the
invariant says that the word counts holders and waiters (`WordIsExact`) and, for each
place in the routines, what the thread's local variables are (a thread at
`take` has a sample that is not in use, one about to clear the event flag or to count itself has one that is in
use, one on its way to the lock holds nothing, and a counted waiter is in the routine it called).  The counts are cardinalities; the
lemmas about sets that gain or lose one thread are stated once.  `WakeOwed` is proved on top:
the interesting step is that a releaser who saw no waiters cannot have missed one, because
a thread counts itself with a compare-and-swap on a word that was in use.

**Mutex device.**  `TypeCorrect`, `ExactCounts`, `Compatible`, `NoCrash` and `Refinement` are stated for
`OneAtATime`.  The invariant adds to the properties: `QueueFresh` (a waiting request
names the mode its channel still has, and is the only one of its channel), `ClosedNull`
(a channel that is not open is at NL), `CloseReady` and `UnblockersOpen` (requests are those of
open channels, and a channel that is closing has none and is at NL).  `QueueFresh` is what makes
`CountsExact` inductive: `trytoconvert` subtracts the mode of the request, not of
the channel.  `HoldersCompatible` does not follow from the tests of `trytoconvert` by
their form, since they look at counters and not at `oz_lock_compat`: the proof goes
through `CountsExact`, from a counter that is zero to a set of channels that is empty.

**Timer queue.**  `OneStruct` states `LowiplOnce`, `AlarmIsSet` `AlarmSet`, `IoOnce` `IoCompletedOnce`, and `Refinement`
that `TimerRequests` is implemented.  The invariant for the first (`IInv`) adds that only a `timer_call` that is in its loop
holds the struct (`HoldersRun`).  That for the others (`QInv`) adds that no timer is queued twice (`Once`) and
that the queue is in order of time (`InOrder`).  Each step is shown to keep `QInv` and to be a step of
`TimerRequests` at once (`Keeps`).  Three kinds of step need an argument.  Where the queue only loses requests, its order
is kept and its new head is not before the old one (`Thinned`), so that the hardware timer still is early enough.  Where a
`timer_call` that holds the struct sets the hardware timer, nothing else says when it is due: `LowiplOnce` says that
the struct was not free (`HolderAlone`).  Where a request is put in, `GoesAt` makes the order (`InsertedInOrder`), and the
timer is set only if it is the first.  The number of callers in a routine is a cardinality.

**Interval timer of an event flag.**  `TimerHandedOver` states `TimerOwned` for any threads with references and any number of
calls of `event_timer`, if `setimint` is called once: with `MaxSets` above 1 the property is false of the code (section 5).  The invariant
(`IntervalInv`) says that the reference count is that of the threads that have one (`Counted`, a cardinality), so that whoever dropped the last one is alone
(`DroppedOnce`); that the one `setimint` finds the timer unused (`SetOnce`); and that exactly while the timer state is QUED or KILL, and the flag not freed, the
timer has one owner: the queue, one `event_timer`, or the `setimint` that is about to queue it (`OwnedOnce`).  Hence
`increfc`, finding the state DEAD or IDLE, or the timer in the queue, may free both, an `event_timer` that finds KILL may too, and nobody else does.

**Page cache.**  `KeysPage` states `PagesStay`, `Counts` `PagesCounted`, `Refinement` that `KeyLocks` is implemented, and
`TypeCorrect` the types, whose bounds on the counts are the point.  The event flags play no part in
these: they decide when a thread goes on, and not what it then finds.  The invariant says of each place in the routines what the thread has there
(`InPlace`: a section no page while it allocates; a user no lock while it waits for one); that a page that is neither free nor in the
cache was given to exactly one thread (`OwnedOnce`, `NoneLost`); that the counts are those of the users that
refer to the page and hold it (`Counted`, as cardinalities); that the list of old pages has no page twice and only pages
of the cache; and that a page missing there has a finder who is going to link it (`WillLink`).  `WillLink` is what
`PagesAccounted` needs to be inductive, as a page in use by somebody else is found too.  `Reclaim` takes a page away
from a key, which is sound because a reference count of zero is an empty set of users.  In the refinement the mode
a user holds on a key is its mode on the page it refers to, and two users of a key refer to the same page
(`OnePagePerKey`, `FoundStays`), so that the test of `lockcount` is a test of the key's holders.

`WakesAreOwed` states `LockWakeOwed`, which is about the flags: all who wait for locks share one, and each clears it when it has
woken.  The invariant (`WInv`) counts a user as waiting from the test of the lock count on, before it sleeps
(`AwaitsLock`); while the flag is clear and one of these could go, somebody will set it (`SomeoneTells`), who is himself
not waiting for good (`Tells`): whoever cleared the flag keeps that in mind (`cefs`) until it has set it again or sleeps for a
page that is locked.  A step of a user either makes it the one to tell (`TellerWakes`), or only locks more
(`TightensWakes`), or goes on without a wait (`GoesOnWakes`).

**Scheduler.**  Three invariants, each for whatever threads, cpus, priorities and asts.

`NoneSleepsOn` states `NobodySleepsOn`: a thread that sleeps has no ast to be delivered, and if its flag is set, the setter is about to look
at the list or to walk it, or has looked between the thread's test and its linking.  The last is the race of `event_stranded`,
which is the code's; the theorem says that it is the only one.  What makes the property inductive (`IInv`) is to say for
each look the thread takes what it has excluded from then on: once `oz_knl_event_waitlist` has found the flag clear,
it is not set while the thread is in state WEV unless by a setter of whom that can be said (`FlagSeen`), and after it looked at the asts
none can be delivered (`AstsSeen`).  A setter leaves only when it found the thread unlinked, or has walked the list, and the walk, the queueing of
an ast and the enabling of asts take the thread out of the state; all the others, with everything that moves threads between cpus and the com queue, put nobody into it (`NobodyDozes`).

`EachInOnePlace` states `OnePlace`, `TypeCorrect` the types.  The invariant (`PlacesInv`) adds where a thread is loaded while
it executes code of its own (`Home`: in a cpu that is not about to leave it), and what a cpu is busy with (`Busy`): the
thread a cpu took from the queue has no cpu, which `Top` saw before the queue was unlocked and nobody changes since, as only a cpu
that holds a thread loads it; a cpu leaves a thread only while that does not run, which is what the lock it keeps over the
switch is for; and a thread whose priority is being set stays in state COM until it is found or not, which the lock of the thread
is for.  Steps either leave a thread in its place (`StaysKeeps`) or put one that did not want a cpu into the queue
(`JoinsKeeps`); `Take`, `Load`, `Unqueue` and `Requeue` move one between queue and cpu and are proved by themselves.

`QueueStaysSorted` states that the queue is in the order of priorities, and `NoCrash` that no `oz_crash` is
reached, both as long as nobody sets priorities (`Settled`).  Each is false otherwise: section 5.  `Insert` puts a thread before the first of
lower priority, which is where the order is kept (`InsertIs`); that there is a first one (`Least`) is the well-foundedness
of the numbers, taken from that of finite sets under inclusion, since induction is out of the provers' reach.  The walk of `quantimex` is a merge
of two queues that are each in order (`MergedSorted`).

`AstsAreSeen` states `AstInterrupts`, with an invariant (`AstsInv`) that adds to the places that a thread which is among its asts is there on
behalf of the hardware layer (`Prompt`), and so looks once more before asts are enabled.  An ast for a running thread requests the
interrupt; for a waiting one it ends the wait, and the thread meets the ast on its way back to its own code (`Enter`).

**Event flags.**  `Counted` states `RefcountExact`, `FreedSafely` `FreedUnreachable`, `OneStranded` `AtMostOneStranded`, `CallbacksOwed`
`CallbackOwed`, `CalledOnceAtSoftint` `CallbackOnceAtSoftint`, for any number of flags, users, cpus that run `highiplq_proc` and callbacks (finitely many
users and cpus, distinct: `PartiesAssumption`; values are integers: `ValuesAssumption`).  The
invariant has three parts, proved one after the other, each action of the module against each.  `Structure` says
where everybody can be and what belongs to whom: a user works only on a flag it has a reference to, and links only under the flag's lock;
a flag marked as queued is queued once, in one place; a callback is on one list at the most and has not been called while it is.
`Alive` says that the counts are exact.  The references are a set of pairs, of who refers and in which role, so that a
step adds, removes or replaces one pair, and the count follows (`CountChanges`); whoever refers to a flag thus knows that its count is positive, and a
second reference that it is more than one (`ReferredLives`).  That is what keeps `oz_knl_event_increfc` from its `oz_crash`: the last reference to
go cannot be that of a flag that is queued.  `Followed` is about the races with a setter.  `AtMostOneStranded` is not inductive;
what is counts a thread as at risk from the test of the value on, before it is linked (`AtRisk`).  A setter that finds both lists empty leaves at most
one such thread, the one that holds the lock; one that walks the list needs the lock, and so nobody is linking.  For callbacks the
second look at the value (`QueueRecheck`) closes that gap (`Owed`); a walk at null level is not counted among
those who call callbacks, and need not be, as it is begun only when there are none.

**Low-ipl calls.**  `OnceEach` states `CalledOnce`, for any drivers and structs, if a struct is used once or there is one cpu
(`NoOvertaking`); otherwise it is false (section 5).  The list has no lock and no variable of its own, only a head and `next` pointers: the invariant
(`CallsInv`) says that there is a queue of structs, none twice, of which they are the links (`Chain`); that a struct is in it, or in the
hands of one cpu, or of its driver, and has a call to make only in the first two cases (`Apart`); and that what a cpu has read of
the list is still true if the struct it read is still the head (`SeesAt`), which is what the compare-and-swap needs and
`NoOvertaking` gives.

**Handles.**  `Meaningful` states `HandlesKeepMeaning`, `NoEntryLost` `EntriesKept`, which is the part of `TableExact` that does not count references; for any
threads and objects and tables that double any number of times.  `HandlesKeepMeaning` is not inductive, as it says nothing of handles that are
not found.  What is says that a re-use counter is a multiple of the size of the table (`Numbered`), so that a handle leads to one
entry, and that the number of that entry is never less than the handle, and greater if the entry is open, that is free or about to be
assigned (`Meant`).  Numbers rise when an entry is freed, and `expand_table` keeps this:
the entry goes to the half to which the quotient of its handle takes it (`Keep`), with the same number, and its twin, to which every
other old handle of the same remainder leads, has a number higher by the old size (`ExpandedEntry`, from lemmas about remainders with one modulus
and with its double).  That a taken-out entry is not freed is the count: twice the threads that have it and one while it is assigned
(`CountedHere`).  Whoever takes it to zero waits alone for the exclusive lock (`Holding`).  Who fills in an entry keeps
the table from growing under it (`Exclusive`), which is why an entry being filled in is found by nobody else (`Opened`).

**Disk cache.**  `Kept` states `NothingLost`, `Held` `PagesHeld`, `TypeCorrect` the types, for any pages, sizes, requests, errors and users.  There are no hypotheses
about the disk or its users; but the first two, and the model, go as far as the first of the three faults that `spoilt` stands for (section 5), so that
what is proved (`SoFar`) is `spoilt` or the invariant.  A `pfupd`, a failing write or a reclaim just before an unlock ends what they say; up to
that moment they say it whatever has happened.  Nothing of this depends on who sleeps: the event flag's steps change none of what the
invariant is about (`SameKeeps`).
The invariant (`IInv`) says where a request can be and what it has there (`Local`), that it has one transfer under way, and only while it waits
(`UserIo`), what the writer has taken from the queue and what is under way of that (`FlusherIo`), that a page is queued once and by its
state (`Queues`), that lock and reference count are those of the requests that hold the page and of the queue (`Locks`, `Refs`, as
cardinalities), and that a request that is about to mark a page has made it valid up to there (`Valids`).  `Data` is the core.  A unit
of which the memory is behind is one that the request with the exclusive lock is about to copy, or not valid.  A unit of which the disk
is behind has somebody who will see to it: a request that has yet to mark the page, the queue, or a transfer that has not taken its
data yet; and a transfer that completes while the page was dirtied again finds state 3, and queues it again.  With `Terms`, that a
terminating cache has no requests, this leaves nothing to write when it is freed.  Most actions move a request or a page in one of a few ways, each with a lemma of
its own.

**Queues.**  `QueueLemmas` states once what `RemoveAt`, `RemoveFirst`, `Tail`, `Append` and `InsertAt` do to the elements, the
order and the set of elements of a queue; the others cite it.

Only model-checked: everything about `Tcp`, which uses a RECURSIVE operator that the prover does not
take; the disk cache's `RefsGivenBack`, which is false, and its liveness; the mutex device's loop; of the
scheduler that one cpu that sets priorities does not crash (`NeverCrashes`, which the
theorem leaves out where `Reniced` is not empty), and two properties of the run (`QueueInOrder`, `AstsInterrupt`) as such: the theorems
`QueueStaysSorted` and `AstsAreSeen` are about the formulas they ask of two of the parts; of handles the references
(`RefsExact`, a sum over threads, which is a fold, and the
folds are beyond the provers) and that listing does not crash.  All liveness properties are out of their reach.

## 5. Where code and comments disagree

Five runs show a behaviour that a comment of the source denies; each is a
finding in PROJECT.json.

- `event_stranded` (`oz_knl_event.c:693`): a flag set between the test of its value and the
  linking of the waiter wakes nobody.  What does hold is `AtMostOneStranded`.  In a thread lock the
  same can happen to one waiter, which is why `WakeDelivered` says that the flag is set or the lock taken
  and not that each waiter runs.  Nothing looks at the flag again: `oz_knl_thread_wait` looks at the thread's state only.  `Scheduler` and `DiskCache` have the same
  steps and the same gap.  `NobodySleepsOn` therefore leaves out a thread whose setter looked in the gap ("late"), and `DiskServes`
  one that sleeps on the set flag (`Stranded`); without that exception the run `waiting` reports `DiskServes` violated in part "readers".  The page
  cache alone takes the flags as their comments promise.
- `mutexdev_spin` (`oz_dev_mutex.c:618`): the loop over the waiting requests does not advance past one that is neither express nor first.
- `cache_forgotten` (`oz_knl_cache.c:731`): `freepage` finds all pages in use, unlocks the cache, and only then says that
  somebody waits; its caller clears the event flag after that.  A `done` in between makes a page idle
  and tells nobody, and the thread sleeps until another page goes idle or is freed.
- `sched_starves` (`oz_knl_thread.c:2020`): the quantum timer is started when a thread is loaded and fires once.  If nobody
  else wants the cpu then, a thread of equal priority that becomes computable later gets no share.
- `dcache_leak` (`oz_knl_dcache.c:1315`): a page that is dirtied while it is written keeps one reference too
  many, for ever: it can never be reclaimed.

Seen while modelling and not given a run:

- `oz_knl_event.c:551-552` promises callbacks a NULL event when the reference count has
  gone to zero; `callcallbacks` (603), called for a flag put on the high-ipl queue by `increfc` (474-478), gives them the flag.
- `oz_knl_event.c:231` divides by the interval, which `increfc` or `setimint` may have made zero
  since line 220 tested it.  `EventTimer` has this as `crashed = "divide"`, which
  `FreedInTheEnd` allows.
- `oz_knl_event.c:511` frees flag and timer after removing the timer, which a `setimint` may have inserted while
  an `event_timer` of an earlier expiry still runs.  `MaxSets` = 1 excludes it.
- `oz_knl_event.c:236` makes the timer state IDLE, after a test of the interval that a `setimint`
  may have changed since, and the timer with it queued; when it expires `event_timer` crashes ("Shouldn't
  ever be IDLE", line 246).  With `MaxSets` = 3 and intervals 0 and 1 `EventTimer` reaches it.
- `oz_knl_event.c:196` stores `nextwhen` in two steps, the interval first; an `event_timer` in between computes with half of it.
- `oz_dev_mutex.c:619` converts a waiting request from the mode its channel had when it was queued: without
  `OneAtATime`, a second setmode on the channel makes the counters wrong.
- `oz_knl_phymem.c:227` clears the flag that cache users wait on, and `allocpagew` never sets it again, as
  `oz_knl_cache_find` does.
- `oz_dev_mutex.c:723-733` tests whether somebody could go were it not for the one channel; where two
  holders block a request and one leaves, the other's unblock request is not completed.
- `oz_dev_mutex.c:272`: aborting the first waiting request does not try those behind it.
- `oz_dev_mutex.c:616`: a PR to CW conversion (or back) takes something away and gives something, and only a
  down-convert looks at the waiting requests.
- A thread lock's reader may stay blocked while only readers hold the lock: a late `lock_ex` clears the
  event that `ex_pr` set.  The next release sets it again.
- `oz_knl_lowipl.c:165`: the pop compares the list head with a sample and installs the sample's `next`; a struct that another cpu
  pops, calls and pushes again in between makes it install a stale `next`.  With two cpus and structs used twice
  `Lowipl` loses calls, which is why "twocpus" uses each once.
- `oz_knl_thread.c:2585`: `setcurprio` removes a thread in state COM from the queue, though a cpu
  may have taken it out already (state and queue agree only under two locks), and crashes.  Therefore the run has only one cpu
  where priorities are set, and `NoCrash` a hypothesis.
- `oz_knl_thread.c:2560`: `setcurprio` changes the priority of a thread that is in the queue before it locks the queue.  Another one that is
  inserted meanwhile goes by the new priority: with two of priority 3 in the queue, the first being set to 1, a thread of priority 2 is put
  before both, and stays before the second.  `QueueSorted` is therefore stated for `Reniced = {}`.
- `oz_knl_thread.c:2444`, `oz_knl_thread_setast`: a thread that enables asts is called without the hardware layer's second look, and an ast that is queued
  after the last one was executed waits for the next interrupt.
- `oz_knl_handle.c:379`: `statsget` locks the table shared, with the comment "don't allow changes"; so does the second half of
  `assign` (291-304), which stores an object before its type.  A list made in between counts a reference by the type of whatever the entry held before.
  In the run the thread that lists is alone.
- `oz_knl_handle.c:329`: `tablecopied` counts references for entries below `curmask`, `oz_knl_handletbl_delete` (199) gives back those up to `curmask`:
  an object whose handle is in the last entry loses a reference when the copied process ends.  "Increment the
  reference counts on all the objects" (305-307).  The run keeps the last entry free of a copy by its bounds.
- `oz_dev_fat.c:3480` uses `oz_knl_dcache_pfupd` without writethru on a page it keeps mapped: `mark_page_dirty` (`oz_knl_dcache.c:1315`)
  releases the exclusive mode the mapper does not hold, and hands the mapper's reference to the queue, though the mapper gives it back too.  The
  model ends with this (`spoilt`).
- `oz_knl_dcache.c:1314`: `mark_page_dirty` unlocks the queue before it lowers the page's lock.  If the routine is preempted there, the page can be
  written, `write_done` drops the last reference, and the page may be reclaimed before its lock is lowered.  The
  model has the step, and ends with it (`spoilt`): `Reclaim` of a page some request is about to unlock ("keep").
- `oz_knl_dcache.c:1462-1480`: `start_write` puts the spread timer back before it looks at `spread_collision`, and `startwriting` sets that after it has found
  the timer taken (1382-1384).  A collision that comes in between is not seen, and stays set for the next time: the pages wait for the next flush
  interval, or for the test `oz_knl_dcache_term` makes itself (272-279).  In `Issue` and `FlushTick` each side is one step, so that no collision is missed.
- `oz_knl_dcache.c`: when the read of `pfmap`, or of `map` called back, fails, the page is left locked exclusive; the model
  stops there (`stuck`), and so does everyone who wants the page.
- `oz_knl_dcache.c:1500`: `write_done` prints a status that is not good and goes on: a page whose write failed is clean, and the data are only in
  memory, until it is reclaimed.  The model ends with the failing write (`spoilt`).
- `oz_dev_ip.c:4958`: the third duplicate ack is answered with an ack up to the end of the segment that brought it, which may be
  more than has been received.
- `oz_dev_ip.c:5227`: a segment that begins before one that is buffered out of order and ends after it gives the merged entry the length of
  what lies beyond the old one, not of the whole (`longer` in `Insert`).  Less is then taken as received than was; and where the entry still
  reaches past the start of the next one, `seq_receivedok` overtakes that, which stays first in the list and stops the loop at 5239 for ever.
- `oz_dev_ip.c`: a transmit request on a listening connection gets sequence numbers before the SYN's: it succeeds, and the
  other side discards the data as old.  `Early` is empty for that reason, and leaves out what the comment at `oz_dev_ip.c:3111-3113` offers: to queue a
  transmit before the listen completes.
- `oz_dev_ip.c:3745`: the retransmission interval grows without a limit, and nothing gives an established connection up.

## 6. What is not modelled

Components with status `not_modelled` fall in two groups.

*Within reach, and planned* (section 7): contiguous allocation of memory, pipes, quota, logical names, i/o channels, processes, users and jobs, sections and
paging.

*Left out for good*: security (access lists are pure tables), the
identifier data base, images and the loader (file formats), start-up (runs once, alone), the log,
the console and the debugger, the machine layers but for the timer (their
interlocked instructions are the atomic steps of the models; page tables and interrupt controllers are hardware), drivers of hardware (register
protocols of devices that are not in the repository), file systems (on-disk formats; their
write ordering is that of the disk cache), the C
library and the utilities (sequential user-mode programs).

Left out of what is modelled:

- event flags: the per-process accounting and the name.
- cache: `oz_knl_cache_term`, several caches that share the list of old pages, the colours, and second references by mapped
  sections (`increfcby1`).
- mutexes: names and more than one mutex (a mutex never touches another), security attributes, and the
  failure of allocations before anything has changed.
- timers: the Alpha and Xen clocks, the daylight and rate corrections of the time of day.
- disk cache: requests of more than a page (a loop over pages), ramdisks, revalidation of a changed volume, what
  happens after a failing write, a `pfupd` or a page reclaimed early, `term` with abort.
- scheduler: creating threads, suspension, waits for several flags, user-mode asts and ast
  quota, the references to a thread and to its process, and what an exit does beyond leaving the cpu.
- handles: processor modes, access masks, `next` and look-up by object.
- network: arp, ip and its fragments, icmp, udp, dns, bootp, filters, and of tcp the poll requests and the wrap of sequence
  numbers.
- low-ipl calls: `alloc` and `free`, which only call the pool.

## 7. Plan

In this order; each step is a module, its run, its hazards' properties and, where named, proofs.
Done: thread locks, event flags and their timers, the mutex device, timers, the page cache, the disk cache, the
scheduler, low-ipl calls, handles and tcp; proofs about all of these but tcp.  A new module joins
the suite whose questions it shares.

1. `Devio` (channels, i/o in progress, abort against completion), `Pipe`, then suspension and waits for several flags in `Scheduler`.
2. `Phymem`, `Quota`, `Logname`, and `Section` (a page fault on each page state).
3. Proofs: `MutexDev` (`LoopServes` but for its end), `Tcp` with its recursion as a function.
