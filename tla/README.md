# newsim: a TLA+ model of the simulator

newsim is a multi-process simulator of persistent-memory architectures: a
harness starts `numProcs` traced programs, each under a tool (`libsim`) that
sees every instruction, load and store of its program and pushes it through a
simulated memory hierarchy kept in shared memory.  This directory models what
the processes do to that shared state, model-checks it with TLC and proves its
safety properties with TLAPS.

## The system

| Part | Source | State | Operations |
|---|---|---|---|
| Memory system, architecture KILN (the one compiled in) | `kiln.h`, structs of `libsim.h` | per process: L1, L2, persist buffer `pb`, `nextPersistTrax`, `nextAvailablePBLine`; shared: NVC, DRAM, `nvc_lock`, `dram_lock`, `nvm_lock` | `l1_access`, `l2_access`, `nvc_access`, `dram_access`, `nvm_access`, each with lookup, preinsert, evict, fetch, postinsert; `flush`, `overflow_flush`, `insert_PB` |
| Analysis routines | `libsim.cpp` 437-498, 564-597 | `persistent`, `tx_id`, cycle and instruction counters | `RecordMemRead`, `RecordMemWrite`, `fastForward` with the opcodes that begin (271) and end (578) a transaction |
| Phase barrier | `libsim.cpp` 500-561, 587-590 | `phase[]`, `global_phase`, `weave`, statistics of the phase | `UpdateGlobalPhase`, `weave` |
| Locks | `locks.h` | the lock word | spin, ticket and futex lock |
| Other architectures | `native.h`, `nvmlog.h`, `epb.h`, `epb_bf.h` | the same caches, other tags | the same handlers behind the function pointers that `main` sets |
| Start-up and end | `libsim.cpp` 89-221, 646-996 | everything, the ready pointer | `SimInit`, `main`, `Fini` |
| Harness | `epb.cpp` | `childInfo` | launch, wait for the ready pointer, reap |
| Shared heap | `galloc.cpp` | `GM` segment, its lock, the ready pointer | `gm_init`, `gm_attach`, `gm_malloc`, `gm_set_glob_ptr` ... |
| Log | `log.cpp`, `log.h` | its file and futex lock | `info`, `warn`, `panic` |

How they interact: the harness creates the shared segment and launches the
processes; process 0 runs `SimInit` and publishes the ready pointer, for which
the others and the harness poll.  From then on each process alone calls
`fastForward`, then `RecordMemRead`/`RecordMemWrite` for each instruction.  An
access is a chain of nested calls `l1_access` -> `l2_access` -> `nvc_access` ->
`dram_access` -> `nvm_access`, in which each level first evicts a victim through
the same chain.  L1, L2 and the persist buffer are private; NVC and DRAM are
shared.  Every PHASE_LENGTH cycles a process waits in `weave` for the others.

What is hard about it:

* evictions nest three deep, and each may push out what the level above is
  about to use, or move the pointer (`nextAvailablePBLine`) it will read next;
* tags that say "this line is persistent and belongs to transaction t" travel
  with write-backs long after t may have been flushed or the slot has changed
  hands;
* the NVC is shared by processes that evict each other's lines;
* the barrier uses three shared variables without a lock;
* the futex lock word lives partly in user space and partly in the kernel.

The full list, line by line, is under "hazards" in `PROJECT.json`.

## Modules

```
Ledger <~ Kiln
CacheOps <- Kiln <- KilnDoc, MCKiln            Mutex <~ FutexLock <- FutexProofs
CacheOps, Geometry <- Native                         <~ SpinLocks <- SpinProofs
CacheOps, Geometry <- Epb <- Architectures     Weave <- WeaveProofs
                   Native <~ Architectures           <- Phases
CacheOps <- CacheProofs                        Phases, WeaveProofs <- PhasesProofs
Kiln, CacheProofs <- KilnProofs                Harness <- HarnessProofs
Architectures, CacheProofs <- ArchProofs
```

(`A <- B`: B extends A; `A <~ B`: B instantiates A.)  The `Proofs` modules also
extend `TLAPS`; nothing is `RECURSIVE`.

### CacheOps

Operators that every level of every architecture repeats: the set an address
maps to, lookup (which does *not* look at the state, as in the code), the
replacement choice, the type of a write-back, and what `postinsert` leaves.  The
code stamps lines with a global 64-bit timestamp; only the order inside one set
is read, so `ts` is the rank of a line in its set.  An insertion gives the line
the highest rank and closes the gap it leaves, which is exactly the order the
stamps have (stamps are unique within a set: the private levels are stamped by
one process, each stamp followed by its own increment, the shared levels under
`nvc_lock`).

### Kiln

One module for the whole hierarchy, because the persist buffer is changed from
three levels inside one access.  A handler's activation is a record
(`l1call[p]`, `l2call[p]`, `nvccall[p]`) with its request, slot and stage, so
accesses of several processes interleave between the handlers as in the code:

| Code | Model |
|---|---|
| `l1cache[p]`, `l2cache[p]`, `nvc`, `dram` | `l1[p]`, `l2[p]`, `nvc`, `dram`: functions from slots to records |
| `pb[p]`, `nextAvailablePBLine`, `nextPersistTrax` | `pb`, `nextAvail`, `nextPersist` |
| `persistent`, `tx_id` | `persistent`, `txId` |
| opcodes 271, 578 | `StartTx`, `EndTx` |
| `RecordMemRead/Write`, head of `l1_access` | `RecordMemRead`, `RecordMemWrite` (`L1Enter`) |
| hit branch of `l1_access`, `l2_access`, `nvc_access` | `L1Hit`, `L2Hit`, `NvcHit` |
| miss: preinsert, call for the victim, or for the line if the slot is free | `L1Miss`, `L2Miss`, `NvcMiss` |
| victim invalidated, fetch called | `L1Evicted`, `L2Evicted` |
| fetch returned, tags, `insert_PB`, postinsert | `L1Fetched`, `L2Fetched`, `NvcFetched` |
| `dram_access` with its `dram_evict` and fetch | `DramServed`, inside the NVC's steps: it runs under `nvc_lock` and takes only locks that are released before it returns |
| `nvm_access` | no state besides statistics |
| `(uint64_t)(-1)` as transaction / buffer line / process | `NoTx` (above every real one, as in the unsigned comparison) / `NoLine` / `NoProc` |

An NVC hit is one step: it is a critical section of `nvc_lock`.  A miss is two
(`NvcMiss` takes the lock, `NvcFetched` releases it), so that what others could
do in between is visible, and `NvcCritical` states that they cannot.  The lock
itself is the abstract `Mutex`, which `FutexLock` is shown to implement.

`EndTx` has no guard on `persistent`, as in the code: an end without a begin
counts a transaction.  Requests to DRAM write no transaction tag in the model
because the DRAM's tags are never read.  The `level` and `lineId` of a buffer
entry only decide costs and debugging output and are left out.  Cycles,
latencies and statistics are left out.

### KilnDoc

What a comment of `kiln.h` promises about the same state and the code does not
keep: one property, refuted by its own run.

### Ledger

What the persist buffers of KILN promise, without lines, pointers and cache levels:
per process a set of records (a line and the transaction that last stored to it),
the oldest transaction that may not be durable and the running one.  A transaction
ends (`End`), the oldest becomes durable and its records leave (`Advance`), a record
of a transaction between the two enters (`Enter`).  It goes beside the others (`Add`)
or takes the place of one (`Replace`): of its own line's if there is one, with a flush
of all up to its transaction if the two are of different ones.  `Replace` among records
of one transaction loses the other line's, as `insert_PB` does.  `Kiln` instantiates it
with the entries of `pb` as the records, `nextPersistTrax` and `tx_id`
(`ImplementsLedger`): `Advance` is the head of `l1_access`, `Enter` the end of any handler
that serves a persistent request, everything else is invisible.  Which record is
replaced depends on the lines that tags remember; Ledger leaves it open.

### Geometry

What `Native` and `Epb` share of `libsim.h`: the number of processes, the
addresses, the slots of each cache.

### Native

`native.h` and `nvmlog.h` differ, beyond what is left out, in one assignment
(`L2Evict`), so one module has both: `arch` is chosen in `Init` and never
changes, as `main` installs one set of handlers.  Frames are as in `Kiln`;
`nvc_access` is one step (`NvcAccess`) because it holds `nvc_lock` from its first
statement to its last and everything below it is called from there.  `stored`
is a history variable: where each program has stored.

Where the two files have a function each, the module has a definition each
(`NativeDramAccess`, `NvmLogDramAccess` ...) and one that chooses by `arch`.

Two things the module makes visible.  No `postinsert` of these files sets the
`procId` of a shared line, which `SimInit` makes `(uint32_t)(-1)` and every lookup
compares: NVC and DRAM never hit.  And NVMLOG's `l2_evict` assigns `I` to
the address of its victim instead of its state (`nvmlog.h` 256), so a slot that
was modified once makes the next line loaded into it modified: `DirtyWasStored`
holds for NATIVE only, and its mutant is NVMLOG's assignment.

### Epb

`epb.h` and `epb_bf.h`, with the same `arch`.  The book of a process's persist
buffer is one record (`pb`, `next`, `oldest`, `storing`); the operators of the shared
levels map a *memory* (the shared caches and all books) to the set of memories
they may leave, because

* a conflict in NVC or DRAM reads the tag of another level at its own index,
  which may lie beyond the end of that level's arrays (any value), and
* the back flush of EPB_BF runs as long as the NVM has been idle, which is not in
  the model (any number of rounds, each of which must have had an entry to flush).

| Code | Model |
|---|---|
| `epb_flush`, `overflow_flush`, `back_flush` | `Flush` (`FlushedUpTo` with the assignment that follows it), `OverflowFlush`, `BackFlush` |
| `insert_PB` up to its store to `tx_id`; its store to `lineAddr` | `InsertPB` (within the step of the level that calls it: `Booking`); `StoreAddr` (`InsertPBEnds` for L1 and L2, `Booked` in NVC and DRAM) |
| "conflict" branches of the hits | `Resolved` |
| `l1_access` hit / miss / victim taken / fetched | `L1Hit` / `L1Miss` / `EpbL1Evicted`, `BfL1Evicted` / `L1Fetched` |
| `l2_access` | `L2Hit` / `L2Miss` / `L2Fetch` / `L2Fetched` |
| `nvc_access`, `dram_access`, `nvm_access` | `NvcAccess`, `DramAccess`, `NvmAccess`, inside the L2 steps |

`L2Fetch` and `L2Fetched` are two steps because a DRAM eviction of another process
may flush this one's buffer between them.  For the same reason `insert_PB`, which holds
no lock when L1 or L2 calls it, is two: it stores the transaction of an entry and then
its address (`epb.h` 95-98, `epb_bf.h` 115-118), and `storing` is what the second store
will write where.  A flush for another process (`epb.h` 822, `epb_bf.h` 831) or a back
flush (`epb_bf.h` 851) may come between.  It then leaves an entry with an address and no
transaction, which no flush removes.  In `nvc_access`, which holds `nvc_lock`, nobody
comes between the two stores.

What stays coarser than the code: the flushes, the search and the store to `tx_id` that
an L1 or L2 handler makes are one step, and so is `nvc_access` with all it calls, so
that the single stores of a flush for another process are not interleaved with those of
the owner.  The half entries that such interleavings could leave besides are not in the
model.

### Architectures

`main`'s switch on ARCHITECTURE, without KILN: one program with its markers over
whichever family of handlers is installed.  It extends `Epb` and instantiates
`Native` over the same variables.  `SimInit` and `fastForward` do not depend on
the architecture, so transaction counters and (empty) buffers exist under NATIVE
and NVMLOG, too (`MarkNative`), and the handlers must leave them alone.  Its
properties are those of the two modules, each under the architectures that
promise it.  `default:` installs the handlers of NATIVE.

### Mutex, FutexLock, FutexProofs

`Mutex` is what callers may assume.  `FutexLock` is the futex lock, one atomic
memory access or system call per step: test-and-set, failed spins up to the
limit (five, or one in the `nospin` variants: `SPINS`), exchange for 2,
FUTEX_WAIT (which sleeps only if the word is still 2), the second exchange after
waking, the decrement, the store of 0 and FUTEX_WAKE.  Threads that use
`futex_trylock_nospin_timeout` (`timed`) spin once and leave after one sleep; a
call chooses which kind it is.  FUTEX_WAIT may also end by a timeout.

### SpinLocks

The other two locks of `locks.h`, one atomic access per step: test,
compare-and-swap, reading a ticket, waiting for one's turn, the two trylocks, and
the unlocks.  The 32-bit word is its two halves, which wrap at `TicketMod` (2^16 in
the code); the assumption that there are no more threads than tickets is the
comment's "will not work with more than 64K threads".  `kind` and `mwait` choose
the lock and the build.  The monitor of `_mm_monitor` is a flag per thread that any
write to the word clears; `_mm_mwait` ends when it is clear or at an interrupt,
which may come but is never promised.

### Weave

`phase`, `global_phase` and `weave` with one shared access per step.  They are
plain variables in shared memory, so the compiler has freedom, which is modelled
as choice: `phase[0]` may be kept in a register over `UpdateGlobalPhase` or read
again at any point (`Reload`), and the last two stores may be done in either
order (`pending`).  Between these accesses memory is sequentially consistent.
`Report` and `Lower` are the body of process 0's loop, which ends with clearing
the flag.

### Phases

What `Weave` abstracts as `EndPhase`: the 32-bit counter `cycles`, one up per
instruction (`FastForward`), one down per memory operand (`RecordMem`), modulo
`CycleMod`, and the test of its quotient by `PHASE_LENGTH` against the phase.  A
program may exit between two instructions, after which its process takes no step.
`len` is a history variable that counts the instructions of a phase, and says
`Lost` once the counter was decremented at 0.  `ImplementsWeave` states that with
the counter hidden this is a behaviour of `Weave` with a `PhaseBound` that is no
bound of the model but the largest quotient the counter can reach.

### Harness

The processes of the machine, numbered in the order of the forks, with what each
executes:

| Code | Model |
|---|---|
| `childInfo` of a harness | `childInfo[h]`, on `Slots` slots although the array has `numProcs`: what lies behind is any status (`Init`) |
| `phase[]` and `global_phase`; `weave` | `lead` (each phase less the global one); `weave` |
| `LaunchProcess`, `LaunchTraceProcess` (they differ in their arguments) | `Fork`, `ForkFails`; in the child `Exec`, `ExecFails` |
| waiting loop, `waitpid`, `eraseChild` | `Loop`, `Reap`, `ReapNone`, `Return` |
| segment marked `IPC_RMID` | exists while somebody is `Attached` |
| `prctl`, `gm_attach`, `gm_isready` | `Prctl`, `Attach`, `IsReady` |
| `SimInit`, `gm_set_glob_ptr` | `Fill`, `Publish` |
| polling | `Poll` |
| a critical section of any lock in the segment | `Call`, `Acquire`, `Release` |
| end of a phase in `fastForward` | `EndPhase` |
| first loop of `weave` with `UpdateGlobalPhase` | `ScanPhases` (all phases are equal), `UpdateGlobalPhase` (publishes `phase[0]`), `PassGate` |
| second loop of `weave` | `ClearWeave` (process 0), `LeaveWeave` |
| an `exec` of the traced program, its end | `Reexec`, `Finish`, neither of which is possible inside `weave` or a lock |
| signals, parent death, zombies, adoption by init | `Killed`, `ParentDied`, `AfterDeath` |

The barrier is here because the harness waits for programs that wait for each other: a
program that ends leaves its phase behind for good.  `Weave` and `Phases` have its
single accesses; here the comparison of all phases is one step and so is publishing
`phase[0]`, with anything in between.

A child whose `execvp` fails returns to `main`'s loop with the copy of the table it
was forked with, and is a harness from then on.

## What is checked

| Run | Instance | Shows |
|---|---|---|
| `kiln_one` | 1 process, 3 addresses (one on the stack), transactions 0..3, L1 1 line, L2 2, NVC 1, DRAM 1, buffer 2 | `TypeOK`, `PBWindow`, `PBDistinct`, `CachesUnique`, `WritebackLands`, `StackVolatile`, `TagsAgree`, `ImplementsLedger` |
| `kiln_two` | 2 processes, one heap and one stack address, NVC 2 ways, in or before the first transaction | `CachesUnique`, `NvcCritical`, `NvcTagOfOwner`: misses in the shared level do not disturb each other, and no tag changes hands |
| `kiln_live` | 2 processes, 2 stack addresses, one line in every cache, fair | `AccessReturns`: the nested evictions and the waiting for `nvc_lock` end |
| `arch_one` | NATIVE, NVMLOG, EPB, EPB_BF; 1 process, 3 addresses (one on the stack), transactions 0..1, L1 1 line, L2 2, NVC 1, DRAM 1, buffer 2 | `ArchTypeOK`, `LinesUnique`, `EntriesDistinct`, `VictimArrives` |
| `arch_two` | the same four; 2 processes, one heap and one stack address, one line in every cache, buffer 1 | `LinesTagged`, `ModifiedWasStored` |
| `futex` | 3 threads, 2 spins, fair | `TypeOK`, `MutualExclusion`, `NoLostWakeup`, `SleeperOnlyOvertaken`, `ImplementsMutex` |
| `spin` | 3 threads, 3 tickets, both locks, with and without mwait, fair | `TypeOK`, `ImplementsMutex`, `TicketOrder`, `TicketServed`, `SomebodyEnters` |
| `phases` | 2 processes, counter modulo 7, phases of 2 cycles, up to 2 operands, fair | `PhasesTypeOK`, `OneAhead`, `GlobalPhaseReached`, `GlobalPhaseGrows`, `PhaseTakesLength`, `ImplementsWeave`, `BarrierStalls` |
| `harness` | 2 simulators, loops to 3, everybody mortal, fair | `TypeOK`, `UsesInitialised`, `EraseFindsChild`, `NoOrphans`, `HarnessEnds` |

What these mean for the simulator:

* `PBWindow` and `PBDistinct`: the persist buffer, from which the costs of
  durability are computed, never holds a line of a transaction it has already
  made durable nor one line twice, whichever level inserted it and however late
  a write-back brings its tag back.
* `ImplementsLedger`: what the levels do to the buffer, each with a tag of its own and
  `nvc_access` twice, amounts to one record entering, and what leaves is either flushed
  with its transaction or the one record replaced.  The flush at the entry of
  `l1_access` removes what it makes durable and nothing else.
* `CachesUnique`: lookups are sound; a miss means the line is not there.
* `WritebackLands`: a dirty or persistent victim is found one level down when
  the eviction returns.  L1 is *not* included in L2, so this is not trivial:
  the write-back may itself miss and evict.
* `StackVolatile`, `TagsAgree`: what `evict` relies on when it decides by
  `pb_line` and then sends `tx_id`.
* `AccessReturns`: with both processes at it, one of them always completes its
  access (one process may be overtaken at `nvc_lock` for ever, as the futex lock
  is unfair).
* `ModifiedWasStored` (NATIVE): the counts of dirty write-backs are of stores the
  program made.
* `LinesTagged`, `LinesUnique` hold although EPB's handlers
  invalidate slots and assign owners in the wrong places: lookup goes by address
  alone and preinsert never chooses a slot twice before it is filled.
* `EntriesDistinct` (EPB, EPB_BF) has two parts.  `PBDistinct`: no persist buffer holds a
  line twice.  It is run for one process, and proved for any number with flushes for
  other processes falling between the two stores of `insert_PB`.  `PBWhole`: outside
  `insert_PB` an entry has an address exactly if it has a transaction.  It is stated for
  one process, because with two it is false of the code as it is of the model.
* `TicketOrder`: while a thread waits with its ticket, only those ahead of it enter,
  no trylock slips in.  `SomebodyEnters` shows what the second test after
  `_mm_monitor` is for in the spin lock, and excludes the ticket lock with mwait,
  whose second test does not ask for the thread's own turn.
* `PhaseTakesLength`: a phase is `PHASE_LENGTH` instructions or more.  It can be
  much more (operands take the counter back), and it is less only after the
  counter has wrapped below zero, which two operands of an early instruction do.
* `BarrierStalls`: whoever ends a phase gets through the barrier, unless the flag
  stays up behind process 0's back (`weave_doc_gate`), a process has exited or used
  up its counter, or one executes operands faster than instructions for ever.
  The middle case is the ordinary one: the first program to end stops all others
  at the end of their phase, and the harness waits for them for ever.
* `OneAhead` and `GlobalPhaseGrows` hold between two processes only.  With three
  processes TLC finds a process publishing a phase read so long ago that the
  global phase goes back, and processes two phases apart; what is left for any
  number is `GlobalPhaseReached`.  Each is proved for what it holds of.
* `UsesInitialised`: process 0 may exec before or after it published and the
  structures are still initialised once; nobody runs before.  It rests on
  the ready pointer being set after everything else and never taken back, and on
  process 0 being launched once: a child that cannot exec launches only what comes
  after it.
* `EraseFindsChild`: neither assertion of `eraseChild` can fail, whatever lies
  behind the table.  `NoOrphans`: who returns from `main` has reaped everybody.
* `HarnessEnds`: the harness ends, or one of six things is so for ever: a status
  behind the table looks like a running child; process 0 has died before it
  published; a process was killed inside a critical section; a child is a
  second harness and waits for children that are not its own; a program waits in
  `weave` for the phase of a core whose program has ended or was killed; or it waits
  there for a flag that process 0 no longer clears.  The last two need no fault: with
  two programs of different length the first is how a simulation ordinarily ends, or
  does not.  All of this is under the fairness below, which leaves out a program that
  runs for ever.

Runs that refute a comment (`expect: violation`):

| Run | Comment | What happens |
|---|---|---|
| `kiln_doc_entry` | "a new entry" | in a buffer full of its own transaction, a line overwrites another's record, which is never flushed, and `nextAvailablePBLine` stays where it is |
| `weave_doc_gate` | "Previous phase end", "Finish Bound" | two processes wait for each other for ever |
| `harness_doc_twin` | "Could not exec, killing child" | the child lives on as a harness and launches the remaining cores a second time |

`weave_doc_gate` needs `numProcs > 1`; the repository is configured with 1 but
declares all its arrays for 8 and has locks for no other purpose; so does
`harness_doc_twin`.

More divergences show on reading or appeared while the models were explored, and
have no run of their own:

* an NVC victim is filed in DRAM under the id of the process that evicts it
  (`kiln_nvc_evict` and `epb_nvc_evict` call `dram_access` with their own
  `procId`; the models do the same).  With two processes a persist buffer of EPB
  ("buffer per core") then takes entries of transactions its process never began;
* a PUTS ("clean writeback") that hits turns a modified line of the level below
  clean (`kiln.h` 366): modified in L2, read into L1, evicted from there unmodified;
* EPB takes `nextPersistTrax` on a conflict in L1 from the tag of an L2 line
  (`epb.h` 167), which may be `(uint64_t)(-1)`: from then on every store is "persisted
  data, no need to insert" (`epb.h` 82);
* `futex_haswaiters`, which nobody calls, has "no false positives" (`locks.h` 218), but a thread that
  stopped spinning acquires a free lock by writing 2 into it and holds it alone;
* `ticket_lock` with mwait tests `*lock` after arming the monitor (`locks.h` 124), not
  its turn: it may halt in front of its own lock until an interrupt comes;
* process 0 clears the "phase based counter"s (`libsim.h` 467) while a process that
  left the gate earlier is already counting in the next phase;
* KILN's "new trax, flush previous trax" (`kiln.h` 106) flushes the oldest transaction
  only and moves `nextPersistTrax` on by one: if earlier transactions stored nothing,
  the entries of the previous one stay in the buffer;
* KILN's "buffer is full" (`kiln.h` 70) branch also runs for a line that is in the
  buffer under an earlier transaction, however many entries are free;
* each level tags one store with another `pb_line` ("which line in pb it locates",
  `libsim.h` 141), because the levels below have moved `nextAvailablePBLine`;
* EPB's `l1_evict` invalidates a line of the L2 (`epb.h` 272), so "find an unused
  cacheline" finds used ones, and `dram_evict` gives the line to process 0
  (`epb.h` 826) instead of invalidating it;
* transactions of EPB do not become durable in order: a late write-back can replace
  the newer entry of its line, and a flush can remove it before older ones;
* the two defects of NATIVE and NVMLOG described above.

### Bounds and why they are enough

`TxBound` (transactions ended by a process), `PhaseBound` in `Weave`, `MaxOps` in
`Phases` and `Mortal` in `Harness` are the only bounds in the modules; everything
else is finite by itself.  `TxBound = 3` lets
`nextPersistTrax` advance, lag behind transactions that stored nothing, and an
old line return after its transaction was flushed.  It also lets records of two
transactions be together in a buffer, which takes such a lag, records replace each
other within a transaction, and `overflow_flush` run.  That an overflow flushes other
records than the one replaced, and that a late write-back replaces a later record,
takes one transaction more (and for the second an L1 of two lines).  TLC finds the
properties to hold there too, in up to five minutes; no run is kept for it, as
`Refinement` covers it.  `arch_one` uses `TxBound = 1`:
two transactions are what a conflict needs.  The cache sizes are the
smallest at which each level both hits and evicts: L1 has one line and L2 two,
so that L1 misses hit and miss in L2; two ways give the LRU order a meaning;
one-line NVC and DRAM make every miss evict.  Three addresses are one more than
L2 holds.  Two processes are enough for any pair to conflict over a shared slot;
`arch_two` gives each one transaction, which is what a tag needs to travel through
the shared caches under the other process's id.
For the futex lock, three threads let one hold or free it, one sleep and one be on
its way to sleep or steal it; for the ticket lock three threads over three tickets
are as many as may wait, so that the halves meet when all of them do.
`CycleMod = 7` with `PHASE_LENGTH = 2` lets both ends wrap, leaves a last phase
that is shorter than the others, and `MaxOps = 2` operands are enough to outrun the
instructions.  In `harness`, two launches are enough for a second harness (pids are
bounded by the doublings, not by a constant), three slots for one behind the table,
and every pid is mortal.  Theorems cover what the bounds cannot.

Processes stop in `Weave` at `PhaseBound`, in `Phases` when programs exit, and in
`Harness` when all have ended, so the runs of these do not check deadlock; all
others do.

### Fairness

* `Kiln`: weak fairness of each process's handlers.  A handler runs on the
  process's own thread and waits for nothing but `nvc_lock`.
* `SpinLocks`: weak fairness of each thread's steps after its call.  A thread in
  mwait has one only once the line was written to; interrupts are not fair.
* `FutexLock`: weak fairness of each thread's own steps.  Critical sections in
  the code end (they are a few assignments), and sleeping threads are not
  scheduled: an asleep thread without timeout has no enabled step.
  `SleeperOnlyOvertaken` claims no more than the comment at the lock ("quite
  unfair").
* `Weave`: weak fairness of reaching the end of the phase and of each step of the
  waiting loops, separately from the compiler's choice `Reload`, which is never
  forced.

* `Phases`: weak fairness of each process: it runs its program, operands included,
  until it exits.  Nothing makes it exit, and nothing makes the counter grow.
* `Harness`: weak fairness of every harness and simulator, of `execvp`, which
  returns or does not, and of a parent's death reaching its children.  The barrier's
  loops are among the simulator's steps.  Strong fairness of `Finish` says of the
  traced programs that they are finite: one that gets back from the simulator again
  and again ends.  It says nothing of a program that waits in `weave` or for a lock, as
  `Finish` is not enabled there, and those waits may be for ever.  Nobody has to be
  killed, to end a phase or to take a lock.

## What is proved

Every safety property the passing runs check is proved with TLAPS for every value of
the constants, of the models as described above, under the assumptions the modules name (`KilnAssumption`,
`GeometryAssumption`, `EpbAssumption`, `FutexAssumption`, `SpinLocksAssumption`,
`WeaveAssumption`, `PhasesAssumption`, `HarnessAssumption`).  They say that sizes are
positive, that an absent value is none of the real ones, and in `Epb` that L1 is not
larger than L2, as in `libsim.h`.  Two theorems of `WeaveProofs`, and with them two of
`PhasesProofs`, assume `numProcs <= 2`: what they state is false of three.

`CacheProofs` has what `KilnProofs` and `ArchProofs` both need about `CacheOps`: a set
lies within its cache, the victim within its set, an insertion keeps ranks and
states in range, and the two notions of order in a cache.  `AtHome`: a line is in the
set of its address.  `Distinct`, and `DistinctOwned` for caches whose lines have
owners: no line is there twice.  Address 0 is exempt, it is what unused lines have
and what NVMLOG leaves of evicted ones.

### KILN

`KilnProofs` has two invariants.  `IInv` is about persistence and gives `TypeOK`,
`PBWindow`, `PBDistinct`, `StackVolatile`, `TagsAgree` and the refinement
`ImplementsLedger`.  It joins `TypeOK`,
`TagsAgree`, `BuffersOK` (window, no duplicates, heap addresses of every buffer) and
`NvcStackOK` (no stack line tagged in the NVC).  `TagsAgree` is what makes it
inductive: a buffer entry comes from a request in flight, whose transaction is
at most `txId`, requests come from tags or the program, and tags from requests.  The
lower end of the window needs no memory of the past: `insert_PB` refuses what is
older than `nextPersistTrax`, and the advance flushes exactly the transaction that
falls out.

`Refinement` proves `ImplementsLedger` from the same `IInv`.  `InsertIs` says that
`insert_PB` refuses or writes one line, the one that has the address if any has;
`InsertedRecords` that on the set of records this is an `Add` or a `Replace`, which needs
the buffer to be without duplicates (else the replaced record would survive in another
line); `BufferedTwice` that the second insertion of `nvc_access` changes nothing.  The
bounds of `Enter` are those of the window.

`CInv` adds where the lines are, and gives `CachesUnique`, `WritebackLands`,
`NvcCritical` and `NvcTagOfOwner`.  None of these is inductive, because a handler acts
on a slot it chose before other handlers ran:

* `L1Home`, `L2Home`: from a miss to the insertion, the slot stays in the set of the
  missed address and the address stays missing; the eviction in between cannot bring
  it in.
* `Landing`: while L1 evicts, the request L2 works on is the write-back of the line in
  L1's slot, and when L2 is idle again it has that line, with its modification and
  its transaction.
* `NvcHome`, with `NvcCritical`: the slot of the access that holds `nvc_lock` is in the
  set of its address.
* `AllBegun`: tags and requests of a process name transactions it has begun.
  `TagsAgree` allows for the one numbered `txId` also before it begins, which is enough
  for the buffer's window but not for a tag that outlives its slot's owner.

Each step has one lemma for its own process's part (`PrivateInv`) and one for the
shared part; that a step leaves the parts of others alone is proved once
(`SameParts`).

### NATIVE, NVMLOG, EPB, EPB_BF

`ArchProofs` is about `ArchSpec`, all four in one.  Nobody changes the architecture
(`ArchStays`), so a behaviour stays in the family it began in, and `NativeRuns` and
`EpbRuns` say what holds in each.

`NativeInv` is `L1Home`, `L2Home` and `Landing` as for KILN and, for NATIVE, `Clean`: what is
modified, or travels as modified, was stored to.  That needs the slot a line is
fetched into to have been emptied first, since `postinsert` keeps a state M; L2 of
NVMLOG does not do so, which is why `ModifiedWasStored` does not hold of NVMLOG and
`L2Home` has no such conjunct for both.  It gives `VictimArrives`,
`ModifiedWasStored` and the native half of `LinesUnique` and `ArchTypeOK`.

`EpbInv` joins the types, the order of the private caches, `GoodNvc`, `GoodDram` and
`Books`.  The properties `EntriesDistinct` and `LinesTagged` are proved together, since
entries come from requests, requests from tags and tags from requests; two facts had
to be added that no run checks: a line or a request that carries a transaction has an
address of the program's heap (never 0, so `insert_PB` finds what it should), and shared lines
are at home.  A book may be met in the middle of `insert_PB` (`HeldBook`): no line is in it
twice, the line still to be stored is in no other slot (`Pending`), and a flush, which
only takes entries out (`ThinnedBook`), changes neither.  For one process the book is also
whole but for the entry being stored (`WholeBook`), and nobody else flushes it then.  `LinesUnique` has a difficulty of its own in EPB, whose `dram_evict` gives
its victim to process 0: for a moment process 0 may have a line of the DRAM twice.
The lemmas therefore say of a cache that it is in order but for one slot (`SameBut`),
and that this slot is the one served next (`DramEvicted`, `DramServed`).  The shared
levels are operators on memories, so the lemmas about them are, too: whichever memory
`NvcAccess` may leave is good if the one it found was (`NvcAccessed`).  The back flush
of EPB_BF is a recursive function; that it exists and is what its definition says is
proved by the least counterexample (`RoundsExist`, `RoundsAre`), as is that every
round leaves the books in order (`RoundsGood`).

### Locks

`FutexProofs`: `TypeOK`, `MutualExclusion`, `NoLostWakeup`, and that the lock
implements `Mutex`.  The inductive invariant adds `HeldWord` (while
somebody holds the lock the word is not 0) and the bound on spins.  The refinement
maps the holder to the thread in `cs` or `clear`.

`SpinProofs`: `TypeOK`, `ImplementsMutex` and the action property `TicketOrder`, for both
locks in both builds.  Mutual exclusion of the ticket lock is not inductive: it
depends on the tickets of those who only wait.  `TicketsOut` says, modulo `TicketMod`,
that the halves of the word are as far apart as threads wait or hold, and that the
tickets of those who wait are different, lie between the halves, and are not the one
being served while somebody is inside.  That the assumption of no
more threads than tickets is enough, with the halves equal both when nobody and
when everybody has a ticket, is the counting part of the proof
(`FiniteSetTheorems`).

### Barrier

`WeaveProofs`: `GlobalPhaseReached` for any number of processes, inductive with
"what anybody has read of `phase[0]` is at most `phase[0]`"; and for two processes
`OneAhead` and the action property `GlobalPhaseGrows`.  `TwoInv` ties what a process has
read to the phases as they are: whoever is about to publish has compared the phases
since its own last changed, publishes no less than its own phase, and the other one
cannot have moved beyond the gate meanwhile.

`PhasesProofs`: `PhasesTypeOK`, `PhaseTakesLength`, that `Phases` implements `Weave`
(`ImplementsWeave`), and through that `GlobalPhaseReached`, `OneAhead` and
`GlobalPhaseGrows` with the cycle counters
in place; for every width of the counter and every length of a phase, the code's
2^32 and 10000 among them.  The inductive invariant `PInv` joins the one of
`WeaveProofs`, the types of the program's variables and `InPhase`: until the counter
of a process is decremented at 0 it is below the end of the phase, and at most as
far past its beginning as the instructions of the phase allow.  The quotient of the
counter is treated once, in `QuotientAbove`; everything after is linear arithmetic.
That the phase stays within `PhaseBound`, which no code enforces, follows from the
width of the counter (`QuotientBound`).

### Start-up and end

`HarnessProofs`: `TypeOK`, `UsesInitialised`, `EraseFindsChild` and `NoOrphans`, for any
number of processes, any size of the table and any choice of mortals.  `FamilyInv` is what `eraseChild`
relies on: a child is in the table of its harness and runs for all the table knows
(`ChildrenKnown`), also when that harness is a copy forked from another with a copy of
the table; for that, pids are never used again (`TablesOld`) and the slots of children
still to launch are empty (`SlotsLeft`).  `BootInv` says that at most one process is, or
may still become, the simulator of core 0 (`OneFirst`), and that until it has published
the structures are filled exactly if it is about to publish (`FirstFills`).

### Only model-checked

All liveness (`AccessReturns`, `SleeperOnlyOvertaken`, `TicketServed`, `SomebodyEnters`,
`BarrierStalls`, `HarnessEnds`): the prover has no rule for fairness that reaches these.  For
these, and for the three refuted comments, the exploration of the small instances is
all there is.

## Not modelled, and the plan

In order:

1. The flushes of `Epb` entry by entry, so that those for other processes interleave
   with the owner's `insert_PB` store by store, and instances with two processes and
   a buffer of two lines, which take longer than all other runs together.
2. An abstract specification of EPB's persist buffer beside `Ledger`, whose
   transactions do not become durable in order.

Left out for good: the third-party allocator (`g_heap`), container aliases
(`g_std`), formatting, log files and output, Pin's registration calls, fast
forwarding (compiled off), and the statistics with the latencies they are computed
from.  The statistics include the phase counters that `weave` reports and clears,
the undo log of NVMLOG, and the `level` and `lineId` of buffer entries; none of
them changes the course of a simulation, except that the idle time of the NVM
limits EPB_BF's back flush, which is a choice in `Epb`.
