-------------------------------- MODULE Epb --------------------------------
(***************************************************************************)
(* The memory system under the lazily persistent architectures EPB         *)
(* (src/epb.h) and EPB_BF (src/epb_bf.h).  As under KILN, a persist buffer *)
(* records which lines of a process's transactions are not yet durable;    *)
(* here a transaction is flushed only on a conflict: a store to a line     *)
(* that an earlier, unflushed transaction has written, or an eviction from *)
(* the DRAM.  EPB_BF also flushes single entries while the NVM is idle.    *)
(*                                                                         *)
(* The two files are the same code but for four places: the last           *)
(* assignment of l1_evict and of dram_evict, the test in l2_postinsert,    *)
(* and nvm_access.                                                         *)
(*                                                                         *)
(* nvc_access runs from start to end under nvc_lock, with the DRAM and the *)
(* NVM inside: it is one step of the L2 handler that calls it.  The levels *)
(* above interleave with those of other processes, also in the middle of   *)
(* insert_PB, which holds no lock there: nvc_access of another process may *)
(* flush the buffer in between.  The effect of nvc_access is given as      *)
(* the set of memories it may leave, because the code reads beyond the     *)
(* ends of arrays and because the time the NVM has been idle is not in the *)
(* model.  Not in this module: cycle counts, latencies and statistics.     *)
(***************************************************************************)
EXTENDS CacheOps, Geometry

CONSTANTS
  StackBase,        \* addresses from here on are never persistent
  TxBound,          \* BOUND: no process ends more than TxBound transactions
  PB_SIZE           \* entries of a persist buffer

ASSUME EpbAssumption ==
  /\ StackBase \in Nat
  /\ TxBound \in Nat
  /\ PB_SIZE \in Nat \ {0}
  /\ L1Sets * L1Ways <= L2Sets * L2Ways

VARIABLES
  arch,             \* the architecture whose handlers main installed
  l1, l2,           \* [Procs -> cache]: private caches
  nvc, dram,        \* shared caches, whose lines also name their process
  persist,          \* [Procs -> book]: pb, nextAvailablePBLine, nextPersistTrax
                    \* and what insert_PB has still to store
  persistent,       \* [Procs -> BOOLEAN]: inside a transaction
  txId,             \* [Procs -> Nat]: the current transaction
  l1call, l2call    \* [Procs -> frame]: activation of each private handler

shared == <<nvc, dram, persist>>
trax   == <<persistent, txId>>
vars   == <<arch, l1, l2, shared, trax, l1call, l2call>>

-----------------------------------------------------------------------------
(* Data *)

Archs == {"EPB", "EPB_BF"}

\* (uint64_t)(-1) as a transaction: compares greater than every real one, and
\* its successor is 0.
NoTx == TxBound + 2
Txs  == 0 .. TxBound
AnyTx == 0 .. NoTx
SuccTx(tx) == (tx + 1) % (NoTx + 1)

PBLines == 0 .. PB_SIZE - 1

Stages == {"idle", "enter", "evicting", "fetching", "fetched"}

NoEntry == [tx |-> NoTx, addr |-> NoLine]
NoTag   == [tx |-> NoTx, pb |-> NoLine]
NoStore == [slot |-> NoLine, addr |-> NoLine]

EmptyLine == [addr |-> 0, state |-> "I", ts |-> 0, tx |-> NoTx, pb |-> NoLine]
EmptySharedLine ==
  [addr |-> 0, state |-> "I", ts |-> 0, tx |-> NoTx, pb |-> NoLine, proc |-> NoProc]

\* MemReq.  A request is persistent exactly if it has an epoch.
Request(addr, type, epoch, line) ==
  [addr |-> addr, type |-> type, epoch |-> epoch, pb |-> line]
Volatile(addr, type) == Request(addr, type, NoTx, NoLine)
Persistent(req) == req.epoch # NoTx

\* A handler's activation: its request, its slot, where it stands.
Frame(req, slot, stage) == [req |-> req, slot |-> slot, stage |-> stage]
Returned     == Frame(Volatile(0, "GETS"), 0, "idle")
Entered(req) == Frame(req, 0, "enter")

-----------------------------------------------------------------------------
(* The persist buffer of one process.  book.pb is its buffer, book.next    *)
(* its nextAvailablePBLine, book.oldest its nextPersistTrax.  While        *)
(* insert_PB has stored the transaction of an entry and not yet the        *)
(* address, book.storing is its slot and that address, and NoStore else.    *)

\* flush: every entry up to transaction tx becomes durable and leaves.
EpbFlush(pb, tx) ==
  [i \in DOMAIN pb |-> IF pb[i].tx # NoTx /\ pb[i].tx <= tx THEN NoEntry ELSE pb[i]]
BfFlush(pb, tx) == EpbFlush(pb, tx)
Flush(pb, tx) == IF arch = "EPB" THEN EpbFlush(pb, tx) ELSE BfFlush(pb, tx)

\* overflow_flush differs from flush only in what it costs.
EpbOverflowFlush(pb, tx) == EpbFlush(pb, tx)
BfOverflowFlush(pb, tx) == BfFlush(pb, tx)
OverflowFlush(pb, tx) ==
  IF arch = "EPB" THEN EpbOverflowFlush(pb, tx) ELSE BfOverflowFlush(pb, tx)

\* insert_PB chooses the line that already has the address, else the one asked for.
PBSlot(pb, want, addr) ==
  LET same == {i \in PBLines : pb[i].addr = addr}
  IN  IF same = {} THEN want ELSE Max(same)

\* MUTANT of EpbInsertPB: the buffer is not searched for the address.
InsertPBAsAsked(book, want, entry) ==
  [book EXCEPT !.pb = [@ EXCEPT ![want].tx = entry.tx], !.next = (@ + 1) % PB_SIZE,
               !.storing = [slot |-> want, addr |-> entry.addr]]

\* MUTANT of EpbInsertPB: nextAvailablePBLine does not wrap around.
InsertPBUnwrapped(book, want, entry) ==
  LET slot == PBSlot(book.pb, want, entry.addr)
  IN  [book EXCEPT !.pb = [@ EXCEPT ![slot].tx = entry.tx], !.next = @ + 1,
                   !.storing = [slot |-> slot, addr |-> entry.addr]]

\* insert_PB up to its store to tx_id ...
EpbInsertPB(book, want, entry) ==
  LET slot == PBSlot(book.pb, want, entry.addr)
      full == book.pb[slot].tx \notin {entry.tx, NoTx}
      kept == IF full THEN OverflowFlush(book.pb, entry.tx) ELSE book.pb
  IN  IF entry.tx < book.oldest
      THEN book
      ELSE [book EXCEPT !.pb = [kept EXCEPT ![slot].tx = entry.tx],
                        !.next = IF kept[slot].tx # entry.tx THEN (@ + 1) % PB_SIZE ELSE @,
                        !.storing = [slot |-> slot, addr |-> entry.addr]]
BfInsertPB(book, want, entry) == EpbInsertPB(book, want, entry)

InsertPB(book, want, entry) ==
  IF arch = "EPB" THEN EpbInsertPB(book, want, entry) ELSE BfInsertPB(book, want, entry)

Storing(book) == book.storing # NoStore

\* ... and its store to lineAddr.
EpbStoreAddr(book) ==
  LET slot == book.storing.slot
      addr == book.storing.addr
  IN  IF Storing(book)
      THEN [book EXCEPT !.pb = [@ EXCEPT ![slot].addr = addr], !.storing = NoStore]
      ELSE book
BfStoreAddr(book) == EpbStoreAddr(book)
StoreAddr(book) == IF arch = "EPB" THEN EpbStoreAddr(book) ELSE BfStoreAddr(book)

\* MUTANT of Tag: a volatile access clears only the transaction.
TagKeepLine(next, req) ==
  [tx |-> req.epoch, pb |-> IF req.pb = NoLine THEN next ELSE req.pb]

\* The tags every access handler gives the line it serves.
Tag(next, req) ==
  IF Persistent(req)
  THEN [tx |-> req.epoch, pb |-> IF req.pb = NoLine THEN next ELSE req.pb]
  ELSE NoTag

Tagged(cache, slot, tag) == [cache EXCEPT ![slot].tx = tag.tx, ![slot].pb = tag.pb]

\* The book while its process serves req at a level, and after that: nothing can
\* come between the two under nvc_lock.
Booking(book, req) ==
  IF Persistent(req)
  THEN InsertPB(book, Tag(book.next, req).pb, [tx |-> req.epoch, addr |-> req.addr])
  ELSE book
Booked(book, req) == StoreAddr(Booking(book, req))

\* "conflict": a persistent request hits a line that an earlier transaction,
\* not flushed yet, has written.  That transaction is flushed, and
\* nextPersistTrax becomes the transaction tag of some line of the L2.
Conflict(book, tx, req) == Persistent(req) /\ tx < req.epoch /\ tx >= book.oldest

FlushedUpTo(book, tx, next) == [book EXCEPT !.pb = Flush(@, tx), !.oldest = next]

Resolved(book, tx, req, next) ==
  IF Conflict(book, tx, req) THEN FlushedUpTo(book, tx, next) ELSE book

-----------------------------------------------------------------------------
(* Initial state: SimInit *)

NoBooks ==
  [p \in Procs |-> [pb |-> [i \in PBLines |-> NoEntry], next |-> 0, oldest |-> 0, storing |-> NoStore]]

NoTrax ==
  /\ persistent = [p \in Procs |-> FALSE]
  /\ txId = [p \in Procs |-> 0]

Init ==
  /\ arch \in Archs
  /\ l1 = [p \in Procs |-> [i \in L1Slots |-> EmptyLine]]
  /\ l2 = [p \in Procs |-> [i \in L2Slots |-> EmptyLine]]
  /\ nvc = [i \in NvcSlots |-> EmptySharedLine]
  /\ dram = [i \in DramSlots |-> EmptySharedLine]
  /\ persist = NoBooks
  /\ NoTrax
  /\ l1call = [p \in Procs |-> Returned]
  /\ l2call = [p \in Procs |-> Returned]

-----------------------------------------------------------------------------
(* The program: loads, stores and transaction markers *)

Idle(p) == l1call[p].stage = "idle"

StartTx(p) ==
  /\ Idle(p)
  /\ persistent' = [persistent EXCEPT ![p] = TRUE]
  /\ UNCHANGED <<arch, l1, l2, shared, txId, l1call, l2call>>

EndTx(p) ==
  /\ Idle(p)
  /\ txId[p] < TxBound
  /\ persistent' = [persistent EXCEPT ![p] = FALSE]
  /\ txId' = [txId EXCEPT ![p] = @ + 1]
  /\ UNCHANGED <<arch, l1, l2, shared, l1call, l2call>>

\* The first lines of l1_access: "old data treated as non volatile".
L1Enter(p, req) ==
  /\ Idle(p)
  /\ l1call' = [l1call EXCEPT ![p] =
       Entered(IF Persistent(req) /\ req.epoch < persist[p].oldest
               THEN Volatile(req.addr, req.type) ELSE req)]
  /\ UNCHANGED <<arch, l1, l2, shared, trax, l2call>>

\* Stores to the stack are volatile even inside a transaction.
PersistentStore(p, addr) == persistent[p] /\ addr < StackBase

RecordMemRead(p, addr) == L1Enter(p, Volatile(addr, "GETS"))

RecordMemWrite(p, addr) ==
  L1Enter(p, Request(addr, "GETX",
                     IF PersistentStore(p, addr) THEN txId[p] ELSE NoTx, NoLine))

-----------------------------------------------------------------------------
(* L1 *)

L1Set(addr) == SetSlots(addr, L1Sets, L1Ways)
L1Lookup(p, addr) == Holding(l1[p], L1Set(addr), addr)
L1Preinsert(p, addr) == Victim(l1[p], L1Set(addr))

\* The request evict sends down for a line.
Writeback(line) ==
  IF line.pb = NoLine
  THEN Volatile(line.addr, WritebackType(line.state))
  ELSE Request(line.addr, WritebackType(line.state), line.tx, line.pb)

\* The tags, the persist buffer and the postinsert of l1_access.  postinsert
\* touches only the process's own cache: it does not matter to anybody that it
\* comes before the last store of insert_PB here.
L1Serve(p, req, slot, book) ==
  /\ l1' = [l1 EXCEPT ![p] = Tagged(PostInsert(@, L1Set(req.addr), L1Ways, slot, req),
                                    slot, Tag(book.next, req))]
  /\ persist' = [persist EXCEPT ![p] = Booking(book, req)]
  /\ l1call' = [l1call EXCEPT ![p] = Returned]

\* On a conflict L1 takes nextPersistTrax from the L2, at its own slot.
L1Hit(p) ==
  LET req  == l1call[p].req
      slot == Min(L1Lookup(p, req.addr))
  IN  /\ l1call[p].stage = "enter"
      /\ L1Lookup(p, req.addr) # {}
      /\ L1Serve(p, req, slot,
                 Resolved(persist[p], l1[p][slot].tx, req, l2[p][slot].tx))
      /\ UNCHANGED <<arch, l2, nvc, dram, trax, l2call>>

\* A miss calls l2_access: for the victim if it is valid, else for the line.
L1Miss(p) ==
  LET req    == l1call[p].req
      slot   == L1Preinsert(p, req.addr)
      victim == l1[p][slot]
  IN  /\ l1call[p].stage = "enter"
      /\ L1Lookup(p, req.addr) = {}
      /\ \/ /\ victim.state = "I"
            /\ l1call' = [l1call EXCEPT ![p] = Frame(req, slot, "fetching")]
            /\ l2call' = [l2call EXCEPT ![p] = Entered(req)]
         \/ /\ victim.state # "I"
            /\ l1call' = [l1call EXCEPT ![p] = Frame(req, slot, "evicting")]
            /\ l2call' = [l2call EXCEPT ![p] = Entered(Writeback(victim))]
      /\ UNCHANGED <<arch, l1, l2, shared, trax>>

\* l2_access has taken the victim; the fetch begins.
L1FetchNext(p) ==
  /\ l1call[p].stage = "evicting"
  /\ l2call[p].stage = "idle"
  /\ l1call' = [l1call EXCEPT ![p].stage = "fetching"]
  /\ l2call' = [l2call EXCEPT ![p] = Entered(l1call[p].req)]
  /\ UNCHANGED <<arch, shared, trax>>

\* EPB's l1_evict ends by invalidating a slot of the L2, at the index of L1.
EpbL1Evicted(p) ==
  /\ L1FetchNext(p)
  /\ l2' = [l2 EXCEPT ![p] = Invalidated(@, l1call[p].slot)]
  /\ UNCHANGED l1

BfL1Evicted(p) ==
  /\ L1FetchNext(p)
  /\ l1' = [l1 EXCEPT ![p] = Invalidated(@, l1call[p].slot)]
  /\ UNCHANGED l2

L1Fetched(p) ==
  LET call == l1call[p]
  IN  /\ call.stage = "fetching"
      /\ l2call[p].stage = "idle"
      /\ L1Serve(p, call.req, call.slot, persist[p])
      /\ UNCHANGED <<arch, l2, nvc, dram, trax, l2call>>

-----------------------------------------------------------------------------
(* The NVM.  m is a memory: the shared caches and all persist buffers.     *)

Memory == [nvc |-> nvc, dram |-> dram, persist |-> persist]
MemoryIs(m) == nvc' = m.nvc /\ dram' = m.dram /\ persist' = m.persist

\* back_flush removes the first entry of a transaction before nextPersistTrax.
Stale(book) == {i \in PBLines : book.pb[i].tx < book.oldest}
BackFlush(book) ==
  IF Stale(book) = {} THEN book ELSE [book EXCEPT !.pb[Min(Stale(book))] = NoEntry]

\* The persist buffers after n rounds of nvm_access's loop, which visits the
\* processes in turn.
Rounds == 0 .. PB_SIZE * numProcs
Visited(n) == n % numProcs
AfterRounds(books) ==
  LET after[n \in Rounds] ==
        IF n = 0 THEN books
        ELSE [after[n - 1] EXCEPT ![Visited(n - 1)] = BackFlush(@)]
  IN  after

\* The loop stops when the idle time is used up or a process has no entry to
\* flush.
EpbNvmAccess(m) == {m}
BfNvmAccess(m) ==
  LET after   == AfterRounds(m.persist)
      goes(n) == Stale(after[n][Visited(n)]) # {}
  IN  {[m EXCEPT !.persist = after[n]] :
         n \in {k \in Rounds : \A j \in 0 .. k - 1 : goes(j)}}

NvmAccess(m) == IF arch = "EPB" THEN EpbNvmAccess(m) ELSE BfNvmAccess(m)

-----------------------------------------------------------------------------
(* DRAM *)

DramSet(addr) == SetSlots(addr, DramSets, DramWays)
DramLookup(m, p, addr) ==
  {i \in Holding(m.dram, DramSet(addr), addr) : m.dram[i].proc = p}
DramPreinsert(m, addr) == Victim(m.dram, DramSet(addr))

DramServe(m, p, req, slot, book) ==
  LET cache == Tagged(PostInsert(m.dram, DramSet(req.addr), DramWays, slot, req),
                      slot, Tag(book.next, req))
  IN  [m EXCEPT !.dram = [cache EXCEPT ![slot].proc = p],
                !.persist[p] = Booked(book, req)]

\* "conflict": the victim belongs to a transaction not flushed yet.  What is
\* flushed for its owner is the transaction the NVC names at the same index,
\* which is any value beyond the end of the NVC.
NvcTxAt(m, slot) == IF slot \in NvcSlots THEN {m.nvc[slot].tx} ELSE AnyTx
DramConflict(m, victim) ==
  victim.pb # NoLine /\ victim.tx >= m.persist[victim.proc].oldest
DramResolved(m, slot) ==
  LET victim == m.dram[slot]
  IN  IF DramConflict(m, victim)
      THEN {[m EXCEPT !.persist[victim.proc] = FlushedUpTo(@, tx, SuccTx(tx))] :
              tx \in NvcTxAt(m, slot)}
      ELSE {m}

\* The last assignment of dram_evict: EPB's gives the line to process 0.
EpbDramEvicted(m, slot) == [m EXCEPT !.dram[slot].proc = 0]
BfDramEvicted(m, slot) == [m EXCEPT !.dram = Invalidated(@, slot)]

DramEvict(m, slot) ==
  IF m.dram[slot].state = "I" THEN {m}
  ELSE {IF arch = "EPB" THEN EpbDramEvicted(x, slot) ELSE BfDramEvicted(x, slot) :
          x \in UNION {NvmAccess(y) : y \in DramResolved(m, slot)}}

\* dram_access, with EPB's or EPB_BF's dram_evict and nvm_access inside.
EpbDramAccess(m, p, req) ==
  LET hit  == DramLookup(m, p, req.addr)
      slot == IF hit # {} THEN Min(hit) ELSE DramPreinsert(m, req.addr)
      tx   == m.dram[slot].tx
  IN  IF hit # {}
      THEN {DramServe(m, p, req, slot, Resolved(m.persist[p], tx, req, tx))}
      ELSE {DramServe(x, p, req, slot, x.persist[p]) :
              x \in UNION {NvmAccess(y) : y \in DramEvict(m, slot)}}
BfDramAccess(m, p, req) == EpbDramAccess(m, p, req)

DramAccess(m, p, req) ==
  IF arch = "EPB" THEN EpbDramAccess(m, p, req) ELSE BfDramAccess(m, p, req)

-----------------------------------------------------------------------------
(* NVC *)

NvcSet(addr) == SetSlots(addr, NvcSets, NvcWays)
NvcLookup(m, p, addr) ==
  {i \in Holding(m.nvc, NvcSet(addr), addr) : m.nvc[i].proc = p}
NvcPreinsert(m, addr) == Victim(m.nvc, NvcSet(addr))

NvcServe(m, p, req, slot, book) ==
  LET cache == Tagged(PostInsert(m.nvc, NvcSet(req.addr), NvcWays, slot, req),
                      slot, Tag(book.next, req))
  IN  [m EXCEPT !.nvc = [cache EXCEPT ![slot].proc = p],
                !.persist[p] = Booked(book, req)]

\* A victim of no transaction, or of one that the evicting process has not
\* flushed, goes to the DRAM; any other to the NVM.
NvcEvict(m, p, slot) ==
  LET victim == m.nvc[slot]
      below  == IF victim.tx = NoTx \/ victim.tx >= m.persist[p].oldest
                THEN DramAccess(m, p, Writeback(victim))
                ELSE NvmAccess(m)
  IN  IF victim.state = "I" THEN {m}
      ELSE {[x EXCEPT !.nvc = Invalidated(@, slot)] : x \in below}

\* On a conflict the NVC takes nextPersistTrax from the L2, at its own slot,
\* which is any value beyond the end of the L2.
L2TxAt(p, slot) == IF slot \in L2Slots THEN {l2[p][slot].tx} ELSE AnyTx

EpbNvcAccess(m, p, req) ==
  LET hit  == NvcLookup(m, p, req.addr)
      slot == IF hit # {} THEN Min(hit) ELSE NvcPreinsert(m, req.addr)
  IN  IF hit # {}
      THEN {NvcServe(m, p, req, slot, Resolved(m.persist[p], m.nvc[slot].tx, req, tx)) :
              tx \in L2TxAt(p, slot)}
      ELSE {NvcServe(x, p, req, slot, x.persist[p]) :
              x \in UNION {DramAccess(y, p, req) : y \in NvcEvict(m, p, slot)}}
BfNvcAccess(m, p, req) == EpbNvcAccess(m, p, req)

NvcAccess(m, p, req) ==
  IF arch = "EPB" THEN EpbNvcAccess(m, p, req) ELSE BfNvcAccess(m, p, req)

-----------------------------------------------------------------------------
(* L2 *)

L2Set(addr) == SetSlots(addr, L2Sets, L2Ways)
\* MUTANT of L2Lookup: the last way of the set is not searched.
L2LookupShort(p, addr) == Holding(l2[p], L2Set(addr) \ {Max(L2Set(addr))}, addr)

L2Lookup(p, addr) == Holding(l2[p], L2Set(addr), addr)
L2Preinsert(p, addr) == Victim(l2[p], L2Set(addr))

\* The states l2_postinsert may leave.  EPB_BF decides for a load by the state
\* of the L1 slot with the number of the L2 slot, and beyond the end of L1 by
\* whatever is stored there.
EpbL2StatesAfter(p, slot, type) == {StateAfter(type, l2[p][slot].state)}
BfL2StatesAfter(p, slot, type) ==
  IF type # "GETS" THEN EpbL2StatesAfter(p, slot, type)
  ELSE IF slot \notin L1Slots THEN {l2[p][slot].state, "E"}
  ELSE IF l1[p][slot].state = "M" THEN {l2[p][slot].state} ELSE {"E"}

L2StatesAfter(p, slot, type) ==
  IF arch = "EPB" THEN EpbL2StatesAfter(p, slot, type) ELSE BfL2StatesAfter(p, slot, type)

L2Serve(p, req, slot, book) ==
  /\ \E state \in L2StatesAfter(p, slot, req.type) :
       l2' = [l2 EXCEPT ![p] =
                [Tagged(PostInsert(@, L2Set(req.addr), L2Ways, slot, req),
                        slot, Tag(book.next, req)) EXCEPT ![slot].state = state]]
  /\ persist' = [persist EXCEPT ![p] = Booking(book, req)]
  /\ l2call' = [l2call EXCEPT ![p] = Returned]

L2Hit(p) ==
  LET req  == l2call[p].req
      slot == Min(L2Lookup(p, req.addr))
      tx   == l2[p][slot].tx
  IN  /\ l2call[p].stage = "enter"
      /\ L2Lookup(p, req.addr) # {}
      /\ L2Serve(p, req, slot, Resolved(persist[p], tx, req, tx))
      /\ UNCHANGED <<arch, l1, nvc, dram, trax, l1call>>

\* A miss: preinsert and evict, which writes a valid victim back.
L2Miss(p) ==
  LET req    == l2call[p].req
      slot   == L2Preinsert(p, req.addr)
      victim == l2[p][slot]
  IN  /\ l2call[p].stage = "enter"
      /\ L2Lookup(p, req.addr) = {}
      /\ \/ victim.state = "I" /\ UNCHANGED <<l2, shared>>
         \/ /\ victim.state # "I"
            /\ \E m \in NvcAccess(Memory, p, Writeback(victim)) : MemoryIs(m)
            /\ l2' = [l2 EXCEPT ![p] = Invalidated(@, slot)]
      /\ l2call' = [l2call EXCEPT ![p] = Frame(req, slot, "fetching")]
      /\ UNCHANGED <<arch, l1, trax, l1call>>

L2Fetch(p) ==
  /\ l2call[p].stage = "fetching"
  /\ \E m \in NvcAccess(Memory, p, l2call[p].req) : MemoryIs(m)
  /\ l2call' = [l2call EXCEPT ![p].stage = "fetched"]
  /\ UNCHANGED <<arch, l1, l2, trax, l1call>>

L2Fetched(p) ==
  LET call == l2call[p]
  IN  /\ call.stage = "fetched"
      /\ L2Serve(p, call.req, call.slot, persist[p])
      /\ UNCHANGED <<arch, l1, nvc, dram, trax, l1call>>

-----------------------------------------------------------------------------
(* The store to lineAddr of an insert_PB that L1 or L2 has called *)

InsertPBEnds(p) ==
  /\ Storing(persist[p])
  /\ persist' = [persist EXCEPT ![p] = StoreAddr(@)]
  /\ UNCHANGED <<arch, l1, l2, nvc, dram, trax, l1call, l2call>>

-----------------------------------------------------------------------------
(* Specification *)

Program(p) ==
  \/ StartTx(p)
  \/ EndTx(p)
  \/ \E addr \in Addrs : RecordMemRead(p, addr)
  \/ \E addr \in Addrs : RecordMemWrite(p, addr)

EpbL1Access(p) ==
  arch = "EPB" /\ (L1Hit(p) \/ L1Miss(p) \/ EpbL1Evicted(p) \/ L1Fetched(p))
EpbL2Access(p) ==
  arch = "EPB" /\ (L2Hit(p) \/ L2Miss(p) \/ L2Fetch(p) \/ L2Fetched(p))
BfL1Access(p) ==
  arch = "EPB_BF" /\ (L1Hit(p) \/ L1Miss(p) \/ BfL1Evicted(p) \/ L1Fetched(p))
BfL2Access(p) ==
  arch = "EPB_BF" /\ (L2Hit(p) \/ L2Miss(p) \/ L2Fetch(p) \/ L2Fetched(p))

\* A process in the middle of insert_PB does nothing else.
Next ==
  \E p \in Procs :
    \/ InsertPBEnds(p)
    \/ /\ ~Storing(persist[p])
       /\ \/ Program(p)
          \/ EpbL1Access(p) \/ EpbL2Access(p)
          \/ BfL1Access(p) \/ BfL2Access(p)

Spec == Init /\ [][Next]_vars

-----------------------------------------------------------------------------
(* Properties *)

EntryType == [tx : Txs \cup {NoTx}, addr : Addrs \cup {NoLine}]
StoringType == [slot : PBLines, addr : Addrs] \cup {NoStore}
BookType ==
  [pb : [PBLines -> EntryType], next : PBLines, oldest : AnyTx, storing : StoringType]
ReqType ==
  [addr : Addrs \cup {0}, type : AccessTypes, epoch : Txs \cup {NoTx},
   pb : PBLines \cup {NoLine}]
FrameType(slots) == [req : ReqType, slot : slots, stage : Stages]
PrivateLine(ways) ==
  [addr : Addrs \cup {0}, state : MESI, ts : 0 .. ways, tx : Txs \cup {NoTx},
   pb : PBLines \cup {NoLine}]
SharedLine(ways) ==
  [addr : Addrs \cup {0}, state : MESI, ts : 0 .. ways, tx : Txs \cup {NoTx},
   pb : PBLines \cup {NoLine}, proc : Procs \cup {NoProc}]

TypeOK ==
  /\ arch \in Archs
  /\ l1 \in [Procs -> [L1Slots -> PrivateLine(L1Ways)]]
  /\ l2 \in [Procs -> [L2Slots -> PrivateLine(L2Ways)]]
  /\ nvc \in [NvcSlots -> SharedLine(NvcWays)]
  /\ dram \in [DramSlots -> SharedLine(DramWays)]
  /\ persist \in [Procs -> BookType]
  /\ persistent \in [Procs -> BOOLEAN]
  /\ txId \in [Procs -> Txs]
  /\ l1call \in [Procs -> FrameType(L1Slots)]
  /\ l2call \in [Procs -> FrameType(L2Slots)]

\* The persist buffer never holds one line twice, whichever of the four levels
\* insert_PB was called from, and also if the nvc_access of another process
\* flushes the buffer between its two stores.
PBDistinct ==
  \A p \in Procs : \A i, j \in PBLines :
    LET pb == persist[p].pb
    IN  pb[i].addr # NoLine /\ pb[i].addr = pb[j].addr => i = j

\* Outside insert_PB an entry has an address exactly if it has a transaction.
\* This is so for one process only: with several, such a flush leaves an
\* address without a transaction.
PBWhole ==
  \A p \in Procs : ~Storing(persist[p]) =>
    \A i \in PBLines : persist[p].pb[i].tx = NoTx <=> persist[p].pb[i].addr = NoLine

\* At all four levels the two tags of a line agree, no stack line has any, and
\* none is in a persist buffer: evict decides by one tag and sends both, and
\* a line may pass through four tagged levels and several processes.
LineOK(line) ==
  /\ line.tx = NoTx <=> line.pb = NoLine
  /\ line.tx # NoTx => line.addr < StackBase
TagsAgree ==
  /\ \A p \in Procs :
       /\ \A i \in L1Slots : LineOK(l1[p][i])
       /\ \A i \in L2Slots : LineOK(l2[p][i])
       /\ \A i \in PBLines : persist[p].pb[i].addr < StackBase
  /\ \A i \in NvcSlots : LineOK(nvc[i])
  /\ \A i \in DramSlots : LineOK(dram[i])

\* No cache holds the same line of the same process in two slots, although
\* EPB's evict handlers leave states and owners in the wrong places.
CachesUnique ==
  /\ \A p \in Procs :
       /\ \A i, j \in L1Slots : l1[p][i].addr = l1[p][j].addr /\ i # j => l1[p][i].addr = 0
       /\ \A i, j \in L2Slots : l2[p][i].addr = l2[p][j].addr /\ i # j => l2[p][i].addr = 0
  /\ \A i, j \in NvcSlots :
       nvc[i].addr = nvc[j].addr /\ nvc[i].proc = nvc[j].proc /\ i # j => nvc[i].addr = 0
  /\ \A i, j \in DramSlots :
       dram[i].addr = dram[j].addr /\ dram[i].proc = dram[j].proc /\ i # j => dram[i].addr = 0
=============================================================================
