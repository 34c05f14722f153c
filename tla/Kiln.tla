-------------------------------- MODULE Kiln --------------------------------
(***************************************************************************)
(* The memory system of the simulator under its default architecture,      *)
(* KILN (src/kiln.h), and the two analysis routines that drive it          *)
(* (RecordMemRead, RecordMemWrite and the transaction markers of           *)
(* src/libsim.cpp).                                                        *)
(*                                                                         *)
(* Each simulated process has a private L1, a private L2 and a persist     *)
(* buffer (pb) that records which lines of its transactions are not yet    *)
(* durable.  All processes share the non-volatile cache (nvc), guarded by  *)
(* nvc_lock, and behind it the DRAM cache and the NVM.  A memory access is *)
(* a chain of nested calls, l1_access -> l2_access -> nvc_access -> ...,   *)
(* each of which may first evict a victim through the same chain.  The     *)
(* frames of that chain are the variables l1call, l2call and nvccall, so   *)
(* that the accesses of several processes interleave as they do in the     *)
(* code.  The DRAM and NVM handlers run inside a critical section of       *)
(* nvc_lock and release their own locks before they return: they are part  *)
(* of the step of the NVC handler that calls them.                         *)
(*                                                                         *)
(* Not in this module: cycle counts, latencies and statistics counters.    *)
(***************************************************************************)
EXTENDS CacheOps

CONSTANTS
  Procs,            \* the simulated processes (procId)
  Addrs,            \* the line addresses the programs touch
  StackBase,        \* addresses from here on are never persistent
  TxBound,          \* BOUND: no process ends more than TxBound transactions
  PB_SIZE,          \* entries of a persist buffer
  L1Sets, L1Ways, L2Sets, L2Ways,         \* geometry of the private caches
  NvcSets, NvcWays, DramSets, DramWays,   \* geometry of the shared ones
  NoProc            \* (uint32_t)(-1) in a procId field, and a free lock

\* SimInit zeroes every address array and lookup ignores the state, so
\* address 0 is not one a program may use.
ASSUME KilnAssumption ==
  /\ Addrs \subseteq Nat \ {0}
  /\ StackBase \in Nat
  /\ TxBound \in Nat
  /\ PB_SIZE \in Nat \ {0}
  /\ L1Sets \in Nat \ {0}   /\ L1Ways \in Nat \ {0}
  /\ L2Sets \in Nat \ {0}   /\ L2Ways \in Nat \ {0}
  /\ NvcSets \in Nat \ {0}  /\ NvcWays \in Nat \ {0}
  /\ DramSets \in Nat \ {0} /\ DramWays \in Nat \ {0}
  /\ NoProc \notin Procs

VARIABLES
  l1, l2,           \* [Procs -> cache]: private caches
  nvc, dram,        \* shared caches, whose lines also name their process
  pb,               \* [Procs -> [PBLines -> entry]]: persist buffers
  nextAvail,        \* [Procs -> PBLines]: nextAvailablePBLine
  nextPersist,      \* [Procs -> Nat]: nextPersistTrax, oldest transaction not flushed
  persistent,       \* [Procs -> BOOLEAN]: inside a transaction
  txId,             \* [Procs -> Nat]: the current transaction
  l1call, l2call, nvccall,  \* [Procs -> frame]: activation of each handler
  nvcLock           \* the process holding nvc_lock, or NoProc

buffers == <<pb, nextAvail>>
calls   == <<l1call, l2call, nvccall>>
trax    == <<nextPersist, persistent, txId>>
vars    == <<l1, l2, nvc, dram, buffers, trax, calls, nvcLock>>

-----------------------------------------------------------------------------
(* Data *)

\* (uint64_t)(-1) as a transaction: compares greater than every real one.
NoTx == TxBound + 1
Txs  == 0 .. TxBound

PBLines   == 0 .. PB_SIZE - 1
L1Slots   == 0 .. L1Sets * L1Ways - 1
L2Slots   == 0 .. L2Sets * L2Ways - 1
NvcSlots  == 0 .. NvcSets * NvcWays - 1
DramSlots == 0 .. DramSets * DramWays - 1

Stages == {"idle", "enter", "evicting", "fetching"}

NoEntry == [tx |-> NoTx, addr |-> NoLine]
NoTag   == [tx |-> NoTx, pb |-> NoLine]

EmptyLine       == [addr |-> 0, state |-> "I", ts |-> 0, tx |-> NoTx, pb |-> NoLine]
EmptyNvcLine    == [addr |-> 0, state |-> "I", ts |-> 0, tx |-> NoTx, proc |-> NoProc]
EmptyDramLine   == [addr |-> 0, state |-> "I", ts |-> 0, proc |-> NoProc]

\* MemReq.  The epoch of a request that is not persistent is never read.
Volatile(addr, type) ==
  [addr |-> addr, type |-> type, persistent |-> FALSE, epoch |-> NoTx, pb |-> NoLine]
Durable(addr, type, epoch, line) ==
  [addr |-> addr, type |-> type, persistent |-> TRUE, epoch |-> epoch, pb |-> line]

\* A handler's activation: its request, the slot it works on, where it stands.
Returned      == [req |-> Volatile(0, "GETS"), slot |-> 0, stage |-> "idle"]
Entered(req)  == [req |-> req, slot |-> 0, stage |-> "enter"]
Evicting(req, slot) == [req |-> req, slot |-> slot, stage |-> "evicting"]
Fetching(req, slot) == [req |-> req, slot |-> slot, stage |-> "fetching"]

-----------------------------------------------------------------------------
(* The persist buffer.  Each operator is about one process: buf is its     *)
(* pb, next its nextAvailablePBLine, oldest its nextPersistTrax.           *)

\* MUTANT of Flush: the transaction named is itself left in the buffer.
FlushBelow(buf, tx) == [i \in DOMAIN buf |-> IF buf[i].tx < tx THEN NoEntry ELSE buf[i]]

\* MUTANT of Flush: everything goes, whatever its transaction.
FlushAll(buf, tx) == [i \in DOMAIN buf |-> NoEntry]

\* flush: every entry up to transaction tx becomes durable and leaves.
Flush(buf, tx) == [i \in DOMAIN buf |-> IF buf[i].tx <= tx THEN NoEntry ELSE buf[i]]

\* overflow_flush differs from flush only in what it costs.
OverflowFlush(buf, tx) == Flush(buf, tx)

\* MUTANT of PBSlot: the buffer is not searched for the address.
PBSlotAsAsked(buf, want, addr) == want

\* insert_PB chooses the line that already has the address, else the one asked for.
PBSlot(buf, want, addr) ==
  LET same == {i \in PBLines : buf[i].addr = addr}
  IN  IF same = {} THEN want ELSE Max(same)

\* MUTANT of NextPBLine: no wrap-around.
PastPBLine(next) == next + 1

\* The line after nextAvailablePBLine.
NextPBLine(next) == (next + 1) % PB_SIZE

InsertPB(buf, next, oldest, want, entry) ==
  LET slot == PBSlot(buf, want, entry.addr)
      full == buf[slot].tx # entry.tx /\ buf[slot].tx # NoTx
      kept == IF full THEN OverflowFlush(buf, entry.tx) ELSE buf
  IN  IF entry.tx < oldest
      THEN [pb |-> buf, next |-> next]
      ELSE [pb   |-> [kept EXCEPT ![slot] = entry],
            next |-> IF kept[slot].tx # entry.tx THEN NextPBLine(next) ELSE next]

\* MUTANT of Tag: a volatile access clears only the transaction.
TagKeepLine(next, req) ==
  [tx |-> IF req.persistent THEN req.epoch ELSE NoTx,
   pb |-> IF req.pb = NoLine THEN next ELSE req.pb]

\* The tags every access handler gives the line it serves.
Tag(next, req) ==
  IF req.persistent
  THEN [tx |-> req.epoch, pb |-> IF req.pb = NoLine THEN next ELSE req.pb]
  ELSE NoTag

Tagged(cache, slot, tag) ==
  [cache EXCEPT ![slot].tx = tag.tx, ![slot].pb = tag.pb]

\* The persist buffer after process p has served req at a level.
Buffered(buf, next, oldest, req) ==
  IF req.persistent
  THEN InsertPB(buf, next, oldest, Tag(next, req).pb,
                [tx |-> req.epoch, addr |-> req.addr])
  ELSE [pb |-> buf, next |-> next]

Buffer(p, req) ==
  LET b == Buffered(pb[p], nextAvail[p], nextPersist[p], req)
  IN  /\ pb' = [pb EXCEPT ![p] = b.pb]
      /\ nextAvail' = [nextAvail EXCEPT ![p] = b.next]

-----------------------------------------------------------------------------
(* Initial state: SimInit *)

Init ==
  /\ l1 = [p \in Procs |-> [i \in L1Slots |-> EmptyLine]]
  /\ l2 = [p \in Procs |-> [i \in L2Slots |-> EmptyLine]]
  /\ nvc = [i \in NvcSlots |-> EmptyNvcLine]
  /\ dram = [i \in DramSlots |-> EmptyDramLine]
  /\ pb = [p \in Procs |-> [i \in PBLines |-> NoEntry]]
  /\ nextAvail = [p \in Procs |-> 0]
  /\ nextPersist = [p \in Procs |-> 0]
  /\ persistent = [p \in Procs |-> FALSE]
  /\ txId = [p \in Procs |-> 0]
  /\ l1call = [p \in Procs |-> Returned]
  /\ l2call = [p \in Procs |-> Returned]
  /\ nvccall = [p \in Procs |-> Returned]
  /\ nvcLock = NoProc

-----------------------------------------------------------------------------
(* The program: loads, stores and transaction markers *)

Idle(p) == l1call[p].stage = "idle"

\* op 271 (XBEGIN) and op 578 (XEND) in fastForward.
StartTx(p) ==
  /\ Idle(p)
  /\ persistent' = [persistent EXCEPT ![p] = TRUE]
  /\ UNCHANGED <<l1, l2, nvc, dram, buffers, nextPersist, txId, calls, nvcLock>>

EndTx(p) ==
  /\ Idle(p)
  /\ txId[p] < TxBound
  /\ persistent' = [persistent EXCEPT ![p] = FALSE]
  /\ txId' = [txId EXCEPT ![p] = @ + 1]
  /\ UNCHANGED <<l1, l2, nvc, dram, buffers, nextPersist, calls, nvcLock>>

\* The first lines of l1_access: the first persistent store of a new
\* transaction flushes the oldest one, and a store that belongs to a
\* transaction already flushed is treated as volatile.
L1Enter(p, req) ==
  LET newTrax == req.persistent /\ req.epoch > nextPersist[p]
      oldTrax == req.persistent /\ req.epoch < nextPersist[p]
  IN  /\ Idle(p)
      /\ pb' = IF newTrax THEN [pb EXCEPT ![p] = Flush(@, nextPersist[p])] ELSE pb
      /\ nextPersist' = IF newTrax THEN [nextPersist EXCEPT ![p] = @ + 1] ELSE nextPersist
      /\ l1call' = [l1call EXCEPT ![p] =
                      Entered(IF oldTrax THEN Volatile(req.addr, req.type) ELSE req)]

\* MUTANT of PersistentStore: the address is not looked at.
PersistentAnywhere(p, addr) == persistent[p]

\* Stores to the stack are volatile even inside a transaction.
PersistentStore(p, addr) == persistent[p] /\ addr < StackBase

StoreReq(p, addr) ==
  IF PersistentStore(p, addr) THEN Durable(addr, "GETX", txId[p], NoLine)
                              ELSE Volatile(addr, "GETX")

RecordMemRead(p, addr) ==
  /\ L1Enter(p, Volatile(addr, "GETS"))
  /\ UNCHANGED <<l1, l2, nvc, dram, nextAvail, persistent, txId, l2call, nvccall, nvcLock>>

RecordMemWrite(p, addr) ==
  /\ L1Enter(p, StoreReq(p, addr))
  /\ UNCHANGED <<l1, l2, nvc, dram, nextAvail, persistent, txId, l2call, nvccall, nvcLock>>

-----------------------------------------------------------------------------
(* L1 *)

L1Set(addr) == SetSlots(addr, L1Sets, L1Ways)
L1Lookup(p, addr) == Holding(l1[p], L1Set(addr), addr)
L1Preinsert(p, addr) == Victim(l1[p], L1Set(addr))

\* The tags and the postinsert of l1_access.
L1Serve(p, req, slot) ==
  /\ l1' = [l1 EXCEPT ![p] =
               Tagged(PostInsert(@, L1Set(req.addr), L1Ways, slot, req),
                      slot, Tag(nextAvail[p], req))]
  /\ Buffer(p, req)

\* MUTANT of L1Writeback: the victim's tags do not travel.
L1WritebackUntagged(line) == Volatile(line.addr, WritebackType(line.state))

\* The request l1_evict sends down for a line.
L1Writeback(line) ==
  IF line.pb = NoLine
  THEN Volatile(line.addr, WritebackType(line.state))
  ELSE Durable(line.addr, WritebackType(line.state), line.tx, line.pb)

L1Hit(p) ==
  LET req == l1call[p].req
      hit == L1Lookup(p, req.addr)
  IN  /\ l1call[p].stage = "enter"
      /\ hit # {}
      /\ L1Serve(p, req, Min(hit))
      /\ l1call' = [l1call EXCEPT ![p] = Returned]
      /\ UNCHANGED <<l2, nvc, dram, trax, l2call, nvccall, nvcLock>>

\* A miss calls l2_access: for the victim if it is valid, else for the line.
L1Miss(p) ==
  LET req    == l1call[p].req
      slot   == L1Preinsert(p, req.addr)
      victim == l1[p][slot]
  IN  /\ l1call[p].stage = "enter"
      /\ L1Lookup(p, req.addr) = {}
      /\ \/ /\ victim.state = "I"
            /\ l1call' = [l1call EXCEPT ![p] = Fetching(req, slot)]
            /\ l2call' = [l2call EXCEPT ![p] = Entered(req)]
         \/ /\ victim.state # "I"
            /\ l1call' = [l1call EXCEPT ![p] = Evicting(req, slot)]
            /\ l2call' = [l2call EXCEPT ![p] = Entered(L1Writeback(victim))]
      /\ UNCHANGED <<l1, l2, nvc, dram, buffers, trax, nvccall, nvcLock>>

L1Evicted(p) ==
  LET call == l1call[p]
  IN  /\ call.stage = "evicting"
      /\ l2call[p].stage = "idle"
      /\ l1' = [l1 EXCEPT ![p] = Invalidated(@, call.slot)]
      /\ l1call' = [l1call EXCEPT ![p] = Fetching(call.req, call.slot)]
      /\ l2call' = [l2call EXCEPT ![p] = Entered(call.req)]
      /\ UNCHANGED <<l2, nvc, dram, buffers, trax, nvccall, nvcLock>>

\* MUTANT of L1Fetched: the access starts over instead of using the line.
L1FetchedAgain(p) ==
  LET call == l1call[p]
  IN  /\ call.stage = "fetching"
      /\ l2call[p].stage = "idle"
      /\ l1call' = [l1call EXCEPT ![p] = Entered(call.req)]
      /\ UNCHANGED <<l1, l2, nvc, dram, buffers, trax, l2call, nvccall, nvcLock>>

L1Fetched(p) ==
  LET call == l1call[p]
  IN  /\ call.stage = "fetching"
      /\ l2call[p].stage = "idle"
      /\ L1Serve(p, call.req, call.slot)
      /\ l1call' = [l1call EXCEPT ![p] = Returned]
      /\ UNCHANGED <<l2, nvc, dram, trax, l2call, nvccall, nvcLock>>

-----------------------------------------------------------------------------
(* L2 *)

L2Set(addr) == SetSlots(addr, L2Sets, L2Ways)
\* MUTANT of L2Lookup: the last way of the set is not searched.
L2LookupShort(p, addr) ==
  Holding(l2[p], L2Set(addr) \ {Max(L2Set(addr))}, addr)

L2Lookup(p, addr) == Holding(l2[p], L2Set(addr), addr)
L2Preinsert(p, addr) == Victim(l2[p], L2Set(addr))

L2Serve(p, req, slot) ==
  /\ l2' = [l2 EXCEPT ![p] =
               Tagged(PostInsert(@, L2Set(req.addr), L2Ways, slot, req),
                      slot, Tag(nextAvail[p], req))]
  /\ Buffer(p, req)

L2Writeback(line) ==
  IF line.pb = NoLine
  THEN Volatile(line.addr, WritebackType(line.state))
  ELSE Durable(line.addr, WritebackType(line.state), line.tx, line.pb)

L2Hit(p) ==
  LET req == l2call[p].req
      hit == L2Lookup(p, req.addr)
  IN  /\ l2call[p].stage = "enter"
      /\ hit # {}
      /\ L2Serve(p, req, Min(hit))
      /\ l2call' = [l2call EXCEPT ![p] = Returned]
      /\ UNCHANGED <<l1, nvc, dram, trax, l1call, nvccall, nvcLock>>

L2Miss(p) ==
  LET req    == l2call[p].req
      slot   == L2Preinsert(p, req.addr)
      victim == l2[p][slot]
  IN  /\ l2call[p].stage = "enter"
      /\ L2Lookup(p, req.addr) = {}
      /\ \/ /\ victim.state = "I"
            /\ l2call' = [l2call EXCEPT ![p] = Fetching(req, slot)]
            /\ nvccall' = [nvccall EXCEPT ![p] = Entered(req)]
         \/ /\ victim.state # "I"
            /\ l2call' = [l2call EXCEPT ![p] = Evicting(req, slot)]
            /\ nvccall' = [nvccall EXCEPT ![p] = Entered(L2Writeback(victim))]
      /\ UNCHANGED <<l1, l2, nvc, dram, buffers, trax, l1call, nvcLock>>

L2Evicted(p) ==
  LET call == l2call[p]
  IN  /\ call.stage = "evicting"
      /\ nvccall[p].stage = "idle"
      /\ l2' = [l2 EXCEPT ![p] = Invalidated(@, call.slot)]
      /\ l2call' = [l2call EXCEPT ![p] = Fetching(call.req, call.slot)]
      /\ nvccall' = [nvccall EXCEPT ![p] = Entered(call.req)]
      /\ UNCHANGED <<l1, nvc, dram, buffers, trax, l1call, nvcLock>>

L2Fetched(p) ==
  LET call == l2call[p]
  IN  /\ call.stage = "fetching"
      /\ nvccall[p].stage = "idle"
      /\ L2Serve(p, call.req, call.slot)
      /\ l2call' = [l2call EXCEPT ![p] = Returned]
      /\ UNCHANGED <<l1, nvc, dram, trax, l1call, nvccall, nvcLock>>

-----------------------------------------------------------------------------
(* DRAM, reached only by the process that holds nvc_lock.  A DRAM victim   *)
(* and a DRAM fetch go to the NVM, which keeps no state.                   *)

DramSet(addr) == SetSlots(addr, DramSets, DramWays)
DramLookup(p, addr) ==
  {i \in Holding(dram, DramSet(addr), addr) : dram[i].proc = p}
DramPreinsert(addr) == Victim(dram, DramSet(addr))

\* The slot dram_access works on, and the cache once its victim is gone.
DramSlot(p, addr) ==
  IF DramLookup(p, addr) # {} THEN Min(DramLookup(p, addr)) ELSE DramPreinsert(addr)
DramEvicted(p, addr) ==
  IF DramLookup(p, addr) # {} THEN dram ELSE Invalidated(dram, DramPreinsert(addr))

\* The DRAM cache after dram_access.
DramServed(p, req) ==
  LET slot == DramSlot(p, req.addr)
  IN  [PostInsert(DramEvicted(p, req.addr), DramSet(req.addr), DramWays, slot, req)
       EXCEPT ![slot].proc = p]

-----------------------------------------------------------------------------
(* NVC, shared by all processes *)

NvcSet(addr) == SetSlots(addr, NvcSets, NvcWays)
NvcLookup(p, addr) ==
  {i \in Holding(nvc, NvcSet(addr), addr) : nvc[i].proc = p}
NvcPreinsert(addr) == Victim(nvc, NvcSet(addr))

\* MUTANT of NvcUnlocked: the lock is not waited for.
NvcOpen == TRUE

\* futex_lock(&zinfo->nvc_lock) returns.
NvcUnlocked == nvcLock = NoProc

\* MUTANT of NvcServed: a volatile access leaves the old transaction tag.
NvcServedKeepTag(p, req, slot) ==
  [PostInsert(nvc, NvcSet(req.addr), NvcWays, slot, req)
   EXCEPT ![slot].proc = p,
          ![slot].tx = IF req.persistent THEN req.epoch ELSE @]

\* MUTANT of NvcServed: the line does not learn whose it is.
NvcServedUnowned(p, req, slot) ==
  [PostInsert(nvc, NvcSet(req.addr), NvcWays, slot, req)
   EXCEPT ![slot].tx = IF req.persistent THEN req.epoch ELSE NoTx]

\* The tag and the postinsert of nvc_access, which also names the owner.
NvcServed(p, req, slot) ==
  [PostInsert(nvc, NvcSet(req.addr), NvcWays, slot, req)
   EXCEPT ![slot].proc = p,
          ![slot].tx = IF req.persistent THEN req.epoch ELSE NoTx]

NvcHit(p) ==
  LET req == nvccall[p].req
      hit == NvcLookup(p, req.addr)
  IN  /\ nvccall[p].stage = "enter"
      /\ NvcUnlocked
      /\ hit # {}
      /\ nvc' = NvcServed(p, req, Min(hit))
      /\ Buffer(p, req)
      /\ nvccall' = [nvccall EXCEPT ![p] = Returned]
      /\ UNCHANGED <<l1, l2, dram, trax, l1call, l2call, nvcLock>>

\* A miss takes nvc_lock and evicts: a victim of a transaction goes to the
\* NVM, any other valid victim to the DRAM.  The lock is kept for the fetch.
NvcMiss(p) ==
  LET req    == nvccall[p].req
      slot   == NvcPreinsert(req.addr)
      victim == nvc[slot]
  IN  /\ nvccall[p].stage = "enter"
      /\ NvcUnlocked
      /\ NvcLookup(p, req.addr) = {}
      /\ nvcLock' = p
      /\ nvc' = Invalidated(nvc, slot)
      /\ dram' = IF victim.state # "I" /\ victim.tx = NoTx
                 THEN DramServed(p, Volatile(victim.addr, WritebackType(victim.state)))
                 ELSE dram
      /\ nvccall' = [nvccall EXCEPT ![p] = Fetching(req, slot)]
      /\ UNCHANGED <<l1, l2, buffers, trax, l1call, l2call>>

\* The fetch from DRAM, the insertion and the release of nvc_lock.
NvcFetched(p) ==
  LET call == nvccall[p]
      req  == call.req
      b4   == Buffered(pb[p], nextAvail[p], nextPersist[p], req)
      b3   == Buffered(b4.pb, b4.next, nextPersist[p], req)
  IN  /\ call.stage = "fetching"
      /\ dram' = DramServed(p, req)
      /\ nvc' = NvcServed(p, req, call.slot)
      /\ pb' = [pb EXCEPT ![p] = b3.pb]
      /\ nextAvail' = [nextAvail EXCEPT ![p] = b3.next]
      /\ nvccall' = [nvccall EXCEPT ![p] = Returned]
      /\ nvcLock' = NoProc
      /\ UNCHANGED <<l1, l2, trax, l1call, l2call>>

-----------------------------------------------------------------------------
(* Specification *)

Program(p) ==
  \/ StartTx(p)
  \/ EndTx(p)
  \/ \E addr \in Addrs : RecordMemRead(p, addr)
  \/ \E addr \in Addrs : RecordMemWrite(p, addr)

L1Access(p) == L1Hit(p) \/ L1Miss(p) \/ L1Evicted(p) \/ L1Fetched(p)
L2Access(p) == L2Hit(p) \/ L2Miss(p) \/ L2Evicted(p) \/ L2Fetched(p)
NvcAccess(p) == NvcHit(p) \/ NvcMiss(p) \/ NvcFetched(p)
Access(p) == L1Access(p) \/ L2Access(p) \/ NvcAccess(p)

Next == \E p \in Procs : Program(p) \/ Access(p)

Spec == Init /\ [][Next]_vars

\* A simulated process keeps running: an access handler never waits, except
\* for nvc_lock, whose holder keeps running too.
FairSpec == Spec /\ \A p \in Procs : WF_vars(Access(p))

-----------------------------------------------------------------------------
(* Properties that hold *)

EntryType == [tx : Txs \cup {NoTx}, addr : Addrs \cup {NoLine}]
ReqType ==
  [addr : Addrs \cup {0}, type : AccessTypes, persistent : BOOLEAN,
   epoch : Txs \cup {NoTx}, pb : PBLines \cup {NoLine}]
FrameType(slots) == [req : ReqType, slot : slots, stage : Stages]
PrivateLine(ways) ==
  [addr : Addrs \cup {0}, state : MESI, ts : 0 .. ways, tx : Txs \cup {NoTx},
   pb : PBLines \cup {NoLine}]
NvcLine ==
  [addr : Addrs \cup {0}, state : MESI, ts : 0 .. NvcWays, tx : Txs \cup {NoTx},
   proc : Procs \cup {NoProc}]
DramLine ==
  [addr : Addrs \cup {0}, state : MESI, ts : 0 .. DramWays,
   proc : Procs \cup {NoProc}]

TypeOK ==
  /\ l1 \in [Procs -> [L1Slots -> PrivateLine(L1Ways)]]
  /\ l2 \in [Procs -> [L2Slots -> PrivateLine(L2Ways)]]
  /\ nvc \in [NvcSlots -> NvcLine]
  /\ dram \in [DramSlots -> DramLine]
  /\ pb \in [Procs -> [PBLines -> EntryType]]
  /\ nextAvail \in [Procs -> PBLines]
  /\ nextPersist \in [Procs -> Txs]
  /\ persistent \in [Procs -> BOOLEAN]
  /\ txId \in [Procs -> Txs]
  /\ l1call \in [Procs -> FrameType(L1Slots)]
  /\ l2call \in [Procs -> FrameType(L2Slots)]
  /\ nvccall \in [Procs -> FrameType(NvcSlots)]
  /\ nvcLock \in Procs \cup {NoProc}

\* Every occupied persist-buffer entry belongs to a transaction that has
\* begun and has not been flushed: when nextPersistTrax moves past a
\* transaction, l1_access has emptied the buffer of it, and no later
\* write-back of one of its lines, at any level, brings it back.
PBWindow ==
  \A p \in Procs : \A i \in PBLines :
    pb[p][i].tx # NoTx => nextPersist[p] <= pb[p][i].tx /\ pb[p][i].tx <= txId[p]

\* The persist buffer never holds one line twice, whichever of the four
\* levels insert_PB was called from, and an entry has an address exactly if
\* it has a transaction.
PBDistinct ==
  \A p \in Procs : \A i, j \in PBLines :
    /\ pb[p][i].tx = NoTx <=> pb[p][i].addr = NoLine
    /\ pb[p][i].addr # NoLine /\ pb[p][i].addr = pb[p][j].addr => i = j

\* No cache holds the same line of the same process in two slots: a lookup
\* of L1, L2, NVC or DRAM that fails really means that the line is absent,
\* across evictions and write-backs that race with its own fetch.
CachesUnique ==
  /\ \A p \in Procs :
       /\ \A i, j \in L1Slots : l1[p][i].addr = l1[p][j].addr /\ i # j => l1[p][i].addr = 0
       /\ \A i, j \in L2Slots : l2[p][i].addr = l2[p][j].addr /\ i # j => l2[p][i].addr = 0
  /\ \A i, j \in NvcSlots :
       nvc[i].addr = nvc[j].addr /\ nvc[i].proc = nvc[j].proc /\ i # j => nvc[i].addr = 0
  /\ \A i, j \in DramSlots :
       dram[i].addr = dram[j].addr /\ dram[i].proc = dram[j].proc /\ i # j => dram[i].addr = 0

\* When l1_evict gets control back, the victim is valid in L2, modified if it
\* was modified in L1, and tagged with the transaction it had there; until
\* then its L1 slot still holds it.
WritebackLands ==
  \A p \in Procs :
    l1call[p].stage = "evicting" /\ l2call[p].stage = "idle" =>
      LET victim == l1[p][l1call[p].slot]
      IN  /\ victim.state # "I"
          /\ \E i \in L2Lookup(p, victim.addr) :
               /\ l2[p][i].state # "I"
               /\ victim.state = "M" => l2[p][i].state = "M"
               /\ l2[p][i].tx = victim.tx

\* Nothing on the stack is ever treated as persistent: no such address gets
\* into a persist buffer, and no cached line of it carries a transaction,
\* although tags travel down with write-backs long after the store.
StackVolatile ==
  /\ \A p \in Procs :
       /\ \A i \in PBLines : pb[p][i].addr < StackBase
       /\ \A i \in L1Slots : l1[p][i].tx # NoTx => l1[p][i].addr < StackBase
       /\ \A i \in L2Slots : l2[p][i].tx # NoTx => l2[p][i].addr < StackBase
  /\ \A i \in NvcSlots : nvc[i].tx # NoTx => nvc[i].addr < StackBase

\* The two tags of a private line agree, and whatever travels through the
\* private levels as persistent, a tagged line or a request of a handler
\* still running, belongs to a transaction that has begun and is not stack.
\* evict trusts this: it decides by pb_line and then sends tx_id along.
Heap == {addr \in Addrs : addr < StackBase}
LineOK(p, line) ==
  /\ line.pb = NoLine => line.tx = NoTx
  /\ line.pb # NoLine => line.tx <= txId[p] /\ line.addr \in Heap
RequestOK(p, req) == req.persistent => req.epoch <= txId[p] /\ req.addr \in Heap

TagsAgree ==
  \A p \in Procs :
    /\ \A i \in L1Slots : LineOK(p, l1[p][i])
    /\ \A i \in L2Slots : LineOK(p, l2[p][i])
    /\ RequestOK(p, l1call[p].req)
    /\ RequestOK(p, l2call[p].req)
    /\ RequestOK(p, nvccall[p].req)

\* Between a miss in the shared NVC and the end of its fetch, the process
\* holds nvc_lock, the slot it emptied stays empty, and nobody brings the
\* line in behind its back.
NvcCritical ==
  \A p \in Procs :
    nvccall[p].stage = "fetching" =>
      /\ nvcLock = p
      /\ nvc[nvccall[p].slot].state = "I"
      /\ NvcLookup(p, nvccall[p].req.addr) = {}

\* The transaction tag of an NVC line is one that the process the line belongs
\* to has begun, and only in its running transaction or an earlier one: when
\* slots change hands between processes, no tag is left behind that would send
\* the new owner's line to the NVM.
Begun(p, tx) == tx < txId[p] \/ (tx = txId[p] /\ persistent[p])

NvcTagOfOwner ==
  \A i \in NvcSlots :
    nvc[i].tx # NoTx => nvc[i].proc \in Procs /\ Begun(nvc[i].proc, nvc[i].tx)

\* The persist buffers implement Ledger: whichever level inserts, with whatever
\* line of the buffer in its tag and however late, and although nvc_access
\* inserts twice, a process's records change only as Ledger says.  And
\* nextPersistTrax advances one transaction at a time, never beyond the running
\* one, with a flush that touches only records of the one it makes durable.
Records(p) == {pb[p][i] : i \in PBLines} \ {NoEntry}

Buffers == INSTANCE Ledger WITH
  ledger <- [p \in Procs |-> Records(p)],
  oldest <- nextPersist,
  newest <- txId

ImplementsLedger == Buffers!Spec

\* Loads and stores keep returning as long as there are any, however many
\* evictions they nest: nvc_lock is unfair, so that an access may be overtaken
\* for ever, but all of them never wait.
Returns(p) == l1call[p].stage # "idle" /\ l1call'[p].stage = "idle"

AccessReturns ==
  \/ []<><<\E p \in Procs : Returns(p)>>_vars
  \/ <>[](\A p \in Procs : l1call[p].stage = "idle")

=============================================================================
