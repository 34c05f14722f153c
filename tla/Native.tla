------------------------------- MODULE Native -------------------------------
(***************************************************************************)
(* The memory system under the architectures NATIVE (src/native.h) and     *)
(* NVMLOG (src/nvmlog.h): private L1 and L2, a shared NVC and DRAM, and no *)
(* persist buffer.  The two are the same code but for two places: NVMLOG   *)
(* charges a persistent store for its undo log, and its l2_evict assigns   *)
(* the constant I to the address of the victim instead of to its state.    *)
(*                                                                         *)
(* nvc_access runs from start to end under nvc_lock, with the DRAM inside, *)
(* so it is one step of the L2 handler that calls it; the private levels   *)
(* of other processes interleave with it.                                  *)
(*                                                                         *)
(* stored is a history variable: the addresses each program has stored to. *)
(* Not in this module: cycle counts, latencies and statistics, and so the  *)
(* undo log of NVMLOG, which consists of both.                             *)
(***************************************************************************)
EXTENDS CacheOps, Geometry

VARIABLES
  arch,             \* the architecture whose handlers main installed
  l1, l2,           \* [Procs -> cache]
  nvc, dram,        \* caches whose lines also name a process
  l1call, l2call,   \* [Procs -> frame]: activation of each private handler
  stored            \* [Procs -> SUBSET Addrs]

vars == <<arch, l1, l2, nvc, dram, l1call, l2call, stored>>

\* Arch of libsim.h, the part that has no persist buffer.
Archs == {"NATIVE", "NVMLOG"}

Stages == {"idle", "enter", "evicting", "fetching"}

EmptyLine       == [addr |-> 0, state |-> "I", ts |-> 0]
EmptySharedLine == [addr |-> 0, state |-> "I", ts |-> 0, proc |-> NoProc]

\* MemReq, and a handler's activation: its request, its slot, where it stands.
Request(addr, type)    == [addr |-> addr, type |-> type]
Frame(req, slot, stage) == [req |-> req, slot |-> slot, stage |-> stage]
Returned     == Frame(Request(0, "GETS"), 0, "idle")
Entered(req) == Frame(req, 0, "enter")

\* MUTANT of Writeback: the request takes the state of the line for its type.
WritebackState(line) == Request(line.addr, line.state)
\* MUTANT of Writeback: every write-back is a clean one.
WritebackClean(line) == Request(line.addr, "PUTS")

\* The request evict sends down for a line.
Writeback(line) == Request(line.addr, WritebackType(line.state))

Init ==
  /\ arch \in Archs
  /\ l1 = [p \in Procs |-> [i \in L1Slots |-> EmptyLine]]
  /\ l2 = [p \in Procs |-> [i \in L2Slots |-> EmptyLine]]
  /\ nvc = [i \in NvcSlots |-> EmptySharedLine]
  /\ dram = [i \in DramSlots |-> EmptySharedLine]
  /\ l1call = [p \in Procs |-> Returned]
  /\ l2call = [p \in Procs |-> Returned]
  /\ stored = [p \in Procs |-> {}]

-----------------------------------------------------------------------------
(* The program *)

RecordMem(p, req) ==
  /\ l1call[p].stage = "idle"
  /\ l1call' = [l1call EXCEPT ![p] = Entered(req)]
  /\ UNCHANGED <<arch, l1, l2, nvc, dram, l2call>>

RecordMemRead(p, addr) ==
  RecordMem(p, Request(addr, "GETS")) /\ UNCHANGED stored

RecordMemWrite(p, addr) ==
  /\ RecordMem(p, Request(addr, "GETX"))
  /\ stored' = [stored EXCEPT ![p] = @ \cup {addr}]

-----------------------------------------------------------------------------
(* L1 *)

L1Set(addr) == SetSlots(addr, L1Sets, L1Ways)
L1Lookup(p, addr) == Holding(l1[p], L1Set(addr), addr)
L1Preinsert(p, addr) == Victim(l1[p], L1Set(addr))

\* l1_postinsert
L1Serve(p, req, slot) ==
  l1' = [l1 EXCEPT ![p] = PostInsert(@, L1Set(req.addr), L1Ways, slot, req)]

L1Hit(p) ==
  LET req == l1call[p].req
      hit == L1Lookup(p, req.addr)
  IN  /\ l1call[p].stage = "enter"
      /\ hit # {}
      /\ L1Serve(p, req, Min(hit))
      /\ l1call' = [l1call EXCEPT ![p] = Returned]
      /\ UNCHANGED <<arch, l2, nvc, dram, l2call, stored>>

\* A miss calls l2_access: for the victim if it is valid, else for the line.
L1Miss(p) ==
  LET req    == l1call[p].req
      slot   == L1Preinsert(p, req.addr)
      victim == l1[p][slot]
  IN  /\ l1call[p].stage = "enter"
      /\ L1Lookup(p, req.addr) = {}
      /\ \/ /\ victim.state = "I"
            /\ l1call' = [l1call EXCEPT ![p] = Frame(req, slot, "fetching")]
            /\ l2call' = [l2call EXCEPT ![p] = Entered(req)]
         \/ /\ victim.state # "I"
            /\ l1call' = [l1call EXCEPT ![p] = Frame(req, slot, "evicting")]
            /\ l2call' = [l2call EXCEPT ![p] = Entered(Writeback(victim))]
      /\ UNCHANGED <<arch, l1, l2, nvc, dram, stored>>

L1Evicted(p) ==
  LET call == l1call[p]
  IN  /\ call.stage = "evicting"
      /\ l2call[p].stage = "idle"
      /\ l1' = [l1 EXCEPT ![p] = Invalidated(@, call.slot)]
      /\ l1call' = [l1call EXCEPT ![p].stage = "fetching"]
      /\ l2call' = [l2call EXCEPT ![p] = Entered(call.req)]
      /\ UNCHANGED <<arch, l2, nvc, dram, stored>>

L1Fetched(p) ==
  LET call == l1call[p]
  IN  /\ call.stage = "fetching"
      /\ l2call[p].stage = "idle"
      /\ L1Serve(p, call.req, call.slot)
      /\ l1call' = [l1call EXCEPT ![p] = Returned]
      /\ UNCHANGED <<arch, l2, nvc, dram, l2call, stored>>

-----------------------------------------------------------------------------
(* DRAM and NVC.  Lookups compare the procId of a line, which postinsert   *)
(* never sets here: it stays (uint32_t)(-1).                               *)

DramSet(addr) == SetSlots(addr, DramSets, DramWays)
DramLookup(cache, p, addr) ==
  {i \in Holding(cache, DramSet(addr), addr) : cache[i].proc = p}
DramPreinsert(cache, addr) == Victim(cache, DramSet(addr))

\* The DRAM cache after dram_access; its victim and its fetch go to the NVM,
\* which keeps no state.
NativeDramAccess(cache, p, req) ==
  LET hit   == DramLookup(cache, p, req.addr)
      slot  == IF hit # {} THEN Min(hit) ELSE DramPreinsert(cache, req.addr)
      ready == IF hit # {} THEN cache ELSE Invalidated(cache, slot)
  IN  PostInsert(ready, DramSet(req.addr), DramWays, slot, req)
NvmLogDramAccess(cache, p, req) == NativeDramAccess(cache, p, req)

DramAccess(cache, p, req) ==
  IF arch = "NATIVE" THEN NativeDramAccess(cache, p, req)
  ELSE NvmLogDramAccess(cache, p, req)

NvcSet(addr) == SetSlots(addr, NvcSets, NvcWays)
NvcLookup(p, addr) == {i \in Holding(nvc, NvcSet(addr), addr) : nvc[i].proc = p}
NvcPreinsert(addr) == Victim(nvc, NvcSet(addr))

\* The DRAM after nvc_access: it serves the victim, if valid, and the fetch.
NvcMissServed(p, req, slot) ==
  LET freed == IF nvc[slot].state = "I" THEN dram
               ELSE DramAccess(dram, p, Writeback(nvc[slot]))
  IN  DramAccess(freed, p, req)

\* nvc_access, a critical section of nvc_lock.
NativeNvcAccess(p, req) ==
  LET hit   == NvcLookup(p, req.addr)
      slot  == IF hit # {} THEN Min(hit) ELSE NvcPreinsert(req.addr)
      ready == IF hit # {} THEN nvc ELSE Invalidated(nvc, slot)
  IN  /\ nvc' = PostInsert(ready, NvcSet(req.addr), NvcWays, slot, req)
      /\ dram' = IF hit # {} THEN dram ELSE NvcMissServed(p, req, slot)
NvmLogNvcAccess(p, req) == NativeNvcAccess(p, req)

NvcAccess(p, req) ==
  \/ arch = "NATIVE" /\ NativeNvcAccess(p, req)
  \/ arch = "NVMLOG" /\ NvmLogNvcAccess(p, req)

-----------------------------------------------------------------------------
(* L2 *)

L2Set(addr) == SetSlots(addr, L2Sets, L2Ways)
\* MUTANT of L2Lookup: the last way of the set is not searched.
L2LookupShort(p, addr) == Holding(l2[p], L2Set(addr) \ {Max(L2Set(addr))}, addr)

L2Lookup(p, addr) == Holding(l2[p], L2Set(addr), addr)
L2Preinsert(p, addr) == Victim(l2[p], L2Set(addr))

\* l2_postinsert
L2Serve(p, req, slot) ==
  l2' = [l2 EXCEPT ![p] = PostInsert(@, L2Set(req.addr), L2Ways, slot, req)]

L2Hit(p) ==
  LET req == l2call[p].req
      hit == L2Lookup(p, req.addr)
  IN  /\ l2call[p].stage = "enter"
      /\ hit # {}
      /\ L2Serve(p, req, Min(hit))
      /\ l2call' = [l2call EXCEPT ![p] = Returned]
      /\ UNCHANGED <<arch, l1, nvc, dram, l1call, stored>>

\* What l2_evict leaves of its victim.
L2EvictNative(cache, slot) == Invalidated(cache, slot)
L2EvictNvmLog(cache, slot) == [cache EXCEPT ![slot].addr = 0]

\* MUTANT of L2Evict: NVMLOG's last assignment in both architectures.
L2EvictAddress(cache, slot) == L2EvictNvmLog(cache, slot)

L2Evict(cache, slot) ==
  IF arch = "NATIVE" THEN L2EvictNative(cache, slot) ELSE L2EvictNvmLog(cache, slot)

\* l2_access misses: preinsert and evict, which writes a valid victim back.
L2Miss(p) ==
  LET req    == l2call[p].req
      slot   == L2Preinsert(p, req.addr)
      victim == l2[p][slot]
  IN  /\ l2call[p].stage = "enter"
      /\ L2Lookup(p, req.addr) = {}
      /\ \/ victim.state = "I" /\ UNCHANGED <<l2, nvc, dram>>
         \/ /\ victim.state # "I"
            /\ NvcAccess(p, Writeback(victim))
            /\ l2' = [l2 EXCEPT ![p] = L2Evict(@, slot)]
      /\ l2call' = [l2call EXCEPT ![p] = Frame(req, slot, "fetching")]
      /\ UNCHANGED <<arch, l1, l1call, stored>>

\* The fetch and postinsert of l2_access.
L2Fetched(p) ==
  LET call == l2call[p]
  IN  /\ call.stage = "fetching"
      /\ NvcAccess(p, call.req)
      /\ L2Serve(p, call.req, call.slot)
      /\ l2call' = [l2call EXCEPT ![p] = Returned]
      /\ UNCHANGED <<arch, l1, l1call, stored>>

-----------------------------------------------------------------------------
(* Specification *)

Program(p) ==
  \E addr \in Addrs : RecordMemRead(p, addr) \/ RecordMemWrite(p, addr)

L1Access(p) == L1Hit(p) \/ L1Miss(p) \/ L1Evicted(p) \/ L1Fetched(p)
L2Access(p) == L2Hit(p) \/ L2Miss(p) \/ L2Fetched(p)

NativeL1Access(p) == arch = "NATIVE" /\ L1Access(p)
NativeL2Access(p) == arch = "NATIVE" /\ L2Access(p)
NvmLogL1Access(p) == arch = "NVMLOG" /\ L1Access(p)
NvmLogL2Access(p) == arch = "NVMLOG" /\ L2Access(p)

Next ==
  \E p \in Procs :
    \/ Program(p)
    \/ NativeL1Access(p) \/ NativeL2Access(p)
    \/ NvmLogL1Access(p) \/ NvmLogL2Access(p)

Spec == Init /\ [][Next]_vars

-----------------------------------------------------------------------------
(* Properties *)

ReqType == [addr : Addrs \cup {0}, type : AccessTypes]
FrameType(slots) == [req : ReqType, slot : slots, stage : Stages]
PrivateLine(ways) == [addr : Addrs \cup {0}, state : MESI, ts : 0 .. ways]
SharedLine(ways) ==
  [addr : Addrs \cup {0}, state : MESI, ts : 0 .. ways, proc : Procs \cup {NoProc}]

TypeOK ==
  /\ arch \in Archs
  /\ l1 \in [Procs -> [L1Slots -> PrivateLine(L1Ways)]]
  /\ l2 \in [Procs -> [L2Slots -> PrivateLine(L2Ways)]]
  /\ nvc \in [NvcSlots -> SharedLine(NvcWays)]
  /\ dram \in [DramSlots -> SharedLine(DramWays)]
  /\ l1call \in [Procs -> FrameType(L1Slots)]
  /\ l2call \in [Procs -> FrameType(L2Slots)]
  /\ stored \in [Procs -> SUBSET Addrs]

\* NATIVE writes back as modified only what was stored to: a line that is
\* modified at any level, or a request in flight that says so, has an address
\* to which the process, or some process for a shared level, has stored, even
\* though postinsert takes the old state of a slot into account.
Dirty(type) == type \in {"GETX", "PUTX"}
DirtyWasStored ==
  arch = "NATIVE" =>
    /\ \A p \in Procs :
         /\ \A i \in L1Slots : l1[p][i].state = "M" => l1[p][i].addr \in stored[p]
         /\ \A i \in L2Slots : l2[p][i].state = "M" => l2[p][i].addr \in stored[p]
         /\ Dirty(l1call[p].req.type) => l1call[p].req.addr \in stored[p]
         /\ Dirty(l2call[p].req.type) => l2call[p].req.addr \in stored[p]
    /\ \A i \in NvcSlots :
         nvc[i].state = "M" => \E p \in Procs : nvc[i].addr \in stored[p]
    /\ \A i \in DramSlots :
         dram[i].state = "M" => \E p \in Procs : dram[i].addr \in stored[p]

\* When l1_evict gets control back, the victim is valid in L2, and modified
\* there if it was modified in L1.
WritebackLands ==
  \A p \in Procs :
    l1call[p].stage = "evicting" /\ l2call[p].stage = "idle" =>
      LET victim == l1[p][l1call[p].slot]
      IN  \E i \in L2Lookup(p, victim.addr) :
            l2[p][i].state = (IF victim.state = "M" THEN "M" ELSE "E")

\* No private cache holds a line in two slots, although L2 searches for the
\* victim of L1 and for the line itself in one access, and NVMLOG clears the
\* address of an evicted line.
PrivateUnique ==
  \A p \in Procs :
    /\ \A i, j \in L1Slots : l1[p][i].addr = l1[p][j].addr /\ i # j => l1[p][i].addr = 0
    /\ \A i, j \in L2Slots : l2[p][i].addr = l2[p][j].addr /\ i # j => l2[p][i].addr = 0
=============================================================================
