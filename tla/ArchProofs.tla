----------------------------- MODULE ArchProofs -----------------------------
(***************************************************************************)
(* Proofs about Architectures, for every number of processes and           *)
(* addresses, every geometry of the caches and every size of the persist   *)
(* buffer.                                                                 *)
(***************************************************************************)
EXTENDS Architectures, CacheProofs

-----------------------------------------------------------------------------
(* Native has the operators of CacheOps and Geometry, too *)

LEMMA SameOps ==
  /\ \A S : V!Min(S) = Min(S)
  /\ \A cache, slots : V!Victim(cache, slots) = Victim(cache, slots)
  /\ \A cache, slots, addr : V!Holding(cache, slots, addr) = Holding(cache, slots, addr)
  /\ \A addr, sets, ways : V!SetSlots(addr, sets, ways) = SetSlots(addr, sets, ways)
  /\ \A st : V!WritebackType(st) = WritebackType(st)
  /\ \A type, st : V!StateAfter(type, st) = StateAfter(type, st)
  /\ \A cache, i : V!Invalidated(cache, i) = Invalidated(cache, i)
  /\ V!MESI = MESI /\ V!AccessTypes = AccessTypes
  /\ V!Procs = Procs /\ V!NoProc = NoProc
  /\ V!L1Slots = L1Slots /\ V!L2Slots = L2Slots
  /\ V!NvcSlots = NvcSlots /\ V!DramSlots = DramSlots
  /\ V!Stages \subseteq Stages
<1>1. \A S : V!Min(S) = Min(S)
  BY DEF V!Min, Min
<1>2. \A cache, slots : V!Victim(cache, slots) = Victim(cache, slots)
  BY <1>1 DEF V!Victim, Victim
<1>3. \A cache, slots, addr : V!Holding(cache, slots, addr) = Holding(cache, slots, addr)
  BY DEF V!Holding, Holding
<1>4. \A addr, sets, ways : V!SetSlots(addr, sets, ways) = SetSlots(addr, sets, ways)
  BY DEF V!SetSlots, SetSlots
<1>5. /\ \A st : V!WritebackType(st) = WritebackType(st)
      /\ \A type, st : V!StateAfter(type, st) = StateAfter(type, st)
  BY DEF V!WritebackType, WritebackType, V!StateAfter, StateAfter
<1>6. \A cache, i : V!Invalidated(cache, i) = Invalidated(cache, i)
  BY DEF V!Invalidated, Invalidated
<1>7. /\ V!MESI = MESI /\ V!AccessTypes = AccessTypes
      /\ V!Procs = Procs /\ V!NoProc = NoProc
      /\ V!L1Slots = L1Slots /\ V!L2Slots = L2Slots
      /\ V!NvcSlots = NvcSlots /\ V!DramSlots = DramSlots
  BY DEF V!MESI, MESI, V!AccessTypes, AccessTypes, V!Procs, Procs, V!NoProc, NoProc,
         V!L1Slots, L1Slots, V!L2Slots, L2Slots, V!NvcSlots, NvcSlots, V!DramSlots, DramSlots
<1>8. V!Stages \subseteq Stages
  BY DEF V!Stages, Stages
<1>. QED BY <1>1, <1>2, <1>3, <1>4, <1>5, <1>6, <1>7, <1>8

LEMMA SameInsert ==
  \A cache, slots, ways, i, req :
    V!PostInsert(cache, slots, ways, i, req) = PostInsert(cache, slots, ways, i, req)
BY DEF V!PostInsert, PostInsert, V!RankAfter, RankAfter, V!StateAfter, StateAfter

-----------------------------------------------------------------------------
(* NATIVE and NVMLOG: what an insertion does to a cache *)

\* The caches of Native.  Opaque: the provers see inside only where it matters.
PrivateCache(cache, S, ways) == cache \in [S -> V!PrivateLine(ways)]
SharedCache(cache, S, ways)  == cache \in [S -> V!SharedLine(ways)]

\* What an insertion, or an eviction, at slot i makes of a cache.
Inserted(cache, new, S, i, req) ==
  /\ \A j \in S \ {i} : new[j].addr = cache[j].addr /\ new[j].state = cache[j].state
  /\ new[i].addr = req.addr
  /\ new[i].state = StateAfter(req.type, cache[i].state)

Emptied(cache, new, S, i) ==
  /\ \A j \in S : new[j].addr = cache[j].addr
  /\ \A j \in S \ {i} : new[j].state = cache[j].state
  /\ new[i].state = "I"

\* A private cache of Native after an insertion.
LEMMA NativeInsert ==
  ASSUME NEW S, NEW ways \in Nat, NEW slots, NEW i \in S, NEW req \in V!ReqType,
         NEW cache, PrivateCache(cache, S, ways)
  PROVE  LET new == PostInsert(cache, slots, ways, i, req)
         IN  PrivateCache(new, S, ways) /\ Inserted(cache, new, S, i, req)
<1>. DEFINE new == PostInsert(cache, slots, ways, i, req)
            st  == StateAfter(req.type, cache[i].state)
            rank(j) == RankAfter(cache, slots, ways, i, j)
<1>. USE DEF PrivateCache, SharedCache
<1>1. \A j \in S : rank(j) \in 0 .. ways
  BY RankIn DEF V!PrivateLine
<1>2. new = [j \in S |-> IF j = i
                         THEN [cache[j] EXCEPT !.addr  = req.addr,
                                               !.state = StateAfter(req.type, @),
                                               !.ts    = rank(j)]
                         ELSE [cache[j] EXCEPT !.ts = rank(j)]]
  BY DEF PostInsert
<1>3. new[i] = [cache[i] EXCEPT !.addr = req.addr, !.state = st, !.ts = rank(i)]
  BY <1>2 DEF V!PrivateLine
<1>4. \A j \in S \ {i} : new[j] = [cache[j] EXCEPT !.ts = rank(j)]
  BY <1>2
<1>5. req.addr \in Addrs \cup {0} /\ st \in V!MESI
  BY StateAfterIn, SameOps DEF V!ReqType
<1>6. new = [j \in S |-> new[j]]
  BY <1>2
<1>. HIDE DEF rank, st, new
<1>7. /\ new[i] \in V!PrivateLine(ways)
      /\ new[i].addr = req.addr /\ new[i].state = st
  BY <1>1, <1>3, <1>5 DEF V!PrivateLine
<1>8. \A j \in S \ {i} : /\ new[j] \in V!PrivateLine(ways)
                         /\ new[j].addr = cache[j].addr /\ new[j].state = cache[j].state
  BY <1>1, <1>4 DEF V!PrivateLine
<1>9. PrivateCache(new, S, ways)
  BY <1>6, <1>7, <1>8
<1>. QED BY <1>7, <1>8, <1>9 DEF new, st, Inserted

\* A shared one, whose lines also name a process that nobody sets.
LEMMA NativeSharedInsert ==
  ASSUME NEW S, NEW ways \in Nat, NEW slots, NEW i \in S, NEW req \in V!ReqType,
         NEW cache, SharedCache(cache, S, ways)
  PROVE  LET new == PostInsert(cache, slots, ways, i, req)
         IN  SharedCache(new, S, ways) /\ Inserted(cache, new, S, i, req)
<1>. DEFINE new == PostInsert(cache, slots, ways, i, req)
            st  == StateAfter(req.type, cache[i].state)
            rank(j) == RankAfter(cache, slots, ways, i, j)
<1>. USE DEF PrivateCache, SharedCache
<1>1. \A j \in S : rank(j) \in 0 .. ways
  BY RankIn DEF V!SharedLine
<1>2. new = [j \in S |-> IF j = i
                         THEN [cache[j] EXCEPT !.addr  = req.addr,
                                               !.state = StateAfter(req.type, @),
                                               !.ts    = rank(j)]
                         ELSE [cache[j] EXCEPT !.ts = rank(j)]]
  BY DEF PostInsert
<1>3. new[i] = [cache[i] EXCEPT !.addr = req.addr, !.state = st, !.ts = rank(i)]
  BY <1>2 DEF V!SharedLine
<1>4. \A j \in S \ {i} : new[j] = [cache[j] EXCEPT !.ts = rank(j)]
  BY <1>2
<1>5. req.addr \in Addrs \cup {0} /\ st \in V!MESI
  BY StateAfterIn, SameOps DEF V!ReqType
<1>6. new = [j \in S |-> new[j]]
  BY <1>2
<1>. HIDE DEF rank, st, new
<1>7. /\ new[i] \in V!SharedLine(ways)
      /\ new[i].addr = req.addr /\ new[i].state = st
  BY <1>1, <1>3, <1>5 DEF V!SharedLine
<1>8. \A j \in S \ {i} : /\ new[j] \in V!SharedLine(ways)
                         /\ new[j].addr = cache[j].addr /\ new[j].state = cache[j].state
  BY <1>1, <1>4 DEF V!SharedLine
<1>9. SharedCache(new, S, ways)
  BY <1>6, <1>7, <1>8
<1>. QED BY <1>7, <1>8, <1>9 DEF new, st, Inserted

\* An eviction changes one state.
LEMMA NativeInvalidated ==
  ASSUME NEW S, NEW ways, NEW i \in S,
         NEW cache,
         PrivateCache(cache, S, ways) \/ SharedCache(cache, S, ways)
  PROVE  LET new == Invalidated(cache, i)
         IN  /\ PrivateCache(cache, S, ways) => PrivateCache(new, S, ways)
             /\ SharedCache(cache, S, ways) => SharedCache(new, S, ways)
             /\ Emptied(cache, new, S, i)
<1>. DEFINE line == [cache[i] EXCEPT !.state = "I"]
            new  == Invalidated(cache, i)
<1>. USE DEF PrivateCache, SharedCache
<1>1. new = [cache EXCEPT ![i] = line] /\ DOMAIN cache = S
  BY DEF Invalidated
<1>2. "I" \in V!MESI
  BY DEF V!MESI
<1>3. /\ cache[i] \in V!PrivateLine(ways) => line \in V!PrivateLine(ways)
      /\ cache[i] \in V!SharedLine(ways) => line \in V!SharedLine(ways)
  BY <1>2 DEF V!PrivateLine, V!SharedLine
<1>4. line.addr = cache[i].addr /\ line.state = "I"
  <2>1. CASE cache[i] \in V!PrivateLine(ways)
    BY <2>1 DEF V!PrivateLine
  <2>2. CASE cache[i] \in V!SharedLine(ways)
    BY <2>2 DEF V!SharedLine
  <2>. QED BY <2>1, <2>2
<1>. HIDE DEF line, new
<1>5. new[i] = line /\ \A j \in S \ {i} : new[j] = cache[j]
  BY <1>1
<1>. QED BY <1>1, <1>3, <1>4, <1>5 DEF new, Emptied

\* What is modified was stored to.
CleanOf(cache, S, W) == \A i \in S : cache[i].state = "M" => cache[i].addr \in W

\* A private cache that serves a request for a line in order to which nobody
\* else has it stays in order, and modifies only what was stored to.
LEMMA NativeServed ==
  ASSUME NEW sets, NEW ways \in Nat, NEW S, NEW req \in V!ReqType, NEW slot \in S, NEW W,
         NEW cache, PrivateCache(cache, S, ways),
         AtHome(cache, S, sets, ways), Distinct(cache, S),
         slot \in SetSlots(req.addr, sets, ways),
         req.addr # 0 =>
           \A j \in Holding(cache, SetSlots(req.addr, sets, ways), req.addr) : j = slot
  PROVE  LET new == PostInsert(cache, SetSlots(req.addr, sets, ways), ways, slot, req)
         IN  /\ PrivateCache(new, S, ways)
             /\ AtHome(new, S, sets, ways) /\ Distinct(new, S)
             /\ Inserted(cache, new, S, slot, req)
             /\ /\ cache[slot].state = "M" => cache[slot].addr = req.addr
                /\ V!Dirty(req.type) => req.addr \in W
                /\ CleanOf(cache, S, W)
                => CleanOf(new, S, W)
<1>. DEFINE set == SetSlots(req.addr, sets, ways)
            new == PostInsert(cache, set, ways, slot, req)
<1>1. PrivateCache(new, S, ways) /\ Inserted(cache, new, S, slot, req)
  BY NativeInsert
<1>. HIDE DEF new
<1>2. AtHome(new, S, sets, ways) /\ Distinct(new, S)
  BY <1>1, Placed DEF Inserted
<1>3. ASSUME cache[slot].state = "M" => cache[slot].addr = req.addr,
             V!Dirty(req.type) => req.addr \in W, CleanOf(cache, S, W)
      PROVE  CleanOf(new, S, W)
  <2>1. new[slot].state = "M" => req.addr \in W
    BY <1>1, <1>3 DEF StateAfter, V!Dirty, CleanOf, Inserted
  <2>. QED BY <1>1, <1>3, <2>1 DEF CleanOf, Inserted
<1>. QED BY <1>1, <1>2, <1>3 DEF new

\* A shared cache, when the slot of the request was hit or has been evicted.
Prepared(cache, ready, slot, req) ==
  \/ ready = cache /\ cache[slot].addr = req.addr
  \/ ready = Invalidated(cache, slot)

LEMMA NativeSharedServed ==
  ASSUME NEW S, NEW ways \in Nat, NEW set, NEW slot \in S, NEW req \in V!ReqType, NEW W,
         NEW cache, SharedCache(cache, S, ways), NEW ready,
         Prepared(cache, ready, slot, req)
  PROVE  LET new == PostInsert(ready, set, ways, slot, req)
         IN  /\ SharedCache(new, S, ways)
             /\ (V!Dirty(req.type) => req.addr \in W) /\ CleanOf(cache, S, W) => CleanOf(new, S, W)
<1>. DEFINE new == PostInsert(ready, set, ways, slot, req)
<1>1. /\ SharedCache(ready, S, ways)
      /\ \A j \in S \ {slot} : ready[j].addr = cache[j].addr /\ ready[j].state = cache[j].state
      /\ ready[slot].state = "M" => cache[slot].state = "M" /\ cache[slot].addr = req.addr
  <2>1. CASE ready = cache /\ cache[slot].addr = req.addr
    BY <2>1
  <2>2. CASE ready = Invalidated(cache, slot)
    <3>1. SharedCache(ready, S, ways) /\ Emptied(cache, ready, S, slot)
      BY <2>2, NativeInvalidated
    <3>. QED BY <3>1 DEF Emptied
  <2>. QED BY <2>1, <2>2 DEF Prepared
<1>2. SharedCache(new, S, ways) /\ Inserted(ready, new, S, slot, req)
  BY <1>1, NativeSharedInsert
<1>. HIDE DEF new
<1>3. ASSUME V!Dirty(req.type) => req.addr \in W, CleanOf(cache, S, W)
      PROVE  CleanOf(new, S, W)
  <2>1. new[slot].state = "M" => req.addr \in W
    BY <1>1, <1>2, <1>3 DEF StateAfter, V!Dirty, CleanOf, Inserted
  <2>. QED BY <1>1, <1>2, <1>3, <2>1 DEF CleanOf, Inserted
<1>. QED BY <1>2, <1>3 DEF new

\* nvc_access and dram_access do the same to their caches.
Refilled(cache, p, req, sets, ways) ==
  LET set  == SetSlots(req.addr, sets, ways)
      hit  == {i \in Holding(cache, set, req.addr) : cache[i].proc = p}
      slot == IF hit # {} THEN Min(hit) ELSE Victim(cache, set)
  IN  PostInsert(IF hit # {} THEN cache ELSE Invalidated(cache, slot), set, ways, slot, req)

LEMMA NativeRefilled ==
  ASSUME NEW sets, NEW ways \in Nat, NEW req \in V!ReqType, NEW p, NEW W, NEW S, S \subseteq Nat,
         SetSlots(req.addr, sets, ways) \subseteq S, SetSlots(req.addr, sets, ways) # {},
         NEW cache, SharedCache(cache, S, ways)
  PROVE  LET new == Refilled(cache, p, req, sets, ways)
         IN  /\ SharedCache(new, S, ways)
             /\ (V!Dirty(req.type) => req.addr \in W) /\ CleanOf(cache, S, W) => CleanOf(new, S, W)
<1>. DEFINE set  == SetSlots(req.addr, sets, ways)
            hit  == {i \in Holding(cache, set, req.addr) : cache[i].proc = p}
            slot == IF hit # {} THEN Min(hit) ELSE Victim(cache, set)
            ready == IF hit # {} THEN cache ELSE Invalidated(cache, slot)
<1>1. hit # {} => slot \in hit
  <2>1. hit \subseteq Nat
    BY DEF Holding
  <2>. QED BY <2>1, MinIn
<1>2. slot \in S
  <2>1. Victim(cache, set) \in set
    <3>1. \A i \in S : cache[i].ts \in Nat
      BY DEF V!SharedLine, SharedCache
    <3>2. set \subseteq Nat /\ \A i \in set : cache[i].ts \in Nat
      BY <3>1
    <3>. QED BY <3>2, VictimIn
  <2>. QED BY <1>1, <2>1 DEF Holding
<1>3. Prepared(cache, ready, slot, req)
  BY <1>1 DEF Holding, Prepared
<1>4. Refilled(cache, p, req, sets, ways) = PostInsert(ready, set, ways, slot, req)
  BY DEF Refilled
<1>. HIDE DEF ready, slot, hit, set
<1>. QED BY <1>2, <1>3, <1>4, NativeSharedServed

LEMMA NativeDramIs ==
  ASSUME NEW cache, NEW p, NEW req
  PROVE  V!DramAccess(cache, p, req) = Refilled(cache, p, req, DramSets, DramWays)
BY SameOps, SameInsert DEF V!DramAccess, V!NativeDramAccess, V!NvmLogDramAccess, V!DramLookup,
   V!DramSet, V!DramPreinsert, Refilled

LEMMA NativeNvcIs ==
  ASSUME NEW p, NEW req, V!NvcAccess(p, req)
  PROVE  /\ nvc' = Refilled(nvc, p, req, NvcSets, NvcWays)
         /\ \/ dram' = dram
            \/ dram' = V!NvcMissServed(p, req, Victim(nvc, SetSlots(req.addr, NvcSets, NvcWays)))
BY SameOps, SameInsert DEF V!NvcAccess, V!NativeNvcAccess, V!NvmLogNvcAccess, V!NvcLookup,
   V!NvcSet, V!NvcPreinsert, Refilled

-----------------------------------------------------------------------------
(* NATIVE and NVMLOG: the inductive invariant *)

L1SetOf(addr) == SetSlots(addr, L1Sets, L1Ways)
L2SetOf(addr) == SetSlots(addr, L2Sets, L2Ways)

\* The private caches are in order, and while l1_access, or l2_access, is under
\* way after a miss, the line it misses stays missing.  Address 0 is nobody's.
L1Home(q) ==
  /\ AtHome(l1[q], L1Slots, L1Sets, L1Ways) /\ Distinct(l1[q], L1Slots)
  /\ l1call[q].stage \in {"evicting", "fetching"} =>
       /\ l1call[q].slot \in L1SetOf(l1call[q].req.addr)
       /\ Holding(l1[q], L1SetOf(l1call[q].req.addr), l1call[q].req.addr) = {}

L2Home(q) ==
  /\ AtHome(l2[q], L2Slots, L2Sets, L2Ways) /\ Distinct(l2[q], L2Slots)
  /\ l2call[q].stage \in {"fetching", "fetched"} =>
       /\ l2call[q].slot \in L2SetOf(l2call[q].req.addr)
       /\ l2call[q].req.addr # 0 =>
            Holding(l2[q], L2SetOf(l2call[q].req.addr), l2call[q].req.addr) = {}

\* While L1 evicts, what L2 works on is its write-back, and in the end L2 has
\* the line.
Landed(cache, line) ==
  \E i \in Holding(cache, L2SetOf(line.addr), line.addr) :
    cache[i].state = IF line.state = "M" THEN "M" ELSE "E"

Landing(q) ==
  l1call[q].stage = "evicting" =>
    /\ l1[q][l1call[q].slot].state # "I"
    /\ l2call[q].stage = "idle" => Landed(l2[q], l1[q][l1call[q].slot])
    /\ l2call[q].stage # "idle" => l2call[q].req = V!Writeback(l1[q][l1call[q].slot])

\* The slot a line is fetched into was emptied before, so that its old state
\* says nothing about the new line.  NVMLOG's L2 does not keep this.
Clean(q) ==
  /\ l2call[q].stage = "fetching" => l2[q][l2call[q].slot].state = "I"
  /\ CleanOf(l1[q], L1Slots, stored[q]) /\ CleanOf(l2[q], L2Slots, stored[q])
  /\ V!Dirty(l1call[q].req.type) => l1call[q].req.addr \in stored[q]
  /\ V!Dirty(l2call[q].req.type) => l2call[q].req.addr \in stored[q]

NativePrivate(q) ==
  /\ L1Home(q) /\ L2Home(q) /\ Landing(q)
  /\ l1call[q].stage = "fetching" => l1[q][l1call[q].slot].state = "I"
  /\ arch = "NATIVE" => Clean(q)

Stored == UNION {stored[q] : q \in Procs}

NativeShared ==
  arch = "NATIVE" => CleanOf(nvc, NvcSlots, Stored) /\ CleanOf(dram, DramSlots, Stored)

NativeInv ==
  /\ V!TypeOK
  /\ \A q \in Procs : NativePrivate(q)
  /\ NativeShared

\* It implies what the runs check of these two.
LEMMA NativeInvImplies ==
  NativeInv => V!TypeOK /\ V!PrivateUnique /\ V!WritebackLands /\ V!DirtyWasStored
<1>. SUFFICES ASSUME NativeInv
     PROVE  V!TypeOK /\ V!PrivateUnique /\ V!WritebackLands /\ V!DirtyWasStored
  OBVIOUS
<1>. USE SameOps
<1>1. V!TypeOK
  BY DEF NativeInv
<1>2. V!PrivateUnique
  BY DEF NativeInv, NativePrivate, L1Home, L2Home, Distinct, V!PrivateUnique
<1>3. V!WritebackLands
  BY DEF NativeInv, NativePrivate, Landing, Landed, L2SetOf, V!WritebackLands, V!L2Lookup, V!L2Set
<1>4. V!DirtyWasStored
  <2>1. \A addr \in Stored : \E p \in Procs : addr \in stored[p]
    BY DEF Stored
  <2>. QED BY <2>1 DEF NativeInv, NativePrivate, NativeShared, Clean, CleanOf, V!DirtyWasStored
<1>. QED BY <1>1, <1>2, <1>3, <1>4

\* The state of Native, typed.
LEMMA NativeTypes ==
  ASSUME NativeInv
  PROVE  /\ \A q \in Procs : /\ PrivateCache(l1[q], L1Slots, L1Ways)
                             /\ PrivateCache(l2[q], L2Slots, L2Ways)
                             /\ l1call[q] \in V!FrameType(L1Slots)
                             /\ l2call[q] \in V!FrameType(L2Slots)
                             /\ stored[q] \in SUBSET Addrs
         /\ SharedCache(nvc, NvcSlots, NvcWays) /\ SharedCache(dram, DramSlots, DramWays)
         /\ arch \in V!Archs
         /\ DOMAIN l1 = Procs /\ DOMAIN l2 = Procs /\ DOMAIN l1call = Procs
         /\ DOMAIN l2call = Procs /\ DOMAIN stored = Procs
BY SameOps DEF NativeInv, V!TypeOK, PrivateCache, SharedCache

\* What one process does keeps the invariant if it keeps its own part, the
\* shared one, and takes back no store.
LEMMA NativeStep ==
  ASSUME NativeInv, NEW p \in Procs, NEW c1, NEW c2, NEW f1, NEW f2, NEW st,
         l1' = [l1 EXCEPT ![p] = c1], l2' = [l2 EXCEPT ![p] = c2],
         l1call' = [l1call EXCEPT ![p] = f1], l2call' = [l2call EXCEPT ![p] = f2],
         stored' = [stored EXCEPT ![p] = st], arch' = arch,
         PrivateCache(c1, L1Slots, L1Ways), PrivateCache(c2, L2Slots, L2Ways),
         f1 \in V!FrameType(L1Slots), f2 \in V!FrameType(L2Slots), st \in SUBSET Addrs,
         SharedCache(nvc', NvcSlots, NvcWays), SharedCache(dram', DramSlots, DramWays),
         NativePrivate(p)', NativeShared'
  PROVE  NativeInv'
<1>1. V!TypeOK'
  BY SameOps DEF NativeInv, V!TypeOK, PrivateCache, SharedCache
<1>2. ASSUME NEW q \in Procs, q # p
      PROVE  NativePrivate(q)'
  <2>1. /\ l1'[q] = l1[q] /\ l2'[q] = l2[q] /\ l1call'[q] = l1call[q] /\ l2call'[q] = l2call[q]
        /\ stored'[q] = stored[q]
    BY <1>2, NativeTypes
  <2>2. NativePrivate(q)
    BY DEF NativeInv
  <2>3. (L1Home(q) <=> L1Home(q)') /\ (L2Home(q) <=> L2Home(q)')
    BY <2>1 DEF L1Home, L2Home
  <2>4. (Landing(q) <=> Landing(q)') /\ (Clean(q) <=> Clean(q)')
    BY <2>1 DEF Landing, Clean
  <2>. QED BY <2>1, <2>2, <2>3, <2>4 DEF NativePrivate
<1>. QED BY <1>1, <1>2 DEF NativeInv

-----------------------------------------------------------------------------
(* NATIVE and NVMLOG: the steps *)

LEMMA Ways ==
  /\ L1Ways \in Nat /\ L2Ways \in Nat /\ NvcWays \in Nat /\ DramWays \in Nat
  /\ L1Slots \subseteq Nat /\ L2Slots \subseteq Nat /\ NvcSlots \subseteq Nat /\ DramSlots \subseteq Nat
BY GeometryAssumption DEF L1Slots, L2Slots, NvcSlots, DramSlots

LEMMA SetsInside ==
  ASSUME NEW addr \in Addrs \cup {0}
  PROVE  /\ L1SetOf(addr) \subseteq L1Slots /\ L1SetOf(addr) # {}
         /\ L2SetOf(addr) \subseteq L2Slots /\ L2SetOf(addr) # {}
         /\ SetSlots(addr, NvcSets, NvcWays) \subseteq NvcSlots
         /\ SetSlots(addr, NvcSets, NvcWays) # {}
         /\ SetSlots(addr, DramSets, DramWays) \subseteq DramSlots
         /\ SetSlots(addr, DramSets, DramWays) # {}
<1>1. /\ addr \in Nat
      /\ L1Sets \in Nat \ {0} /\ L1Ways \in Nat \ {0} /\ L2Sets \in Nat \ {0} /\ L2Ways \in Nat \ {0}
      /\ NvcSets \in Nat \ {0} /\ NvcWays \in Nat \ {0}
      /\ DramSets \in Nat \ {0} /\ DramWays \in Nat \ {0}
  BY GeometryAssumption
<1>2. L1SetOf(addr) \subseteq L1Slots /\ L1SetOf(addr) # {}
  BY <1>1, SetSlotsIn DEF L1SetOf, L1Slots
<1>3. L2SetOf(addr) \subseteq L2Slots /\ L2SetOf(addr) # {}
  BY <1>1, SetSlotsIn DEF L2SetOf, L2Slots
<1>4. /\ SetSlots(addr, NvcSets, NvcWays) \subseteq NvcSlots
      /\ SetSlots(addr, NvcSets, NvcWays) # {}
  BY <1>1, SetSlotsIn DEF NvcSlots
<1>5. /\ SetSlots(addr, DramSets, DramWays) \subseteq DramSlots
      /\ SetSlots(addr, DramSets, DramWays) # {}
  BY <1>1, SetSlotsIn DEF DramSlots
<1>. QED BY <1>2, <1>3, <1>4, <1>5

\* A variable that the step leaves alone.
LEMMA NativeKept ==
  ASSUME NativeInv, NEW p \in Procs
  PROVE  /\ l1 = [l1 EXCEPT ![p] = l1[p]] /\ l2 = [l2 EXCEPT ![p] = l2[p]]
         /\ l1call = [l1call EXCEPT ![p] = l1call[p]] /\ l2call = [l2call EXCEPT ![p] = l2call[p]]
         /\ stored = [stored EXCEPT ![p] = stored[p]]
BY SameOps DEF NativeInv, V!TypeOK

LEMMA NativeFrames ==
  /\ V!Returned \in V!FrameType(L1Slots) /\ V!Returned \in V!FrameType(L2Slots)
  /\ V!Returned.stage = "idle" /\ ~V!Dirty(V!Returned.req.type)
  /\ \A req \in V!ReqType : /\ V!Entered(req) \in V!FrameType(L1Slots)
                            /\ V!Entered(req) \in V!FrameType(L2Slots)
                            /\ V!Entered(req).stage = "enter" /\ V!Entered(req).req = req
<1>1. 0 \in L1Slots /\ 0 \in L2Slots
  <2>1. 0 \in Addrs \cup {0}
    OBVIOUS
  <2>2. /\ SetSlots(0, L1Sets, L1Ways) \subseteq L1Slots
        /\ SetSlots(0, L2Sets, L2Ways) \subseteq L2Slots
    BY <2>1, SetsInside DEF L1SetOf, L2SetOf
  <2>3. 0 \in SetSlots(0, L1Sets, L1Ways) /\ 0 \in SetSlots(0, L2Sets, L2Ways)
    <3>1. \A n \in Nat \ {0} : 0 % n = 0
      BY Z3
    <3>2. \A n, m \in Nat \ {0} : 0 \in SetSlots(0, n, m)
      BY <3>1 DEF SetSlots
    <3>. QED BY <3>2, GeometryAssumption
  <2>. QED BY <2>2, <2>3
<1>. QED BY <1>1, SameOps DEF V!Returned, V!Entered, V!Frame, V!Request, V!FrameType, V!ReqType,
            V!Stages, V!AccessTypes, V!Dirty

LEMMA NativeFrameIs ==
  ASSUME NEW req \in V!ReqType, NEW slot, NEW stage \in V!Stages
  PROVE  /\ V!Frame(req, slot, stage).req = req /\ V!Frame(req, slot, stage).slot = slot
         /\ V!Frame(req, slot, stage).stage = stage
         /\ slot \in L1Slots => V!Frame(req, slot, stage) \in V!FrameType(L1Slots)
         /\ slot \in L2Slots => V!Frame(req, slot, stage) \in V!FrameType(L2Slots)
BY DEF V!Frame, V!FrameType

\* A load or a store begins.
LEMMA NativeRecord ==
  ASSUME NativeInv, NEW p \in Procs, NEW req \in V!ReqType, V!RecordMem(p, req), NEW st,
         stored' = [stored EXCEPT ![p] = st], st \in SUBSET Addrs, stored[p] \subseteq st,
         V!Dirty(req.type) => req.addr \in st
  PROVE  NativeInv'
<1>. DEFINE f1 == V!Entered(req)
<1>1. /\ l1call' = [l1call EXCEPT ![p] = f1]
      /\ UNCHANGED <<arch, l1, l2, nvc, dram, l2call>>
      /\ l1call[p].stage = "idle"
  BY DEF V!RecordMem
<1>2. f1 \in V!FrameType(L1Slots) /\ f1.stage = "enter" /\ f1.req = req
  BY NativeFrames
<1>. HIDE DEF f1
<1>3. l1call'[p] = f1 /\ stored'[p] = st
  BY <1>1, NativeTypes
<1>4. NativePrivate(p)
  BY DEF NativeInv
<1>5. L1Home(p)' /\ L2Home(p)' /\ Landing(p)'
  BY <1>1, <1>2, <1>3, <1>4 DEF NativePrivate, L1Home, L2Home, Landing
<1>6. arch' = "NATIVE" => Clean(p)'
  BY <1>1, <1>2, <1>3, <1>4 DEF NativePrivate, Clean, CleanOf
<1>7. NativePrivate(p)'
  BY <1>1, <1>2, <1>3, <1>5, <1>6 DEF NativePrivate
<1>8. NativeShared'
  <2>1. \A q \in Procs : stored[q] \subseteq stored'[q]
    BY NativeTypes
  <2>2. Stored \subseteq Stored'
    BY <2>1 DEF Stored
  <2>. QED BY <1>1, <2>2 DEF NativeInv, NativeShared, CleanOf
<1>. QED BY <1>1, <1>2, <1>7, <1>8, NativeTypes, NativeKept, NativeStep

LEMMA NativeProgram ==
  ASSUME NativeInv, NEW p \in Procs, V!Program(p)
  PROVE  NativeInv'
<1>1. PICK addr \in Addrs : V!RecordMemRead(p, addr) \/ V!RecordMemWrite(p, addr)
  BY DEF V!Program
<1>2. /\ V!Request(addr, "GETS") \in V!ReqType /\ V!Request(addr, "GETX") \in V!ReqType
      /\ ~V!Dirty(V!Request(addr, "GETS").type) /\ V!Request(addr, "GETX").addr = addr
  BY DEF V!Request, V!ReqType, V!AccessTypes, V!Dirty
<1>3. CASE V!RecordMemRead(p, addr)
  <2>1. V!RecordMem(p, V!Request(addr, "GETS")) /\ stored' = stored
    BY <1>3 DEF V!RecordMemRead
  <2>. QED BY <1>2, <2>1, NativeRecord, NativeKept, NativeTypes
<1>4. CASE V!RecordMemWrite(p, addr)
  <2>. DEFINE st == stored[p] \cup {addr}
  <2>1. V!RecordMem(p, V!Request(addr, "GETX")) /\ stored' = [stored EXCEPT ![p] = st]
    BY <1>4 DEF V!RecordMemWrite
  <2>2. st \in SUBSET Addrs /\ stored[p] \subseteq st /\ addr \in st
    BY NativeTypes
  <2>. HIDE DEF st
  <2>. QED BY <1>2, <2>1, <2>2, NativeRecord
<1>. QED BY <1>1, <1>3, <1>4

\* l1_access ends.
LEMMA NativeL1Served ==
  ASSUME NativeInv, NEW p \in Procs, NEW req \in V!ReqType, req = l1call[p].req,
         NEW slot \in L1Slots, slot \in L1SetOf(req.addr),
         req.addr # 0 => \A j \in Holding(l1[p], L1SetOf(req.addr), req.addr) : j = slot,
         l1[p][slot].state = "M" => l1[p][slot].addr = req.addr,
         V!L1Serve(p, req, slot),
         l1call' = [l1call EXCEPT ![p] = V!Returned],
         UNCHANGED <<arch, l2, nvc, dram, l2call, stored>>
  PROVE  NativeInv'
<1>. DEFINE c1 == PostInsert(l1[p], L1SetOf(req.addr), L1Ways, slot, req)
<1>1. l1' = [l1 EXCEPT ![p] = c1]
  BY SameOps, SameInsert DEF V!L1Serve, V!L1Set, L1SetOf
<1>2. NativePrivate(p)
  BY DEF NativeInv
<1>3. /\ PrivateCache(c1, L1Slots, L1Ways)
      /\ AtHome(c1, L1Slots, L1Sets, L1Ways) /\ Distinct(c1, L1Slots)
      /\ arch = "NATIVE" => CleanOf(c1, L1Slots, stored[p])
  <2>1. PrivateCache(l1[p], L1Slots, L1Ways) /\ L1Ways \in Nat
    BY NativeTypes, Ways
  <2>2. AtHome(l1[p], L1Slots, L1Sets, L1Ways) /\ Distinct(l1[p], L1Slots)
    BY <1>2 DEF NativePrivate, L1Home
  <2>3. arch = "NATIVE" => /\ CleanOf(l1[p], L1Slots, stored[p])
                           /\ V!Dirty(req.type) => req.addr \in stored[p]
    BY <1>2 DEF NativePrivate, Clean
  <2>. QED BY <2>1, <2>2, <2>3, NativeServed DEF L1SetOf
<1>. HIDE DEF c1
<1>4. l1'[p] = c1 /\ l1call'[p] = V!Returned
  BY <1>1, NativeTypes
<1>5. L1Home(p)' /\ L2Home(p)' /\ Landing(p)'
  BY <1>2, <1>3, <1>4, NativeFrames DEF NativePrivate, L1Home, L2Home, Landing
<1>6. arch' = "NATIVE" => Clean(p)'
  BY <1>2, <1>3, <1>4, NativeFrames DEF NativePrivate, Clean
<1>7. NativePrivate(p)'
  BY <1>4, <1>5, <1>6, NativeFrames DEF NativePrivate
<1>8. NativeShared'
  BY DEF NativeInv, NativeShared, Stored
<1>9. /\ l2' = [l2 EXCEPT ![p] = l2[p]] /\ l2call' = [l2call EXCEPT ![p] = l2call[p]]
      /\ stored' = [stored EXCEPT ![p] = stored[p]]
  BY NativeKept
<1>. DEFINE f1 == V!Returned
<1>10. l1call' = [l1call EXCEPT ![p] = f1] /\ f1 \in V!FrameType(L1Slots)
  BY NativeFrames
<1>11. /\ PrivateCache(l2[p], L2Slots, L2Ways) /\ l2call[p] \in V!FrameType(L2Slots)
       /\ stored[p] \in SUBSET Addrs
       /\ SharedCache(nvc', NvcSlots, NvcWays) /\ SharedCache(dram', DramSlots, DramWays)
  BY NativeTypes
<1>. HIDE DEF f1
<1>. QED BY <1>1, <1>3, <1>7, <1>8, <1>9, <1>10, <1>11, NativeStep

\* What a hit finds.
LEMMA HitIs ==
  ASSUME NEW cache, NEW S, NEW slots, NEW addr, slots \subseteq S, S \subseteq Nat,
         Distinct(cache, S), Holding(cache, slots, addr) # {}
  PROVE  /\ Min(Holding(cache, slots, addr)) \in Holding(cache, slots, addr)
         /\ addr # 0 => \A j \in Holding(cache, slots, addr) : j = Min(Holding(cache, slots, addr))
<1>1. Holding(cache, slots, addr) \subseteq Nat
  BY DEF Holding
<1>2. Min(Holding(cache, slots, addr)) \in Holding(cache, slots, addr)
  BY <1>1, MinIn
<1>. QED BY <1>2 DEF Holding, Distinct

LEMMA NativeL1Hit ==
  ASSUME NativeInv, NEW p \in Procs, V!L1Hit(p)
  PROVE  NativeInv'
<1>1. PICK req \in V!ReqType : req = l1call[p].req
  BY NativeTypes DEF V!FrameType
<1>. DEFINE hit  == Holding(l1[p], L1SetOf(req.addr), req.addr)
            slot == Min(hit)
<1>2. /\ hit # {} /\ V!L1Serve(p, req, slot)
      /\ l1call' = [l1call EXCEPT ![p] = V!Returned]
      /\ UNCHANGED <<arch, l2, nvc, dram, l2call, stored>>
  BY <1>1, SameOps DEF V!L1Hit, V!L1Lookup, V!L1Set, L1SetOf
<1>3. L1SetOf(req.addr) \subseteq L1Slots
  BY SetsInside DEF V!ReqType
<1>4. slot \in hit /\ (req.addr # 0 => \A j \in hit : j = slot)
  <2>1. Distinct(l1[p], L1Slots)
    BY DEF NativeInv, NativePrivate, L1Home
  <2>. QED BY <1>2, <1>3, <2>1, Ways, HitIs
<1>5. slot \in L1Slots /\ slot \in L1SetOf(req.addr) /\ l1[p][slot].addr = req.addr
  BY <1>3, <1>4 DEF Holding
<1>. HIDE DEF slot
<1>. QED BY <1>1, <1>2, <1>4, <1>5, NativeL1Served

LEMMA NativeL1Fetched ==
  ASSUME NativeInv, NEW p \in Procs, V!L1Fetched(p)
  PROVE  NativeInv'
<1>1. PICK req \in V!ReqType : req = l1call[p].req
  BY NativeTypes DEF V!FrameType
<1>2. PICK slot \in L1Slots : slot = l1call[p].slot
  BY NativeTypes DEF V!FrameType
<1>3. /\ V!L1Serve(p, req, slot) /\ l1call[p].stage = "fetching"
      /\ l1call' = [l1call EXCEPT ![p] = V!Returned]
      /\ UNCHANGED <<arch, l2, nvc, dram, l2call, stored>>
  BY <1>1, <1>2 DEF V!L1Fetched
<1>4. NativePrivate(p)
  BY DEF NativeInv
<1>5. /\ slot \in L1SetOf(req.addr) /\ Holding(l1[p], L1SetOf(req.addr), req.addr) = {}
      /\ l1[p][slot].state = "I"
  BY <1>1, <1>2, <1>3, <1>4 DEF NativePrivate, L1Home
<1>. QED BY <1>1, <1>3, <1>5, NativeL1Served

\* What an eviction sends down.
LEMMA NativeWriteback ==
  ASSUME NEW line, NEW ways, line \in V!PrivateLine(ways) \/ line \in V!SharedLine(ways)
  PROVE  /\ V!Writeback(line) \in V!ReqType /\ V!Writeback(line).addr = line.addr
         /\ V!Dirty(V!Writeback(line).type) <=> line.state = "M"
BY SameOps DEF V!Writeback, V!Request, V!ReqType, V!PrivateLine, V!SharedLine, V!Dirty,
   WritebackType, V!AccessTypes, AccessTypes

\* l1_access calls l2_access.
LEMMA NativeL1Calls ==
  ASSUME NativeInv, NEW p \in Procs, NEW c1, NEW f1, NEW req \in V!ReqType, req = f1.req,
         NEW sub \in V!ReqType,
         l1' = [l1 EXCEPT ![p] = c1], PrivateCache(c1, L1Slots, L1Ways),
         AtHome(c1, L1Slots, L1Sets, L1Ways), Distinct(c1, L1Slots),
         l1call' = [l1call EXCEPT ![p] = f1], f1 \in V!FrameType(L1Slots),
         l2call' = [l2call EXCEPT ![p] = V!Entered(sub)],
         UNCHANGED <<arch, l2, nvc, dram, stored>>,
         req = l1call[p].req, f1.slot \in L1SetOf(req.addr),
         Holding(c1, L1SetOf(req.addr), req.addr) = {},
         \/ f1.stage = "evicting" /\ c1[f1.slot].state # "I" /\ sub = V!Writeback(c1[f1.slot])
         \/ f1.stage = "fetching" /\ c1[f1.slot].state = "I" /\ sub = req,
         arch = "NATIVE" => CleanOf(c1, L1Slots, stored[p])
  PROVE  NativeInv'
<1>. DEFINE f2 == V!Entered(sub)
<1>1. f2 \in V!FrameType(L2Slots) /\ f2.stage = "enter" /\ f2.req = sub
  BY NativeFrames
<1>2. l2call' = [l2call EXCEPT ![p] = f2]
  OBVIOUS
<1>. HIDE DEF f2
<1>3. l1'[p] = c1 /\ l1call'[p] = f1 /\ l2call'[p] = f2
  BY <1>2, NativeTypes
<1>4. NativePrivate(p)
  BY DEF NativeInv
<1>5. L1Home(p)' /\ L2Home(p)' /\ Landing(p)'
  <2>1. L1Home(p)'
    BY <1>3 DEF L1Home
  <2>2. L2Home(p)'
    BY <1>1, <1>3, <1>4 DEF NativePrivate, L2Home
  <2>3. Landing(p)'
    BY <1>1, <1>3 DEF Landing
  <2>. QED BY <2>1, <2>2, <2>3
<1>6. ASSUME arch' = "NATIVE"
      PROVE  Clean(p)'
  <2>1. Clean(p)
    BY <1>4, <1>6 DEF NativePrivate
  <2>2. V!Dirty(sub.type) => sub.addr \in stored[p]
    <3>1. CASE sub = req
      BY <2>1, <3>1 DEF Clean
    <3>2. CASE sub = V!Writeback(c1[f1.slot])
      <4>1. f1.slot \in L1Slots
        BY DEF V!FrameType
      <4>2. c1[f1.slot] \in V!PrivateLine(L1Ways)
        BY <4>1 DEF PrivateCache
      <4>. QED BY <1>6, <3>2, <4>1, <4>2, NativeWriteback DEF CleanOf
    <3>. QED BY <3>1, <3>2
  <2>. QED BY <1>1, <1>3, <1>6, <2>1, <2>2 DEF Clean
<1>7. NativePrivate(p)'
  BY <1>3, <1>5, <1>6 DEF NativePrivate
<1>8. NativeShared'
  BY DEF NativeInv, NativeShared, Stored
<1>9. l2' = [l2 EXCEPT ![p] = l2[p]] /\ stored' = [stored EXCEPT ![p] = stored[p]]
  BY NativeKept
<1>10. /\ PrivateCache(l2[p], L2Slots, L2Ways) /\ stored[p] \in SUBSET Addrs
       /\ SharedCache(nvc', NvcSlots, NvcWays) /\ SharedCache(dram', DramSlots, DramWays)
  BY NativeTypes
<1>. QED BY <1>1, <1>2, <1>7, <1>8, <1>9, <1>10, NativeStep

LEMMA NativeVictim ==
  ASSUME NEW cache, NEW S, NEW slots, NEW ways, slots \subseteq S, S \subseteq Nat, slots # {},
         PrivateCache(cache, S, ways)
  PROVE  Victim(cache, slots) \in slots
<1>1. \A i \in S : cache[i].ts \in Nat
  BY DEF V!PrivateLine, PrivateCache
<1>2. slots \subseteq Nat /\ \A i \in slots : cache[i].ts \in Nat
  BY <1>1
<1>. QED BY <1>2, VictimIn

LEMMA NativeL1Miss ==
  ASSUME NativeInv, NEW p \in Procs, V!L1Miss(p)
  PROVE  NativeInv'
<1>1. PICK req \in V!ReqType : req = l1call[p].req
  BY NativeTypes DEF V!FrameType
<1>. DEFINE slot   == Victim(l1[p], L1SetOf(req.addr))
            victim == l1[p][slot]
<1>2. /\ Holding(l1[p], L1SetOf(req.addr), req.addr) = {}
      /\ \/ /\ victim.state = "I"
            /\ l1call' = [l1call EXCEPT ![p] = V!Frame(req, slot, "fetching")]
            /\ l2call' = [l2call EXCEPT ![p] = V!Entered(req)]
         \/ /\ victim.state # "I"
            /\ l1call' = [l1call EXCEPT ![p] = V!Frame(req, slot, "evicting")]
            /\ l2call' = [l2call EXCEPT ![p] = V!Entered(V!Writeback(victim))]
      /\ UNCHANGED <<arch, l1, l2, nvc, dram, stored>>
  BY <1>1, SameOps DEF V!L1Miss, V!L1Lookup, V!L1Preinsert, V!L1Set, L1SetOf
<1>3. PrivateCache(l1[p], L1Slots, L1Ways)
  BY NativeTypes
<1>4. slot \in L1SetOf(req.addr) /\ slot \in L1Slots
  <2>1. L1SetOf(req.addr) \subseteq L1Slots /\ L1SetOf(req.addr) # {}
    BY SetsInside DEF V!ReqType
  <2>2. L1Slots \subseteq Nat
    BY Ways
  <2>3. slot \in L1SetOf(req.addr)
    BY <1>3, <2>1, <2>2, NativeVictim
  <2>. QED BY <2>1, <2>3
<1>. HIDE DEF slot
<1>5. V!Writeback(victim) \in V!ReqType
  <2>1. victim \in V!PrivateLine(L1Ways)
    BY <1>3, <1>4 DEF PrivateCache
  <2>. QED BY <2>1, NativeWriteback
<1>6. l1' = [l1 EXCEPT ![p] = l1[p]]
  BY <1>2, NativeKept
<1>7. NativePrivate(p)
  BY DEF NativeInv
<1>8. /\ AtHome(l1[p], L1Slots, L1Sets, L1Ways) /\ Distinct(l1[p], L1Slots)
      /\ arch = "NATIVE" => CleanOf(l1[p], L1Slots, stored[p])
  BY <1>7 DEF NativePrivate, L1Home, Clean
<1>9. CASE victim.state = "I"
  <2>. DEFINE f1 == V!Frame(req, slot, "fetching")
  <2>1. /\ f1 \in V!FrameType(L1Slots)
        /\ f1.req = req /\ f1.slot = slot /\ f1.stage = "fetching"
    BY <1>4, NativeFrameIs DEF V!Stages
  <2>2. /\ l1call' = [l1call EXCEPT ![p] = f1] /\ l2call' = [l2call EXCEPT ![p] = V!Entered(req)]
        /\ UNCHANGED <<arch, l2, nvc, dram, stored>>
    BY <1>2, <1>9
  <2>. HIDE DEF f1
  <2>. QED BY <1>1, <1>2, <1>3, <1>4, <1>6, <1>8, <1>9, <2>1, <2>2, NativeL1Calls
<1>10. CASE victim.state # "I"
  <2>. DEFINE f1  == V!Frame(req, slot, "evicting")
              sub == V!Writeback(victim)
  <2>1. /\ f1 \in V!FrameType(L1Slots)
        /\ f1.req = req /\ f1.slot = slot /\ f1.stage = "evicting"
    BY <1>4, NativeFrameIs DEF V!Stages
  <2>2. /\ l1call' = [l1call EXCEPT ![p] = f1] /\ l2call' = [l2call EXCEPT ![p] = V!Entered(sub)]
        /\ UNCHANGED <<arch, l2, nvc, dram, stored>>
    BY <1>2, <1>10
  <2>3. sub \in V!ReqType /\ sub = V!Writeback(l1[p][f1.slot]) /\ l1[p][f1.slot].state # "I"
    BY <1>5, <1>10, <2>1
  <2>. HIDE DEF f1, sub
  <2>. QED BY <1>1, <1>2, <1>3, <1>4, <1>6, <1>8, <2>1, <2>2, <2>3, NativeL1Calls
<1>. QED BY <1>9, <1>10

LEMMA NativeL1Evicted ==
  ASSUME NativeInv, NEW p \in Procs, V!L1Evicted(p)
  PROVE  NativeInv'
<1>1. PICK req \in V!ReqType : req = l1call[p].req
  BY NativeTypes DEF V!FrameType
<1>2. PICK slot \in L1Slots : slot = l1call[p].slot
  BY NativeTypes DEF V!FrameType
<1>. DEFINE c1 == Invalidated(l1[p], slot)
            f1 == [l1call[p] EXCEPT !.stage = "fetching"]
<1>3. /\ l1call[p].stage = "evicting" /\ l2call[p].stage = "idle"
      /\ l1' = [l1 EXCEPT ![p] = c1]
      /\ l1call' = [l1call EXCEPT ![p] = f1]
      /\ l2call' = [l2call EXCEPT ![p] = V!Entered(req)]
      /\ UNCHANGED <<arch, l2, nvc, dram, stored>>
  BY <1>1, <1>2, SameOps DEF V!L1Evicted
<1>4. /\ f1 \in V!FrameType(L1Slots)
      /\ f1.req = req /\ f1.slot = slot /\ f1.stage = "fetching"
  BY <1>1, <1>2, NativeTypes DEF V!FrameType, V!Stages
<1>5. NativePrivate(p)
  BY DEF NativeInv
<1>6. PrivateCache(c1, L1Slots, L1Ways) /\ Emptied(l1[p], c1, L1Slots, slot)
  BY NativeTypes, NativeInvalidated
<1>. HIDE DEF c1, f1
<1>7. slot \in L1SetOf(req.addr) /\ Holding(l1[p], L1SetOf(req.addr), req.addr) = {}
  BY <1>1, <1>2, <1>3, <1>5 DEF NativePrivate, L1Home
<1>8. Holding(c1, L1SetOf(req.addr), req.addr) = {}
  <2>1. L1SetOf(req.addr) \subseteq L1Slots
    BY SetsInside DEF V!ReqType
  <2>. QED BY <1>6, <1>7, <2>1 DEF Holding, Emptied
<1>9. AtHome(c1, L1Slots, L1Sets, L1Ways) /\ Distinct(c1, L1Slots)
  <2>1. AtHome(l1[p], L1Slots, L1Sets, L1Ways) /\ Distinct(l1[p], L1Slots)
    BY <1>5 DEF NativePrivate, L1Home
  <2>. QED BY <1>6, <2>1, SamePlaces DEF Emptied
<1>10. arch = "NATIVE" => CleanOf(c1, L1Slots, stored[p])
  <2>1. arch = "NATIVE" => CleanOf(l1[p], L1Slots, stored[p])
    BY <1>5 DEF NativePrivate, Clean
  <2>. QED BY <1>6, <2>1 DEF CleanOf, Emptied
<1>11. c1[f1.slot].state = "I"
  BY <1>4, <1>6 DEF Emptied
<1>. QED BY <1>1, <1>3, <1>4, <1>6, <1>7, <1>8, <1>9, <1>10, <1>11, NativeL1Calls

\* An access to the NVC, with the DRAM below it.
LEMMA NativeNvcAccess ==
  ASSUME NativeInv, NEW p \in Procs, NEW req \in V!ReqType, V!NvcAccess(p, req),
         arch' = arch, stored' = stored,
         arch = "NATIVE" => (V!Dirty(req.type) => req.addr \in Stored)
  PROVE  /\ SharedCache(nvc', NvcSlots, NvcWays) /\ SharedCache(dram', DramSlots, DramWays)
         /\ NativeShared'
<1>. DEFINE W == IF arch = "NATIVE" THEN Stored ELSE Addrs \cup {0}
            set    == SetSlots(req.addr, NvcSets, NvcWays)
            slot   == Victim(nvc, set)
            victim == nvc[slot]
            freed  == IF victim.state = "I" THEN dram
                      ELSE V!DramAccess(dram, p, V!Writeback(victim))
<1>1. /\ SharedCache(nvc, NvcSlots, NvcWays) /\ SharedCache(dram, DramSlots, DramWays)
      /\ CleanOf(nvc, NvcSlots, W) /\ CleanOf(dram, DramSlots, W)
  <2>1. SharedCache(nvc, NvcSlots, NvcWays) /\ SharedCache(dram, DramSlots, DramWays)
    BY NativeTypes
  <2>2. CASE arch = "NATIVE"
    BY <2>1, <2>2 DEF NativeInv, NativeShared
  <2>3. CASE arch # "NATIVE"
    BY <2>1, <2>3 DEF CleanOf, SharedCache, V!SharedLine
  <2>. QED BY <2>1, <2>2, <2>3
<1>2. req.addr \in Addrs \cup {0} /\ (V!Dirty(req.type) => req.addr \in W)
  BY DEF V!ReqType
<1>. HIDE DEF W
<1>3. /\ L1Ways \in Nat /\ NvcWays \in Nat /\ DramWays \in Nat
      /\ NvcSlots \subseteq Nat /\ DramSlots \subseteq Nat
  BY Ways
<1>4. SetSlots(req.addr, NvcSets, NvcWays) \subseteq NvcSlots /\ SetSlots(req.addr, NvcSets, NvcWays) # {}
  BY <1>2, SetsInside
<1>5. ASSUME NEW cache, NEW r \in V!ReqType, SharedCache(cache, DramSlots, DramWays),
             CleanOf(cache, DramSlots, W), V!Dirty(r.type) => r.addr \in W
      PROVE  LET new == V!DramAccess(cache, p, r)
             IN  SharedCache(new, DramSlots, DramWays) /\ CleanOf(new, DramSlots, W)
  <2>1. r.addr \in Addrs \cup {0}
    BY DEF V!ReqType
  <2>2. SetSlots(r.addr, DramSets, DramWays) \subseteq DramSlots /\ SetSlots(r.addr, DramSets, DramWays) # {}
    BY <2>1, SetsInside
  <2>. QED BY <1>3, <1>5, <2>2, NativeRefilled, NativeDramIs
<1>6. SharedCache(nvc', NvcSlots, NvcWays) /\ CleanOf(nvc', NvcSlots, W)
  <2>1. nvc' = Refilled(nvc, p, req, NvcSets, NvcWays)
    BY NativeNvcIs
  <2>. QED BY <1>1, <1>2, <1>3, <1>4, <2>1, NativeRefilled
<1>7. SharedCache(dram', DramSlots, DramWays) /\ CleanOf(dram', DramSlots, W)
  <2>1. slot \in NvcSlots
    <3>1. \A i \in set : nvc[i].ts \in Nat
      BY <1>1, <1>4 DEF SharedCache, V!SharedLine
    <3>. QED BY <1>3, <1>4, <3>1, VictimIn
  <2>. HIDE DEF slot
  <2>2. SharedCache(freed, DramSlots, DramWays) /\ CleanOf(freed, DramSlots, W)
    <3>1. victim \in V!SharedLine(NvcWays)
      BY <1>1, <2>1 DEF SharedCache
    <3>2. V!Writeback(victim) \in V!ReqType
      BY <3>1, NativeWriteback
    <3>3. V!Dirty(V!Writeback(victim).type) => V!Writeback(victim).addr \in W
      BY <1>1, <2>1, <3>1, NativeWriteback DEF CleanOf
    <3>. HIDE DEF victim
    <3>. QED BY <1>1, <1>5, <3>2, <3>3
  <2>3. dram' = dram \/ dram' = V!DramAccess(freed, p, req)
    BY NativeNvcIs DEF V!NvcMissServed, slot
  <2>. HIDE DEF freed
  <2>. QED BY <1>1, <1>2, <1>5, <2>2, <2>3
<1>8. NativeShared'
  BY <1>6, <1>7 DEF NativeShared, Stored, W
<1>. QED BY <1>6, <1>7, <1>8

\* l2_access ends.
LEMMA NativeL2Served ==
  ASSUME NativeInv, NEW p \in Procs, NEW req \in V!ReqType, req = l2call[p].req,
         l2call[p].stage # "idle",
         NEW slot \in L2Slots, slot \in L2SetOf(req.addr),
         req.addr # 0 => \A j \in Holding(l2[p], L2SetOf(req.addr), req.addr) : j = slot,
         arch = "NATIVE" => (l2[p][slot].state = "M" => l2[p][slot].addr = req.addr),
         V!L2Serve(p, req, slot),
         l2call' = [l2call EXCEPT ![p] = V!Returned],
         UNCHANGED <<arch, l1, l1call, stored>>,
         SharedCache(nvc', NvcSlots, NvcWays), SharedCache(dram', DramSlots, DramWays),
         NativeShared'
  PROVE  NativeInv'
<1>. DEFINE c2 == PostInsert(l2[p], L2SetOf(req.addr), L2Ways, slot, req)
            f2 == V!Returned
<1>1. l2' = [l2 EXCEPT ![p] = c2] /\ l2call' = [l2call EXCEPT ![p] = f2]
  BY SameOps, SameInsert DEF V!L2Serve, V!L2Set, L2SetOf
<1>2. NativePrivate(p)
  BY DEF NativeInv
<1>3. /\ PrivateCache(c2, L2Slots, L2Ways)
      /\ AtHome(c2, L2Slots, L2Sets, L2Ways) /\ Distinct(c2, L2Slots)
      /\ Inserted(l2[p], c2, L2Slots, slot, req)
      /\ arch = "NATIVE" => CleanOf(c2, L2Slots, stored[p])
  <2>1. PrivateCache(l2[p], L2Slots, L2Ways) /\ L2Ways \in Nat
    BY NativeTypes, Ways
  <2>2. AtHome(l2[p], L2Slots, L2Sets, L2Ways) /\ Distinct(l2[p], L2Slots)
    BY <1>2 DEF NativePrivate, L2Home
  <2>3. arch = "NATIVE" => /\ CleanOf(l2[p], L2Slots, stored[p])
                           /\ V!Dirty(req.type) => req.addr \in stored[p]
    BY <1>2 DEF NativePrivate, Clean
  <2>. QED BY <2>1, <2>2, <2>3, NativeServed DEF L2SetOf
<1>4. f2 \in V!FrameType(L2Slots) /\ f2.stage = "idle" /\ ~V!Dirty(f2.req.type)
  BY NativeFrames
<1>. HIDE DEF c2, f2
<1>5. l2'[p] = c2 /\ l2call'[p] = f2
  BY <1>1, NativeTypes
<1>6. L1Home(p)' /\ L2Home(p)'
  BY <1>2, <1>3, <1>4, <1>5 DEF NativePrivate, L1Home, L2Home
<1>7. Landing(p)'
  <2>1. SUFFICES ASSUME l1call[p].stage = "evicting"
        PROVE  /\ l1[p][l1call[p].slot].state # "I"
               /\ Landed(c2, l1[p][l1call[p].slot])
    BY <1>4, <1>5 DEF Landing
  <2>. DEFINE victim == l1[p][l1call[p].slot]
  <2>2. victim.state # "I" /\ req = V!Writeback(victim)
    BY <1>2, <2>1 DEF NativePrivate, Landing
  <2>3. req.addr = victim.addr /\ req.type = WritebackType(victim.state)
    BY <2>2, SameOps DEF V!Writeback, V!Request
  <2>. HIDE DEF victim
  <2>4. c2[slot].addr = victim.addr
    BY <1>3, <2>3 DEF Inserted
  <2>5. c2[slot].state = IF victim.state = "M" THEN "M" ELSE "E"
    BY <1>3, <2>3 DEF Inserted, StateAfter, WritebackType
  <2>6. slot \in Holding(c2, L2SetOf(victim.addr), victim.addr)
    BY <2>3, <2>4 DEF Holding
  <2>. QED BY <2>2, <2>5, <2>6 DEF Landed, victim
<1>8. arch' = "NATIVE" => Clean(p)'
  BY <1>2, <1>3, <1>4, <1>5 DEF NativePrivate, Clean
<1>9. NativePrivate(p)'
  BY <1>2, <1>5, <1>6, <1>7, <1>8 DEF NativePrivate
<1>10. /\ l1' = [l1 EXCEPT ![p] = l1[p]] /\ l1call' = [l1call EXCEPT ![p] = l1call[p]]
       /\ stored' = [stored EXCEPT ![p] = stored[p]]
  BY NativeKept
<1>11. /\ PrivateCache(l1[p], L1Slots, L1Ways) /\ l1call[p] \in V!FrameType(L1Slots)
       /\ stored[p] \in SUBSET Addrs
  BY NativeTypes
<1>. QED BY <1>1, <1>3, <1>4, <1>9, <1>10, <1>11, NativeStep

LEMMA NativeL2Hit ==
  ASSUME NativeInv, NEW p \in Procs, V!L2Hit(p)
  PROVE  NativeInv'
<1>1. PICK req \in V!ReqType : req = l2call[p].req
  BY NativeTypes DEF V!FrameType
<1>. DEFINE hit  == Holding(l2[p], L2SetOf(req.addr), req.addr)
            slot == Min(hit)
<1>2. /\ hit # {} /\ V!L2Serve(p, req, slot) /\ l2call[p].stage # "idle"
      /\ l2call' = [l2call EXCEPT ![p] = V!Returned]
      /\ UNCHANGED <<arch, l1, l1call, stored>> /\ UNCHANGED <<nvc, dram>>
  BY <1>1, SameOps DEF V!L2Hit, V!L2Lookup, V!L2Set, L2SetOf
<1>3. L2SetOf(req.addr) \subseteq L2Slots
  BY SetsInside DEF V!ReqType
<1>4. slot \in hit /\ (req.addr # 0 => \A j \in hit : j = slot)
  <2>1. Distinct(l2[p], L2Slots)
    BY DEF NativeInv, NativePrivate, L2Home
  <2>. QED BY <1>2, <1>3, <2>1, Ways, HitIs
<1>5. slot \in L2Slots /\ slot \in L2SetOf(req.addr) /\ l2[p][slot].addr = req.addr
  BY <1>3, <1>4 DEF Holding
<1>6. /\ SharedCache(nvc', NvcSlots, NvcWays) /\ SharedCache(dram', DramSlots, DramWays)
      /\ NativeShared'
  <2>1. NativeShared
    BY DEF NativeInv
  <2>. QED BY <1>2, <2>1, NativeTypes DEF NativeShared, Stored
<1>. HIDE DEF slot
<1>. QED BY <1>1, <1>2, <1>4, <1>5, <1>6, NativeL2Served

LEMMA NativeL2Fetched ==
  ASSUME NativeInv, NEW p \in Procs, V!L2Fetched(p)
  PROVE  NativeInv'
<1>1. PICK req \in V!ReqType : req = l2call[p].req
  BY NativeTypes DEF V!FrameType
<1>2. PICK slot \in L2Slots : slot = l2call[p].slot
  BY NativeTypes DEF V!FrameType
<1>3. /\ V!L2Serve(p, req, slot) /\ l2call[p].stage = "fetching" /\ V!NvcAccess(p, req)
      /\ l2call' = [l2call EXCEPT ![p] = V!Returned]
      /\ UNCHANGED <<arch, l1, l1call, stored>>
  BY <1>1, <1>2 DEF V!L2Fetched
<1>4. NativePrivate(p)
  BY DEF NativeInv
<1>5. /\ slot \in L2SetOf(req.addr)
      /\ req.addr # 0 => Holding(l2[p], L2SetOf(req.addr), req.addr) = {}
      /\ arch = "NATIVE" => l2[p][slot].state = "I"
  BY <1>1, <1>2, <1>3, <1>4 DEF NativePrivate, L2Home, Clean
<1>6. arch = "NATIVE" => (V!Dirty(req.type) => req.addr \in Stored)
  BY <1>1, <1>4 DEF NativePrivate, Clean, Stored
<1>7. /\ SharedCache(nvc', NvcSlots, NvcWays) /\ SharedCache(dram', DramSlots, DramWays)
      /\ NativeShared'
  BY <1>3, <1>6, NativeNvcAccess
<1>. QED BY <1>1, <1>3, <1>5, <1>7, NativeL2Served

\* What l2_evict leaves under NVMLOG is a line without an address.
LEMMA NativeCleared ==
  ASSUME NEW S, NEW ways, NEW i \in S, NEW cache, PrivateCache(cache, S, ways)
  PROVE  LET new == V!L2EvictNvmLog(cache, i)
         IN  /\ PrivateCache(new, S, ways)
             /\ new[i].addr = 0
             /\ \A j \in S \ {i} : new[j] = cache[j]
<1>. DEFINE line == [cache[i] EXCEPT !.addr = 0]
            new  == V!L2EvictNvmLog(cache, i)
<1>1. new = [cache EXCEPT ![i] = line] /\ DOMAIN cache = S
  BY DEF V!L2EvictNvmLog, PrivateCache
<1>2. line \in V!PrivateLine(ways) /\ line.addr = 0
  BY DEF PrivateCache, V!PrivateLine
<1>. HIDE DEF line, new
<1>3. new[i] = line /\ \A j \in S \ {i} : new[j] = cache[j]
  BY <1>1
<1>. QED BY <1>1, <1>2, <1>3 DEF PrivateCache, new

LEMMA NativeL2Evict ==
  ASSUME NativeInv, NEW p \in Procs, NEW slot \in L2Slots, NEW slots, slots \subseteq L2Slots, NEW addr,
         Holding(l2[p], slots, addr) = {}
  PROVE  LET new == V!L2Evict(l2[p], slot)
         IN  /\ PrivateCache(new, L2Slots, L2Ways)
             /\ AtHome(new, L2Slots, L2Sets, L2Ways) /\ Distinct(new, L2Slots)
             /\ addr # 0 => Holding(new, slots, addr) = {}
             /\ arch = "NATIVE" => new[slot].state = "I" /\ CleanOf(new, L2Slots, stored[p])
<1>. DEFINE new == V!L2Evict(l2[p], slot)
<1>1. PrivateCache(l2[p], L2Slots, L2Ways)
  BY NativeTypes
<1>2. NativePrivate(p)
  BY DEF NativeInv
<1>3. AtHome(l2[p], L2Slots, L2Sets, L2Ways) /\ Distinct(l2[p], L2Slots)
  BY <1>2 DEF NativePrivate, L2Home
<1>4. CASE arch = "NATIVE"
  <2>1. new = Invalidated(l2[p], slot)
    BY <1>4, SameOps DEF V!L2Evict, V!L2EvictNative
  <2>. HIDE DEF new
  <2>2. PrivateCache(new, L2Slots, L2Ways) /\ Emptied(l2[p], new, L2Slots, slot)
    BY <1>1, <2>1, NativeInvalidated
  <2>3. AtHome(new, L2Slots, L2Sets, L2Ways) /\ Distinct(new, L2Slots)
    BY <1>3, <2>2, SamePlaces DEF Emptied
  <2>4. Holding(new, slots, addr) = {}
    BY <2>2 DEF Holding, Emptied
  <2>5. CleanOf(l2[p], L2Slots, stored[p])
    BY <1>2, <1>4 DEF NativePrivate, Clean
  <2>6. CleanOf(new, L2Slots, stored[p]) /\ new[slot].state = "I"
    BY <2>2, <2>5 DEF CleanOf, Emptied
  <2>. QED BY <2>2, <2>3, <2>4, <2>6 DEF new
<1>5. CASE arch # "NATIVE"
  <2>1. new = V!L2EvictNvmLog(l2[p], slot)
    BY <1>5 DEF V!L2Evict
  <2>. HIDE DEF new
  <2>2. /\ PrivateCache(new, L2Slots, L2Ways) /\ new[slot].addr = 0
        /\ \A j \in L2Slots \ {slot} : new[j] = l2[p][j]
    BY <1>1, <2>1, NativeCleared
  <2>3. AtHome(new, L2Slots, L2Sets, L2Ways)
    BY <1>3, <2>2 DEF AtHome
  <2>4. Distinct(new, L2Slots)
    BY <1>3, <2>2 DEF Distinct
  <2>5. addr # 0 => Holding(new, slots, addr) = {}
    BY <2>2 DEF Holding
  <2>. QED BY <1>5, <2>2, <2>3, <2>4, <2>5 DEF new
<1>. QED BY <1>4, <1>5

LEMMA NativeL2Miss ==
  ASSUME NativeInv, NEW p \in Procs, V!L2Miss(p)
  PROVE  NativeInv'
<1>1. PICK req \in V!ReqType : req = l2call[p].req
  BY NativeTypes DEF V!FrameType
<1>. DEFINE slot   == Victim(l2[p], L2SetOf(req.addr))
            victim == l2[p][slot]
            f2     == V!Frame(req, slot, "fetching")
            c2     == IF victim.state = "I" THEN l2[p] ELSE V!L2Evict(l2[p], slot)
<1>2. /\ Holding(l2[p], L2SetOf(req.addr), req.addr) = {}
      /\ l2call[p].stage = "enter"
      /\ \/ victim.state = "I" /\ UNCHANGED <<l2, nvc, dram>>
         \/ /\ victim.state # "I"
            /\ V!NvcAccess(p, V!Writeback(victim))
            /\ l2' = [l2 EXCEPT ![p] = V!L2Evict(l2[p], slot)]
      /\ l2call' = [l2call EXCEPT ![p] = f2]
      /\ UNCHANGED <<arch, l1, l1call, stored>>
  BY <1>1, SameOps DEF V!L2Miss, V!L2Lookup, V!L2Preinsert, V!L2Set, L2SetOf
<1>3. PrivateCache(l2[p], L2Slots, L2Ways)
  BY NativeTypes
<1>4. slot \in L2SetOf(req.addr) /\ slot \in L2Slots /\ L2SetOf(req.addr) \subseteq L2Slots
  <2>1. L2SetOf(req.addr) \subseteq L2Slots /\ L2SetOf(req.addr) # {}
    BY SetsInside DEF V!ReqType
  <2>2. L2Slots \subseteq Nat
    BY Ways
  <2>3. slot \in L2SetOf(req.addr)
    BY <1>3, <2>1, <2>2, NativeVictim
  <2>. QED BY <2>1, <2>3
<1>. HIDE DEF slot
<1>5. NativePrivate(p)
  BY DEF NativeInv
<1>6. f2 \in V!FrameType(L2Slots) /\ f2.req = req /\ f2.slot = slot /\ f2.stage = "fetching"
  BY <1>4, NativeFrameIs DEF V!Stages
<1>7. /\ PrivateCache(c2, L2Slots, L2Ways)
      /\ AtHome(c2, L2Slots, L2Sets, L2Ways) /\ Distinct(c2, L2Slots)
      /\ req.addr # 0 => Holding(c2, L2SetOf(req.addr), req.addr) = {}
      /\ arch = "NATIVE" => c2[slot].state = "I" /\ CleanOf(c2, L2Slots, stored[p])
  <2>1. CASE victim.state = "I"
    <3>1. /\ AtHome(l2[p], L2Slots, L2Sets, L2Ways) /\ Distinct(l2[p], L2Slots)
          /\ arch = "NATIVE" => CleanOf(l2[p], L2Slots, stored[p])
      BY <1>5 DEF NativePrivate, L2Home, Clean
    <3>. QED BY <1>2, <1>3, <2>1, <3>1
  <2>2. CASE victim.state # "I"
    <3>1. c2 = V!L2Evict(l2[p], slot)
      BY <2>2
    <3>. DEFINE slots == L2SetOf(req.addr)
                addr  == req.addr
    <3>2. slot \in L2Slots /\ slots \subseteq L2Slots /\ Holding(l2[p], slots, addr) = {}
      BY <1>2, <1>4
    <3>. HIDE DEF c2, victim, slots, addr
    <3>3. /\ PrivateCache(c2, L2Slots, L2Ways)
          /\ AtHome(c2, L2Slots, L2Sets, L2Ways) /\ Distinct(c2, L2Slots)
          /\ addr # 0 => Holding(c2, slots, addr) = {}
          /\ arch = "NATIVE" => c2[slot].state = "I" /\ CleanOf(c2, L2Slots, stored[p])
      BY <3>1, <3>2, NativeL2Evict
    <3>. QED BY <3>3 DEF slots, addr
  <2>. QED BY <2>1, <2>2
<1>8. /\ SharedCache(nvc', NvcSlots, NvcWays) /\ SharedCache(dram', DramSlots, DramWays)
      /\ NativeShared'
  <2>1. CASE victim.state = "I"
    <3>1. NativeShared
      BY DEF NativeInv
    <3>. QED BY <1>2, <2>1, <3>1, NativeTypes DEF NativeShared, Stored
  <2>2. CASE victim.state # "I"
    <3>1. victim \in V!PrivateLine(L2Ways)
      BY <1>3, <1>4 DEF PrivateCache
    <3>. DEFINE sub == V!Writeback(victim)
    <3>2. sub \in V!ReqType
      BY <3>1, NativeWriteback
    <3>3. arch = "NATIVE" => (V!Dirty(sub.type) => sub.addr \in Stored)
      <4>1. arch = "NATIVE" => (victim.state = "M" => victim.addr \in stored[p])
        BY <1>4, <1>5 DEF NativePrivate, Clean, CleanOf
      <4>. QED BY <3>1, <4>1, NativeWriteback DEF Stored
    <3>4. V!NvcAccess(p, sub)
      BY <1>2, <2>2
    <3>. HIDE DEF sub
    <3>. QED BY <1>2, <3>2, <3>3, <3>4, NativeNvcAccess
  <2>. QED BY <2>1, <2>2
<1>9. l2' = [l2 EXCEPT ![p] = c2]
  BY <1>2, NativeKept
<1>. HIDE DEF c2, f2, victim
<1>10. l2'[p] = c2 /\ l2call'[p] = f2
  BY <1>2, <1>9, NativeTypes
<1>11. L1Home(p)' /\ L2Home(p)' /\ Landing(p)'
  <2>1. L1Home(p)'
    BY <1>2, <1>5 DEF NativePrivate, L1Home
  <2>2. L2Home(p)'
    BY <1>4, <1>6, <1>7, <1>10 DEF L2Home
  <2>3. Landing(p)'
    BY <1>1, <1>2, <1>5, <1>6, <1>10 DEF NativePrivate, Landing
  <2>. QED BY <2>1, <2>2, <2>3
<1>12. arch' = "NATIVE" => Clean(p)'
  BY <1>1, <1>2, <1>5, <1>6, <1>7, <1>10 DEF NativePrivate, Clean
<1>13. NativePrivate(p)'
  BY <1>2, <1>5, <1>11, <1>12 DEF NativePrivate
<1>14. /\ l1' = [l1 EXCEPT ![p] = l1[p]] /\ l1call' = [l1call EXCEPT ![p] = l1call[p]]
       /\ stored' = [stored EXCEPT ![p] = stored[p]]
  BY <1>2, NativeKept
<1>15. /\ PrivateCache(l1[p], L1Slots, L1Ways) /\ l1call[p] \in V!FrameType(L1Slots)
       /\ stored[p] \in SUBSET Addrs
  BY NativeTypes
<1>16. l2call' = [l2call EXCEPT ![p] = f2] /\ arch' = arch
  BY <1>2
<1>. QED BY <1>6, <1>7, <1>8, <1>9, <1>13, <1>14, <1>15, <1>16, NativeStep

LEMMA NativeNext ==
  ASSUME NativeInv, V!Next
  PROVE  NativeInv'
<1>1. PICK p \in Procs : \/ V!Program(p) \/ V!L1Hit(p) \/ V!L1Miss(p) \/ V!L1Evicted(p)
                         \/ V!L1Fetched(p) \/ V!L2Hit(p) \/ V!L2Miss(p) \/ V!L2Fetched(p)
  BY SameOps DEF V!Next, V!NativeL1Access, V!NativeL2Access, V!NvmLogL1Access, V!NvmLogL2Access,
                 V!L1Access, V!L2Access
<1>. QED BY <1>1, NativeProgram, NativeL1Hit, NativeL1Miss, NativeL1Evicted, NativeL1Fetched,
            NativeL2Hit, NativeL2Miss, NativeL2Fetched

LEMMA NativeInitial ==
  ASSUME V!Init
  PROVE  NativeInv
<1>1. /\ V!EmptyLine \in V!PrivateLine(L1Ways) /\ V!EmptyLine \in V!PrivateLine(L2Ways)
      /\ V!EmptyLine.addr = 0 /\ V!EmptyLine.state = "I"
  BY Ways DEF V!EmptyLine, V!PrivateLine, V!MESI
<1>2. /\ V!EmptySharedLine \in V!SharedLine(NvcWays) /\ V!EmptySharedLine \in V!SharedLine(DramWays)
      /\ V!EmptySharedLine.state = "I"
  BY Ways, SameOps DEF V!EmptySharedLine, V!SharedLine, V!MESI
<1>3. V!Returned \in V!FrameType(L1Slots) /\ V!Returned \in V!FrameType(L2Slots)
  BY NativeFrames
<1>4. V!TypeOK
  BY <1>1, <1>2, <1>3, SameOps DEF V!Init, V!TypeOK
<1>5. ASSUME NEW q \in Procs
      PROVE  NativePrivate(q)
  <2>1. /\ \A i \in L1Slots : l1[q][i] = V!EmptyLine
        /\ \A i \in L2Slots : l2[q][i] = V!EmptyLine
        /\ l1call[q] = V!Returned /\ l2call[q] = V!Returned
    BY SameOps DEF V!Init
  <2>2. L1Home(q) /\ L2Home(q) /\ Landing(q)
    BY <1>1, <2>1, NativeFrames DEF L1Home, L2Home, Landing, AtHome, Distinct
  <2>3. Clean(q)
    BY <1>1, <2>1, NativeFrames DEF Clean, CleanOf
  <2>. QED BY <2>1, <2>2, <2>3, NativeFrames DEF NativePrivate
<1>6. NativeShared
  BY <1>2, SameOps DEF V!Init, NativeShared, CleanOf
<1>. QED BY <1>4, <1>5, <1>6 DEF NativeInv

-----------------------------------------------------------------------------
(* NATIVE and NVMLOG: the theorems *)

\* Nobody changes the architecture.
LEMMA ArchStays ==
  /\ V!Next => arch' = arch
  /\ \A p : StartTx(p) \/ EndTx(p) => UNCHANGED <<arch, l1, l2, nvc, dram, l1call, l2call>>
  /\ Next => arch' = arch
<1>1. V!Next => arch' = arch
  BY DEF V!Next, V!Program, V!RecordMemRead, V!RecordMemWrite, V!RecordMem,
     V!NativeL1Access, V!NativeL2Access, V!NvmLogL1Access, V!NvmLogL2Access,
     V!L1Access, V!L2Access, V!L1Hit, V!L1Miss, V!L1Evicted, V!L1Fetched,
     V!L2Hit, V!L2Miss, V!L2Fetched
<1>2. \A p : StartTx(p) \/ EndTx(p) => UNCHANGED <<arch, l1, l2, nvc, dram, l1call, l2call>>
  BY DEF StartTx, EndTx, shared
<1>3. Next => arch' = arch
  BY DEF Next, Program, StartTx, EndTx, RecordMemRead, RecordMemWrite, L1Enter, InsertPBEnds,
     EpbL1Access, EpbL2Access, BfL1Access, BfL2Access,
     L1Hit, L1Miss, L1FetchNext, EpbL1Evicted, BfL1Evicted, L1Fetched,
     L2Hit, L2Miss, L2Fetch, L2Fetched
<1>. QED BY <1>1, <1>2, <1>3

NativeRuns == arch \in Archs \cup V!Archs /\ (arch \in V!Archs => NativeInv)

LEMMA Families == arch \notin Archs \/ arch \notin V!Archs
BY DEF Archs, V!Archs

LEMMA NativeStutter ==
  ASSUME NativeInv, UNCHANGED <<arch, l1, l2, nvc, dram, l1call, l2call, stored>>
  PROVE  NativeInv'
<1>1. V!TypeOK'
  BY DEF NativeInv, V!TypeOK
<1>2. ASSUME NEW q \in Procs
      PROVE  NativePrivate(q)'
  <2>1. NativePrivate(q)
    BY DEF NativeInv
  <2>2. L1Home(q)' /\ L2Home(q)' /\ Landing(q)'
    BY <2>1 DEF NativePrivate, L1Home, L2Home, Landing
  <2>. QED BY <2>1, <2>2 DEF NativePrivate, Clean
<1>3. NativeShared'
  BY DEF NativeInv, NativeShared, Stored
<1>. QED BY <1>1, <1>2, <1>3 DEF NativeInv

LEMMA NativeInvariance == ArchSpec => []NativeRuns
<1>1. ArchInit => NativeRuns
  <2>1. CASE InitNative
    BY <2>1, NativeInitial DEF InitNative, NativeRuns, NativeInv, V!TypeOK
  <2>2. CASE InitEpb
    BY <2>2, Families DEF InitEpb, Init, NativeRuns
  <2>. QED BY <2>1, <2>2 DEF ArchInit
<1>2. NativeRuns /\ [ArchNext]_all => NativeRuns'
  <2>. SUFFICES ASSUME NativeRuns, [ArchNext]_all
       PROVE  NativeRuns'
    OBVIOUS
  <2>1. CASE StepNative
    BY <2>1, NativeNext, ArchStays DEF StepNative, NativeRuns
  <2>2. CASE MarkNative
    <3>1. UNCHANGED <<arch, l1, l2, nvc, dram, l1call, l2call, stored>> /\ NativeInv
      BY <2>2, ArchStays DEF MarkNative, NativeRuns
    <3>. QED BY <3>1, NativeStutter DEF NativeRuns
  <2>3. CASE StepEpb
    BY <2>3, ArchStays, Families DEF StepEpb, NativeRuns
  <2>4. CASE UNCHANGED all
    <3>1. UNCHANGED <<arch, l1, l2, nvc, dram, l1call, l2call, stored>>
      BY <2>4 DEF all, vars, shared
    <3>. QED BY <3>1, NativeStutter DEF NativeRuns
  <2>. QED BY <2>1, <2>2, <2>3, <2>4 DEF ArchNext
<1>. QED BY <1>1, <1>2, PTL DEF ArchSpec

\* NATIVE and NVMLOG: whatever the other processes do to the shared levels in
\* between, when l1_evict gets control back its victim is valid in L2, and
\* modified there if it was modified in L1.
THEOREM VictimArrivesHolds == ArchSpec => []VictimArrives
<1>1. NativeRuns => VictimArrives
  BY NativeInvImplies DEF NativeRuns, VictimArrives
<1>. QED BY <1>1, NativeInvariance, PTL

\* NATIVE: no line is modified at any level, and no request says so, unless the
\* process, or for a shared level some process, has stored to its address.
THEOREM ModifiedWasStoredHolds == ArchSpec => []ModifiedWasStored
<1>1. NativeRuns => ModifiedWasStored
  BY NativeInvImplies DEF NativeRuns, ModifiedWasStored, V!DirtyWasStored, V!Archs
<1>. QED BY <1>1, NativeInvariance, PTL

-----------------------------------------------------------------------------
(* EPB and EPB_BF: persist buffers *)

\* A persist buffer in order: every entry is of the heap, and no line is there
\* twice.  Opaque, like the other predicates of this part.
GoodPB(pb) ==
  /\ pb \in [PBLines -> EntryType]
  /\ \A i \in PBLines : pb[i].addr < StackBase
  /\ \A i, j \in PBLines : pb[i].addr # NoLine /\ pb[i].addr = pb[j].addr => i = j

\* What insert_PB has still to store is a line that no other entry has.
Pending(book) ==
  Storing(book) =>
    /\ book.storing.slot \in PBLines /\ book.storing.addr \in Addrs
    /\ book.storing.addr < StackBase
    /\ \A j \in PBLines \ {book.storing.slot} : book.pb[j].addr # book.storing.addr

\* Without other processes an entry is whole, but for the one that is being stored.
WholeEntry(entry) == entry.tx = NoTx <=> entry.addr = NoLine
WholeBook(book) ==
  \A i \in PBLines : IF Storing(book) /\ i = book.storing.slot
                     THEN book.pb[i].tx # NoTx ELSE WholeEntry(book.pb[i])

\* A book, in the middle of insert_PB or not, and one that may be flushed: the
\* only process there is flushes its own book, and not in the middle.
HeldBook(book) ==
  /\ book \in BookType /\ GoodPB(book.pb) /\ Pending(book)
  /\ numProcs = 1 => WholeBook(book)
GoodBook(book) == HeldBook(book) /\ (numProcs = 1 => ~Storing(book))

\* A request, and the tags of a line, are persistent only for a line of the heap.
GoodReq(req) == req \in ReqType /\ (req.epoch # NoTx => req.addr \in Addrs /\ req.addr < StackBase)
GoodTag(tag) ==
  /\ tag.tx \in Txs \cup {NoTx} /\ tag.pb \in PBLines \cup {NoLine}
  /\ tag.tx = NoTx <=> tag.pb = NoLine

LEMMA TxFacts ==
  /\ NoTx \in Nat /\ NoTx \notin Txs /\ Txs \subseteq AnyTx /\ NoTx \in AnyTx /\ AnyTx \subseteq Nat
  /\ NoLine \notin PBLines /\ NoLine \notin Addrs /\ 0 \in PBLines /\ PBLines \subseteq Nat
  /\ NoLine < StackBase
BY EpbAssumption, GeometryAssumption DEF NoTx, Txs, AnyTx, NoLine, PBLines

LEMMA NoEntryIs ==
  NoEntry \in EntryType /\ NoEntry.tx = NoTx /\ NoEntry.addr = NoLine /\ WholeEntry(NoEntry)
BY DEF NoEntry, EntryType, WholeEntry

\* Entries may go at any time.
Thin(pb, new) ==
  /\ new = [i \in PBLines |-> new[i]]
  /\ \A i \in PBLines : new[i] = NoEntry \/ new[i] = pb[i]

LEMMA Thinned ==
  ASSUME NEW pb, GoodPB(pb), NEW new, Thin(pb, new)
  PROVE  GoodPB(new)
<1>1. new \in [PBLines -> EntryType]
  BY NoEntryIs DEF GoodPB, Thin
<1>2. \A i \in PBLines : new[i].addr < StackBase
  BY NoEntryIs, TxFacts DEF GoodPB, Thin
<1>3. \A i, j \in PBLines : new[i].addr # NoLine /\ new[i].addr = new[j].addr => i = j
  BY NoEntryIs DEF GoodPB, Thin
<1>. QED BY <1>1, <1>2, <1>3 DEF GoodPB

Book(pb, next, oldest, storing) == [pb |-> pb, next |-> next, oldest |-> oldest, storing |-> storing]

LEMMA BookIs ==
  ASSUME NEW book, HeldBook(book)
  PROVE  /\ GoodPB(book.pb) /\ book.next \in PBLines /\ (book.next + 1) % PB_SIZE \in PBLines
         /\ book.oldest \in AnyTx /\ book.storing \in StoringType
         /\ book = Book(book.pb, book.next, book.oldest, book.storing)
<1>1. /\ GoodPB(book.pb) /\ book.next \in PBLines /\ book.oldest \in AnyTx
      /\ book.storing \in StoringType
      /\ book = Book(book.pb, book.next, book.oldest, book.storing)
  BY DEF HeldBook, BookType, Book
<1>2. \A n \in Nat : n % PB_SIZE \in PBLines
  BY EpbAssumption, Z3 DEF PBLines
<1>3. book.next + 1 \in Nat
  BY <1>1 DEF PBLines
<1>. QED BY <1>1, <1>2, <1>3

\* The assignments of insert_PB to a book, those before the last store and that.
EntryBegun(book, pb, next, storing) == [book EXCEPT !.pb = pb, !.next = next, !.storing = storing]
EntryEnded(book, pb) == [book EXCEPT !.pb = pb, !.storing = NoStore]

LEMMA BookExcept ==
  ASSUME NEW book, HeldBook(book), NEW pb, NEW oldest
  PROVE  /\ [book EXCEPT !.pb = pb] = Book(pb, book.next, book.oldest, book.storing)
         /\ [book EXCEPT !.pb = pb, !.oldest = oldest] = Book(pb, book.next, oldest, book.storing)
         /\ EntryEnded(book, pb) = Book(pb, book.next, book.oldest, NoStore)
         /\ \A next, storing :
              EntryBegun(book, pb, next, storing) = Book(pb, next, book.oldest, storing)
<1>1. PICK a, b, c, d : book = Book(a, b, c, d)
  BY BookIs DEF Book
<1>2. book.next = b /\ book.oldest = c /\ book.storing = d
  BY <1>1 DEF Book
<1>3. [book EXCEPT !.pb = pb] = Book(pb, b, c, d)
  BY <1>1 DEF Book
<1>4. /\ [Book(pb, b, c, d) EXCEPT !.oldest = oldest] = Book(pb, b, oldest, d)
      /\ [Book(pb, b, c, d) EXCEPT !.storing = NoStore] = Book(pb, b, c, NoStore)
  BY DEF Book
<1>5. ASSUME NEW next, NEW storing
      PROVE  EntryBegun(book, pb, next, storing) = Book(pb, next, c, storing)
  <2>1. [Book(pb, b, c, d) EXCEPT !.next = next] = Book(pb, next, c, d)
    BY DEF Book
  <2>2. [Book(pb, next, c, d) EXCEPT !.storing = storing] = Book(pb, next, c, storing)
    BY DEF Book
  <2>. QED BY <1>3, <2>1, <2>2, Zenon DEF EntryBegun
<1>6. \A next, storing :
        EntryBegun(book, pb, next, storing) = Book(pb, next, book.oldest, storing)
  BY <1>2, <1>5
<1>. QED BY <1>2, <1>3, <1>4, <1>6 DEF EntryEnded

\* A book with other contents is in order, if these are.
LEMMA BookMade ==
  ASSUME NEW pb, GoodPB(pb), NEW next \in PBLines, NEW oldest \in AnyTx,
         NEW storing \in StoringType, NEW book,
         book = Book(pb, next, oldest, storing), Pending(book), numProcs = 1 => WholeBook(book)
  PROVE  HeldBook(book)
BY DEF HeldBook, GoodPB, BookType, Book

LEMMA ThinnedBook ==
  ASSUME NEW book, GoodBook(book), NEW pb, Thin(book.pb, pb), NEW oldest \in AnyTx
  PROVE  /\ GoodBook([book EXCEPT !.pb = pb, !.oldest = oldest])
         /\ GoodBook([book EXCEPT !.pb = pb])
<1>. DEFINE new(o) == Book(pb, book.next, o, book.storing)
<1>1. HeldBook(book)
  BY DEF GoodBook
<1>2. [book EXCEPT !.pb = pb, !.oldest = oldest] = new(oldest)
  BY <1>1, BookExcept
<1>3. [book EXCEPT !.pb = pb] = new(book.oldest)
  BY <1>1, BookExcept
<1>4. GoodPB(pb)
  BY <1>1, BookIs, Thinned
<1>5. ASSUME NEW o \in AnyTx
      PROVE  GoodBook(new(o))
  <2>. DEFINE b == new(o)
  <2>1. b.pb = pb /\ b.storing = book.storing /\ (Storing(b) <=> Storing(book))
    BY DEF Storing, Book
  <2>. HIDE DEF b
  <2>2. Pending(b)
    <3>1. Pending(book)
      BY <1>1 DEF HeldBook
    <3>2. Storing(book) => \A j \in PBLines : pb[j].addr = book.storing.addr => pb[j] = book.pb[j]
      BY <3>1, NoEntryIs, TxFacts DEF Thin, Pending
    <3>. QED BY <2>1, <3>1, <3>2 DEF Pending
  <2>3. numProcs = 1 => ~Storing(b) /\ WholeBook(b)
    <3>1. numProcs = 1 => ~Storing(book) /\ WholeBook(book)
      BY DEF GoodBook, HeldBook
    <3>. QED BY <2>1, <3>1, NoEntryIs DEF WholeBook, Thin
  <2>4. HeldBook(b)
    BY <1>1, <1>4, <2>2, <2>3, BookIs, BookMade DEF b
  <2>. QED BY <2>3, <2>4 DEF GoodBook, b
<1>. HIDE DEF new
<1>. QED BY <1>1, <1>2, <1>3, <1>5, BookIs

LEMMA Flushed ==
  ASSUME NEW pb, GoodPB(pb), NEW tx
  PROVE  /\ Thin(pb, EpbFlush(pb, tx)) /\ Flush(pb, tx) = EpbFlush(pb, tx)
         /\ OverflowFlush(pb, tx) = EpbFlush(pb, tx)
<1>1. EpbFlush(pb, tx) =
        [i \in PBLines |-> IF pb[i].tx # NoTx /\ pb[i].tx <= tx THEN NoEntry ELSE pb[i]]
  BY DEF EpbFlush, GoodPB
<1>2. Thin(pb, EpbFlush(pb, tx))
  BY <1>1 DEF Thin
<1>3. Flush(pb, tx) = EpbFlush(pb, tx) /\ OverflowFlush(pb, tx) = EpbFlush(pb, tx)
  BY DEF Flush, OverflowFlush, BfFlush, EpbOverflowFlush, BfOverflowFlush
<1>. QED BY <1>2, <1>3

\* insert_PB takes the place of the entry for its line, if there is one.
LEMMA SlotChosen ==
  ASSUME NEW pb, GoodPB(pb), NEW kept, Thin(pb, kept), NEW want \in PBLines, NEW addr \in Addrs
  PROVE  LET slot == PBSlot(pb, want, addr)
         IN  slot \in PBLines /\ \A j \in PBLines \ {slot} : kept[j].addr # addr
<1>. DEFINE same == {i \in PBLines : pb[i].addr = addr}
            slot == PBSlot(pb, want, addr)
<1>1. slot \in PBLines /\ (same # {} => slot \in same)
  <2>1. PB_SIZE - 1 \in Nat /\ same \subseteq 0 .. PB_SIZE - 1
    BY EpbAssumption DEF PBLines
  <2>2. same # {} => Max(same) \in same
    BY <2>1, MaxIn
  <2>. QED BY <2>2 DEF PBSlot
<1>2. ASSUME NEW j \in PBLines, kept[j].addr = addr
      PROVE  j = slot
  <2>1. addr # NoLine
    BY TxFacts
  <2>2. pb[j].addr = addr
    BY <1>2, <2>1, NoEntryIs DEF Thin
  <2>3. j \in same /\ slot \in same
    BY <1>1, <2>2
  <2>. QED BY <2>1, <2>3 DEF GoodPB
<1>. QED BY <1>1, <1>2

\* insert_PB up to the store to tx_id: half an entry, and what is to follow.
LEMMA EntryInserted ==
  ASSUME NEW book, GoodBook(book), NEW want \in PBLines,
         NEW tx \in Txs, NEW addr \in Addrs, addr < StackBase
  PROVE  HeldBook(InsertPB(book, want, [tx |-> tx, addr |-> addr]))
<1>. DEFINE entry   == [tx |-> tx, addr |-> addr]
            slot    == PBSlot(book.pb, want, addr)
            full    == book.pb[slot].tx \notin {tx, NoTx}
            kept    == IF full THEN OverflowFlush(book.pb, tx) ELSE book.pb
            pb      == [kept EXCEPT ![slot].tx = tx]
            next    == IF kept[slot].tx # tx THEN (book.next + 1) % PB_SIZE ELSE book.next
            storing == [slot |-> slot, addr |-> addr]
            new     == Book(pb, next, book.oldest, storing)
<1>1. HeldBook(book)
  BY DEF GoodBook
<1>2. Thin(book.pb, kept)
  BY <1>1, BookIs, Flushed DEF Thin, GoodPB
<1>3. GoodPB(kept)
  <2>. HIDE DEF kept
  <2>. QED BY <1>1, <1>2, BookIs, Thinned
<1>4. slot \in PBLines /\ \A j \in PBLines \ {slot} : kept[j].addr # addr
  <2>. HIDE DEF kept
  <2>. QED BY <1>1, <1>2, BookIs, SlotChosen
<1>5. next \in PBLines
  BY <1>1, BookIs
<1>6. InsertPB(book, want, entry) = IF tx < book.oldest THEN book ELSE new
  <2>1. InsertPB(book, want, entry) =
          IF tx < book.oldest THEN book
          ELSE EntryBegun(book, pb, next, storing)
    BY DEF InsertPB, EpbInsertPB, BfInsertPB, EntryBegun
  <2>. HIDE DEF pb, next, storing
  <2>2. \A n, s : EntryBegun(book, pb, n, s) = Book(pb, n, book.oldest, s)
    BY <1>1, BookExcept
  <2>3. EntryBegun(book, pb, next, storing) = new
    BY <2>2
  <2>. HIDE DEF new, entry
  <2>. QED BY <2>1, <2>3
<1>7. storing \in StoringType /\ storing # NoStore /\ storing.slot = slot /\ storing.addr = addr
  BY <1>4, TxFacts DEF StoringType, NoStore
<1>8. numProcs = 1 => \A j \in PBLines : WholeEntry(kept[j])
  <2>1. numProcs = 1 => ~Storing(book) /\ WholeBook(book)
    BY DEF GoodBook, HeldBook
  <2>. HIDE DEF kept
  <2>. QED BY <1>2, <2>1, NoEntryIs DEF WholeBook, Thin
<1>. HIDE DEF slot, kept, next, storing
<1>9. /\ pb \in [PBLines -> EntryType] /\ pb[slot].tx = tx
      /\ \A i \in PBLines : pb[i].addr = kept[i].addr
      /\ \A i \in PBLines \ {slot} : pb[i] = kept[i]
  BY <1>3, <1>4 DEF GoodPB, EntryType
<1>. HIDE DEF pb
<1>10. GoodPB(pb)
  BY <1>3, <1>9 DEF GoodPB
<1>11. Storing(new) /\ new.pb = pb /\ new.storing = storing
  BY <1>7 DEF Storing, Book
<1>. HIDE DEF new
<1>12. Pending(new)
  BY <1>4, <1>7, <1>9, <1>11 DEF Pending
<1>13. numProcs = 1 => WholeBook(new)
  BY <1>7, <1>8, <1>9, <1>11, TxFacts DEF WholeBook
<1>14. HeldBook(new)
  BY <1>1, <1>5, <1>7, <1>10, <1>12, <1>13, BookIs, BookMade DEF new
<1>. QED BY <1>1, <1>6, <1>14

\* ... and the store to lineAddr: a whole entry, if no other process exists.
LEMMA AddrStored ==
  ASSUME NEW book, HeldBook(book)
  PROVE  GoodBook(StoreAddr(book))
<1>. DEFINE slot == book.storing.slot
            addr == book.storing.addr
            pb   == [book.pb EXCEPT ![slot].addr = addr]
            new  == Book(pb, book.next, book.oldest, NoStore)
<1>1. StoreAddr(book) = IF Storing(book) THEN new ELSE book
  <2>1. StoreAddr(book) =
          IF Storing(book) THEN EntryEnded(book, pb) ELSE book
    BY DEF StoreAddr, EpbStoreAddr, BfStoreAddr, EntryEnded
  <2>. HIDE DEF pb
  <2>. QED BY <2>1, BookExcept
<1>2. CASE ~Storing(book)
  BY <1>1, <1>2 DEF GoodBook
<1>3. CASE Storing(book)
  <2>1. /\ slot \in PBLines /\ addr \in Addrs /\ addr < StackBase
        /\ \A j \in PBLines \ {slot} : book.pb[j].addr # addr
    BY <1>3 DEF HeldBook, Pending
  <2>2. GoodPB(book.pb)
    BY BookIs
  <2>3. numProcs = 1 => book.pb[slot].tx # NoTx /\ \A j \in PBLines \ {slot} : WholeEntry(book.pb[j])
    BY <1>3, <2>1 DEF HeldBook, WholeBook
  <2>. HIDE DEF slot, addr
  <2>4. /\ pb \in [PBLines -> EntryType] /\ pb[slot].addr = addr /\ pb[slot].tx = book.pb[slot].tx
        /\ \A j \in PBLines \ {slot} : pb[j] = book.pb[j]
    BY <2>1, <2>2 DEF GoodPB, EntryType
  <2>. HIDE DEF pb
  <2>5. GoodPB(pb)
    BY <2>1, <2>2, <2>4 DEF GoodPB
  <2>6. new.pb = pb /\ ~Storing(new) /\ NoStore \in StoringType
    BY DEF Storing, StoringType, Book
  <2>. HIDE DEF new
  <2>7. numProcs = 1 => WholeBook(new)
    BY <2>1, <2>3, <2>4, <2>6, TxFacts DEF WholeBook, WholeEntry
  <2>8. Pending(new)
    BY <2>6 DEF Pending
  <2>9. HeldBook(new)
    BY <2>5, <2>6, <2>7, <2>8, BookIs, BookMade DEF new
  <2>. QED BY <1>1, <1>3, <2>6, <2>9 DEF GoodBook
<1>. QED BY <1>2, <1>3

\* Serving a request leaves good tags and a good book.
LEMMA Served ==
  ASSUME NEW book, GoodBook(book), NEW req, GoodReq(req)
  PROVE  /\ GoodTag(Tag(book.next, req)) /\ Tag(book.next, req).tx = req.epoch
         /\ HeldBook(Booking(book, req)) /\ GoodBook(Booked(book, req))
<1>1. HeldBook(book)
  BY DEF GoodBook
<1>2. GoodTag(Tag(book.next, req)) /\ Tag(book.next, req).tx = req.epoch
  BY <1>1, BookIs, TxFacts DEF GoodTag, GoodReq, ReqType, Tag, NoTag, Persistent
<1>3. ASSUME Persistent(req)
      PROVE  HeldBook(Booking(book, req))
  <2>. DEFINE tx   == req.epoch
              addr == req.addr
              want == Tag(book.next, req).pb
  <2>1. tx \in Txs /\ addr \in Addrs /\ addr < StackBase
    BY <1>3 DEF GoodReq, ReqType, Persistent
  <2>2. want \in PBLines
    BY <1>2, <1>3 DEF GoodTag, Persistent
  <2>3. Booking(book, req) = InsertPB(book, want, [tx |-> tx, addr |-> addr])
    BY <1>3 DEF Booking
  <2>. HIDE DEF want, tx, addr
  <2>. QED BY <2>1, <2>2, <2>3, EntryInserted
<1>4. HeldBook(Booking(book, req))
  BY <1>1, <1>3 DEF Booking
<1>. QED BY <1>2, <1>4, AddrStored DEF Booked

LEMMA FlushedBook ==
  ASSUME NEW book, GoodBook(book), NEW tx, NEW next \in AnyTx
  PROVE  GoodBook(FlushedUpTo(book, tx, next))
<1>. DEFINE pb == Flush(book.pb, tx)
<1>1. Thin(book.pb, pb)
  BY BookIs, Flushed DEF GoodBook
<1>2. FlushedUpTo(book, tx, next) = [book EXCEPT !.pb = pb, !.oldest = next]
  BY DEF FlushedUpTo
<1>. HIDE DEF pb
<1>3. GoodBook([book EXCEPT !.pb = pb, !.oldest = next])
  BY <1>1, ThinnedBook
<1>. QED BY <1>2, <1>3

LEMMA ResolvedBook ==
  ASSUME NEW book, GoodBook(book), NEW tx, NEW req, NEW next \in AnyTx
  PROVE  GoodBook(Resolved(book, tx, req, next))
BY FlushedBook DEF Resolved

LEMMA BackFlushed ==
  ASSUME NEW book, GoodBook(book)
  PROVE  GoodBook(BackFlush(book))
<1>1. CASE Stale(book) = {}
  BY <1>1 DEF BackFlush
<1>2. CASE Stale(book) # {}
  <2>. DEFINE slot == Min(Stale(book))
              pb   == [book.pb EXCEPT ![slot] = NoEntry]
  <2>1. GoodPB(book.pb) /\ book.oldest \in AnyTx
    BY BookIs DEF GoodBook
  <2>2. Thin(book.pb, pb)
    BY <2>1 DEF GoodPB, Thin
  <2>3. BackFlush(book) = [book EXCEPT !.pb = pb]
    BY <1>2 DEF BackFlush
  <2>. HIDE DEF pb
  <2>4. GoodBook([book EXCEPT !.pb = pb])
    BY <2>1, <2>2, ThinnedBook
  <2>. QED BY <2>3, <2>4
<1>. QED BY <1>1, <1>2

-----------------------------------------------------------------------------
(* EPB_BF: the loop of nvm_access *)

\* A function f is what AfterRounds defines, up to round k.
Round(f, n) == [f[n - 1] EXCEPT ![Visited(n - 1)] = BackFlush(@)]
UpTo(f, k, books) == f = [n \in 0 .. k |-> IF n = 0 THEN books ELSE Round(f, n)]

\* Such a function exists for every k, so that AfterRounds is one.
LEMMA RoundsExist ==
  ASSUME NEW books, NEW top \in Nat
  PROVE  \E f : UpTo(f, top, books)
<1>. DEFINE Bad == {k \in 0 .. top : ~ \E f : UpTo(f, k, books)}
<1>1. SUFFICES ASSUME Bad # {} PROVE FALSE
  OBVIOUS
<1>2. PICK k \in Bad : \A j \in Bad : k <= j
  <2>1. Bad \subseteq Nat
    OBVIOUS
  <2>. QED BY <1>1, <2>1, MinExists
<1>3. k \in Nat /\ k <= top /\ ~ \E f : UpTo(f, k, books)
  OBVIOUS
<1>4. CASE k = 0
  <2>. DEFINE g == [n \in 0 .. 0 |-> books]
  <2>1. g = [n \in 0 .. 0 |-> IF n = 0 THEN books ELSE Round(g, n)]
    OBVIOUS
  <2>2. UpTo(g, 0, books)
    BY <2>1 DEF UpTo
  <2>. QED BY <1>3, <1>4, <2>2
<1>5. CASE k # 0
  <2>1. k - 1 \in 0 .. top /\ k - 1 \notin Bad
    BY <1>2, <1>3, <1>5
  <2>2. PICK f : UpTo(f, k - 1, books)
    BY <2>1
  <2>. DEFINE g == [n \in 0 .. k |-> IF n = k THEN Round(f, k) ELSE f[n]]
  <2>3. ASSUME NEW n \in 0 .. k
        PROVE  g[n] = IF n = 0 THEN books ELSE Round(g, n)
    <3>1. CASE n = 0
      <4>1. g[n] = f[0] /\ 0 \in 0 .. k - 1
        BY <1>3, <1>5, <3>1
      <4>. QED BY <2>2, <3>1, <4>1 DEF UpTo
    <3>2. CASE n # 0
      <4>1. n - 1 \in 0 .. k /\ n - 1 # k
        BY <1>3, <3>2
      <4>2. g[n - 1] = f[n - 1]
        BY <4>1
      <4>3. Round(g, n) = Round(f, n)
        BY <4>2 DEF Round
      <4>4. CASE n = k
        BY <3>2, <4>3, <4>4
      <4>5. CASE n # k
        <5>1. n \in 0 .. k - 1
          BY <1>3, <4>5
        <5>2. f[n] = Round(f, n)
          BY <2>2, <3>2, <5>1 DEF UpTo
        <5>. QED BY <3>2, <4>3, <4>5, <5>2
      <4>. QED BY <4>4, <4>5
    <3>. QED BY <3>1, <3>2
  <2>4. g = [n \in 0 .. k |-> g[n]]
    OBVIOUS
  <2>. HIDE DEF g
  <2>5. UpTo(g, k, books)
    BY <2>3, <2>4 DEF UpTo
  <2>. QED BY <1>3, <2>5
<1>. QED BY <1>4, <1>5

LEMMA RoundsAre ==
  ASSUME NEW books
  PROVE  /\ PB_SIZE * numProcs \in Nat
         /\ UpTo(AfterRounds(books), PB_SIZE * numProcs, books)
<1>1. PB_SIZE * numProcs \in Nat
  BY EpbAssumption, GeometryAssumption
<1>2. \E f : UpTo(f, PB_SIZE * numProcs, books)
  BY <1>1, RoundsExist
<1>3. AfterRounds(books) = CHOOSE f : UpTo(f, PB_SIZE * numProcs, books)
  BY DEF AfterRounds, UpTo, Round, Rounds
<1>. QED BY <1>1, <1>2, <1>3

Books(books) == books \in [Procs -> BookType] /\ \A q \in Procs : GoodBook(books[q])

HeldBooks(books) == books \in [Procs -> BookType] /\ \A q \in Procs : HeldBook(books[q])

LEMMA BooksPut ==
  ASSUME NEW books, NEW q, NEW book
  PROVE  /\ Books(books) /\ (q \in Procs => GoodBook(book)) => Books([books EXCEPT ![q] = book])
         /\ HeldBooks(books) /\ (q \in Procs => HeldBook(book)) => HeldBooks([books EXCEPT ![q] = book])
BY DEF Books, HeldBooks, GoodBook, HeldBook

\* Who is not in the middle of insert_PB finds books that may be flushed.
LEMMA BooksFree ==
  ASSUME NEW books
  PROVE  /\ Books(books) => HeldBooks(books)
         /\ \A p \in Procs : HeldBooks(books) /\ ~Storing(books[p]) => Books(books)
<1>1. Books(books) => HeldBooks(books)
  BY DEF Books, HeldBooks, GoodBook
<1>2. ASSUME NEW p \in Procs, HeldBooks(books), ~Storing(books[p])
      PROVE  Books(books)
  <2>1. ASSUME NEW q \in Procs, numProcs = 1
        PROVE  q = p
    BY <2>1 DEF Procs
  <2>. QED BY <1>2, <2>1 DEF Books, HeldBooks, GoodBook
<1>. QED BY <1>1, <1>2

\* Every round leaves the persist buffers in order.
LEMMA RoundsGood ==
  ASSUME NEW books, Books(books), NEW n \in Rounds
  PROVE  Books(AfterRounds(books)[n])
<1>. DEFINE after == AfterRounds(books)
            Bad   == {k \in Rounds : ~ Books(after[k])}
<1>1. /\ PB_SIZE * numProcs \in Nat
      /\ \A k \in Rounds : after[k] = IF k = 0 THEN books ELSE Round(after, k)
  BY RoundsAre DEF UpTo, Rounds
<1>. HIDE DEF after
<1>2. SUFFICES ASSUME Bad # {} PROVE FALSE
  BY DEF after
<1>3. PICK k \in Bad : \A j \in Bad : k <= j
  <2>1. Bad \subseteq Nat
    BY DEF Rounds
  <2>. QED BY <1>2, <2>1, MinExists
<1>4. k # 0
  BY <1>1, <1>3
<1>5. k - 1 \in Rounds /\ k - 1 \notin Bad /\ k \in Rounds
  BY <1>1, <1>3, <1>4 DEF Rounds
<1>6. Books(after[k - 1])
  BY <1>5
<1>. DEFINE q == Visited(k - 1)
<1>7. q \in Procs => GoodBook(BackFlush(after[k - 1][q]))
  BY <1>6, BackFlushed DEF Books
<1>8. after[k] = [after[k - 1] EXCEPT ![q] = BackFlush(after[k - 1][q])]
  BY <1>1, <1>4, <1>5 DEF Round
<1>9. Books(after[k])
  BY <1>6, <1>7, <1>8, BooksPut
<1>. QED BY <1>3, <1>9

-----------------------------------------------------------------------------
(* EPB and EPB_BF: what an insertion does to a cache *)

GoodLine(line) == LineOK(line) /\ (line.tx # NoTx => line.addr \in Addrs)

GoodPrivate(cache, S, ways) ==
  cache \in [S -> PrivateLine(ways)] /\ \A i \in S : GoodLine(cache[i])
GoodShared(cache, S, ways) ==
  cache \in [S -> SharedLine(ways)] /\ \A i \in S : GoodLine(cache[i])

\* What an access does to the places of the lines.  SameBut: the one that may
\* be out of place is at the slot that is served, or will be served next.
SameBut(cache, new, S, slot) ==
  \A j \in S \ {slot} : new[j].addr = cache[j].addr /\ new[j].proc = cache[j].proc
SameAddrs(cache, new, S) == \A j \in S : new[j].addr = cache[j].addr
SameOwners(cache, new, S) == \A j \in S : new[j].proc = cache[j].proc
Moved(cache, new, S, slot, req) ==
  new[slot].addr = req.addr /\ \A j \in S \ {slot} : new[j].addr = cache[j].addr
At(new, slot, req, p) == new[slot].addr = req.addr /\ new[slot].proc = p

\* The state of a line plays no part in this.
WithState(cache, i, state) == [cache EXCEPT ![i].state = state]

LEMMA PrivateStateSet ==
  ASSUME NEW S, NEW ways, NEW i \in S, NEW state \in MESI, NEW cache, GoodPrivate(cache, S, ways)
  PROVE  LET new == WithState(cache, i, state)
         IN  GoodPrivate(new, S, ways) /\ SameAddrs(cache, new, S)
<1>. DEFINE line == [cache[i] EXCEPT !.state = state]
            new  == WithState(cache, i, state)
<1>1. new = [cache EXCEPT ![i] = line] /\ DOMAIN cache = S
  BY DEF GoodPrivate, WithState
<1>2. /\ line \in PrivateLine(ways)
      /\ line.addr = cache[i].addr /\ line.tx = cache[i].tx /\ line.pb = cache[i].pb
  BY DEF GoodPrivate, PrivateLine
<1>. HIDE DEF line, new
<1>3. new[i] = line /\ \A j \in S \ {i} : new[j] = cache[j]
  BY <1>1
<1>4. GoodLine(line)
  BY <1>2 DEF GoodPrivate, GoodLine, LineOK
<1>. QED BY <1>1, <1>2, <1>3, <1>4 DEF GoodPrivate, new, SameAddrs

LEMMA SharedStateSet ==
  ASSUME NEW S, NEW ways, NEW i \in S, NEW state \in MESI, NEW cache, GoodShared(cache, S, ways)
  PROVE  LET new == WithState(cache, i, state)
         IN  GoodShared(new, S, ways) /\ SameAddrs(cache, new, S) /\ SameOwners(cache, new, S)
<1>. DEFINE line == [cache[i] EXCEPT !.state = state]
            new  == WithState(cache, i, state)
<1>1. new = [cache EXCEPT ![i] = line] /\ DOMAIN cache = S
  BY DEF GoodShared, WithState
<1>2. /\ line \in SharedLine(ways) /\ line.proc = cache[i].proc
      /\ line.addr = cache[i].addr /\ line.tx = cache[i].tx /\ line.pb = cache[i].pb
  BY DEF GoodShared, SharedLine
<1>. HIDE DEF line, new
<1>3. new[i] = line /\ \A j \in S \ {i} : new[j] = cache[j]
  BY <1>1
<1>4. GoodLine(line)
  BY <1>2 DEF GoodShared, GoodLine, LineOK
<1>. QED BY <1>1, <1>2, <1>3, <1>4 DEF GoodShared, new, SameAddrs, SameOwners

LEMMA PrivateFilled ==
  ASSUME NEW S, NEW ways \in Nat, NEW slots, NEW i \in S, NEW req, GoodReq(req),
         NEW tag, GoodTag(tag), tag.tx = req.epoch,
         NEW cache, GoodPrivate(cache, S, ways)
  PROVE  LET new == Tagged(PostInsert(cache, slots, ways, i, req), i, tag)
         IN  GoodPrivate(new, S, ways) /\ Moved(cache, new, S, i, req)
<1>. DEFINE mid == PostInsert(cache, slots, ways, i, req)
            new == Tagged(mid, i, tag)
            st  == StateAfter(req.type, cache[i].state)
            rank(j) == RankAfter(cache, slots, ways, i, j)
<1>1. \A j \in S : rank(j) \in 0 .. ways
  BY RankIn DEF PrivateLine, GoodPrivate
<1>2. mid = [j \in S |-> IF j = i
                         THEN [cache[j] EXCEPT !.addr  = req.addr,
                                               !.state = StateAfter(req.type, @),
                                               !.ts    = rank(j)]
                         ELSE [cache[j] EXCEPT !.ts = rank(j)]]
  BY DEF PostInsert, GoodPrivate
<1>3. mid[i] = [cache[i] EXCEPT !.addr = req.addr, !.state = st, !.ts = rank(i)]
  BY <1>2 DEF PrivateLine, GoodPrivate
<1>4. \A j \in S \ {i} : mid[j] = [cache[j] EXCEPT !.ts = rank(j)]
  BY <1>2
<1>5. st \in MESI /\ req.addr \in Addrs \cup {0}
  BY StateAfterIn DEF GoodReq, ReqType
<1>6. DOMAIN mid = S /\ mid = [j \in S |-> mid[j]]
  BY <1>2
<1>. HIDE DEF mid, st, rank
<1>. DEFINE line == [mid[i] EXCEPT !.tx = tag.tx, !.pb = tag.pb]
<1>7. cache[i] \in PrivateLine(ways)
  BY DEF GoodPrivate
<1>8. mid[i] \in PrivateLine(ways) /\ mid[i].addr = req.addr
  BY <1>1, <1>3, <1>5, <1>7 DEF PrivateLine
<1>9. new[i] = line /\ (\A j \in S \ {i} : new[j] = mid[j]) /\ new = [j \in S |-> new[j]]
  BY <1>6 DEF Tagged
<1>10. line \in PrivateLine(ways) /\ line.addr = req.addr /\ line.tx = tag.tx /\ line.pb = tag.pb
  BY <1>8 DEF PrivateLine, GoodTag
<1>. HIDE DEF line, new
<1>11. GoodLine(line)
  BY <1>10 DEF GoodLine, LineOK, GoodTag, GoodReq
<1>12. \A j \in S \ {i} : /\ mid[j] \in PrivateLine(ways)
                          /\ mid[j].addr = cache[j].addr
                          /\ mid[j].tx = cache[j].tx /\ mid[j].pb = cache[j].pb
  <2>. SUFFICES ASSUME NEW j \in S \ {i}
       PROVE  /\ mid[j] \in PrivateLine(ways)
              /\ mid[j].addr = cache[j].addr
              /\ mid[j].tx = cache[j].tx /\ mid[j].pb = cache[j].pb
    OBVIOUS
  <2>1. cache[j] \in PrivateLine(ways) /\ rank(j) \in 0 .. ways /\ mid[j] = [cache[j] EXCEPT !.ts = rank(j)]
    BY <1>1, <1>4 DEF GoodPrivate
  <2>. QED BY <2>1 DEF PrivateLine
<1>13. \A j \in S \ {i} : GoodLine(mid[j])
  BY <1>12 DEF GoodLine, LineOK, GoodPrivate
<1>14. GoodPrivate(new, S, ways)
  BY <1>9, <1>10, <1>11, <1>12, <1>13 DEF GoodPrivate
<1>. QED BY <1>9, <1>10, <1>12, <1>14 DEF new, mid, Moved

\* A line of a shared cache also gets its process.
Filled(cache, slots, ways, i, req, tag, p) ==
  [Tagged(PostInsert(cache, slots, ways, i, req), i, tag) EXCEPT ![i].proc = p]

LEMMA SharedFilled ==
  ASSUME NEW S, NEW ways \in Nat, NEW slots, NEW i \in S, NEW req, GoodReq(req),
         NEW tag, GoodTag(tag), tag.tx = req.epoch, NEW p \in Procs,
         NEW cache, GoodShared(cache, S, ways)
  PROVE  LET new == Filled(cache, slots, ways, i, req, tag, p)
         IN  GoodShared(new, S, ways) /\ At(new, i, req, p) /\ SameBut(cache, new, S, i)
<1>. DEFINE mid == PostInsert(cache, slots, ways, i, req)
            tagged == Tagged(mid, i, tag)
            new == [tagged EXCEPT ![i].proc = p]
            st  == StateAfter(req.type, cache[i].state)
            rank(j) == RankAfter(cache, slots, ways, i, j)
<1>1. \A j \in S : rank(j) \in 0 .. ways
  BY RankIn DEF SharedLine, GoodShared
<1>2. mid = [j \in S |-> IF j = i
                         THEN [cache[j] EXCEPT !.addr  = req.addr,
                                               !.state = StateAfter(req.type, @),
                                               !.ts    = rank(j)]
                         ELSE [cache[j] EXCEPT !.ts = rank(j)]]
  BY DEF PostInsert, GoodShared
<1>3. mid[i] = [cache[i] EXCEPT !.addr = req.addr, !.state = st, !.ts = rank(i)]
  BY <1>2 DEF SharedLine, GoodShared
<1>4. \A j \in S \ {i} : mid[j] = [cache[j] EXCEPT !.ts = rank(j)]
  BY <1>2
<1>5. st \in MESI /\ req.addr \in Addrs \cup {0}
  BY StateAfterIn DEF GoodReq, ReqType
<1>6. DOMAIN mid = S /\ mid = [j \in S |-> mid[j]]
  BY <1>2
<1>. HIDE DEF mid, st, rank
<1>. DEFINE line == [mid[i] EXCEPT !.tx = tag.tx, !.pb = tag.pb, !.proc = p]
            half == [mid[i] EXCEPT !.tx = tag.tx, !.pb = tag.pb]
<1>7. cache[i] \in SharedLine(ways)
  BY DEF GoodShared
<1>8. mid[i] \in SharedLine(ways) /\ mid[i].addr = req.addr
  BY <1>1, <1>3, <1>5, <1>7 DEF SharedLine
<1>9. tagged[i] = half /\ (\A j \in S \ {i} : tagged[j] = mid[j]) /\ tagged = [j \in S |-> tagged[j]]
  BY <1>6 DEF Tagged
<1>. HIDE DEF tagged
<1>10. new[i] = [half EXCEPT !.proc = p] /\ (\A j \in S \ {i} : new[j] = mid[j]) /\ new = [j \in S |-> new[j]]
  BY <1>9
<1>. HIDE DEF new
<1>11. /\ new[i] \in SharedLine(ways) /\ new[i].addr = req.addr
       /\ new[i].tx = tag.tx /\ new[i].pb = tag.pb /\ new[i].proc = p
  BY <1>8, <1>10 DEF SharedLine, GoodTag
<1>12. GoodLine(new[i])
  BY <1>11 DEF GoodLine, LineOK, GoodTag, GoodReq
<1>13. \A j \in S \ {i} : /\ mid[j] \in SharedLine(ways)
                          /\ mid[j].addr = cache[j].addr /\ mid[j].proc = cache[j].proc
                          /\ mid[j].tx = cache[j].tx /\ mid[j].pb = cache[j].pb
  <2>. SUFFICES ASSUME NEW j \in S \ {i}
       PROVE  /\ mid[j] \in SharedLine(ways)
              /\ mid[j].addr = cache[j].addr /\ mid[j].proc = cache[j].proc
              /\ mid[j].tx = cache[j].tx /\ mid[j].pb = cache[j].pb
    OBVIOUS
  <2>1. cache[j] \in SharedLine(ways) /\ rank(j) \in 0 .. ways /\ mid[j] = [cache[j] EXCEPT !.ts = rank(j)]
    BY <1>1, <1>4 DEF GoodShared
  <2>. QED BY <2>1 DEF SharedLine
<1>14. \A j \in S \ {i} : GoodLine(mid[j])
  BY <1>13 DEF GoodLine, LineOK, GoodShared
<1>15. GoodShared(new, S, ways)
  BY <1>10, <1>11, <1>12, <1>13, <1>14 DEF GoodShared
<1>. QED BY <1>10, <1>11, <1>13, <1>15 DEF new, tagged, mid, Filled, At, SameBut

-----------------------------------------------------------------------------
(* EPB and EPB_BF: the shared levels.  A memory is what the handlers below   *)
(* the L2 hand on: both shared caches and all persist buffers.               *)

IsMemory(m) == m = [nvc |-> m.nvc, dram |-> m.dram, persist |-> m.persist]

GoodNvc(cache) ==
  /\ GoodShared(cache, NvcSlots, NvcWays)
  /\ AtHome(cache, NvcSlots, NvcSets, NvcWays) /\ DistinctOwned(cache, NvcSlots)
GoodDram(cache) ==
  /\ GoodShared(cache, DramSlots, DramWays)
  /\ AtHome(cache, DramSlots, DramSets, DramWays) /\ DistinctOwned(cache, DramSlots)

GoodMemory(m) == IsMemory(m) /\ GoodNvc(m.nvc) /\ GoodDram(m.dram) /\ Books(m.persist)

\* Slot is in the set of addr, and no other slot has a line of p for it.
OnlyAt(cache, p, addr, sets, ways, slot) ==
  /\ slot \in SetSlots(addr, sets, ways)
  /\ addr # 0 => \A j \in Holding(cache, SetSlots(addr, sets, ways), addr) :
                   cache[j].proc = p => j = slot

\* A shared cache that serves a process a line it has nowhere else.
LEMMA SharedServed ==
  ASSUME NEW S, NEW sets, NEW ways \in Nat, NEW slot \in S, NEW req, GoodReq(req),
         NEW tag, GoodTag(tag), tag.tx = req.epoch, NEW p \in Procs,
         NEW orig, AtHome(orig, S, sets, ways), DistinctOwned(orig, S),
         NEW cache, GoodShared(cache, S, ways), SameBut(orig, cache, S, slot),
         OnlyAt(orig, p, req.addr, sets, ways, slot)
  PROVE  LET new == Filled(cache, SetSlots(req.addr, sets, ways), ways, slot, req, tag, p)
         IN  GoodShared(new, S, ways) /\ AtHome(new, S, sets, ways) /\ DistinctOwned(new, S)
<1>. DEFINE set == SetSlots(req.addr, sets, ways)
            new == Filled(cache, set, ways, slot, req, tag, p)
<1>. HIDE DEF set
<1>1. GoodShared(new, S, ways) /\ At(new, slot, req, p) /\ SameBut(cache, new, S, slot)
  BY SharedFilled
<1>. HIDE DEF new
<1>2. \A j \in S \ {slot} : new[j].addr = orig[j].addr /\ new[j].proc = orig[j].proc
  BY <1>1 DEF SameBut
<1>3. AtHome(new, S, sets, ways) /\ DistinctOwned(new, S)
  BY <1>1, <1>2, PlacedOwned DEF At, OnlyAt
<1>. QED BY <1>1, <1>3 DEF new, set

\* nvm_access flushes entries, no more.
LEMMA NvmAccessed ==
  ASSUME NEW m, IsMemory(m), Books(m.persist), NEW x \in NvmAccess(m)
  PROVE  IsMemory(x) /\ x.nvc = m.nvc /\ x.dram = m.dram /\ Books(x.persist)
<1>1. CASE x = m
  BY <1>1
<1>2. CASE x \in BfNvmAccess(m)
  <2>1. PICK n \in Rounds : x = [m EXCEPT !.persist = AfterRounds(m.persist)[n]]
    BY <1>2 DEF BfNvmAccess
  <2>. DEFINE b == AfterRounds(m.persist)[n]
  <2>2. Books(b)
    BY RoundsGood
  <2>. HIDE DEF b
  <2>3. x = [m EXCEPT !.persist = b]
    BY <2>1 DEF b
  <2>4. x = [nvc |-> m.nvc, dram |-> m.dram, persist |-> b]
    BY <2>3 DEF IsMemory
  <2>. QED BY <2>2, <2>4 DEF IsMemory
<1>. QED BY <1>1, <1>2 DEF NvmAccess, EpbNvmAccess

\* The request that writes back a line.
LEMMA EpbWriteback ==
  ASSUME NEW line, NEW ways, GoodLine(line),
         line \in PrivateLine(ways) \/ line \in SharedLine(ways)
  PROVE  GoodReq(Writeback(line))
<1>1. /\ line.addr \in Addrs \cup {0} /\ line.tx \in Txs \cup {NoTx} /\ line.pb \in PBLines \cup {NoLine}
  BY DEF PrivateLine, SharedLine
<1>2. WritebackType(line.state) \in AccessTypes
  BY DEF WritebackType, AccessTypes
<1>. QED BY <1>1, <1>2, TxFacts DEF Writeback, GoodLine, LineOK, Volatile, Request, GoodReq, ReqType

\* The flush for a DRAM victim.
LEMMA DramResolvedGood ==
  ASSUME NEW m, GoodMemory(m), NEW slot, NEW x \in DramResolved(m, slot)
  PROVE  GoodMemory(x) /\ x.nvc = m.nvc /\ x.dram = m.dram
<1>1. CASE x = m
  BY <1>1
<1>2. CASE x # m
  <2>. DEFINE q == m.dram[slot].proc
  <2>1. PICK tx \in NvcTxAt(m, slot) :
          x = [m EXCEPT !.persist[q] = FlushedUpTo(@, tx, SuccTx(tx))]
    BY <1>2 DEF DramResolved
  <2>2. tx \in AnyTx
    <3>1. \A i \in NvcSlots : m.nvc[i].tx \in AnyTx
      BY TxFacts DEF GoodMemory, GoodNvc, GoodShared, SharedLine
    <3>. QED BY <2>1, <3>1 DEF NvcTxAt
  <2>3. SuccTx(tx) \in AnyTx
    <3>1. \A n \in Nat : (tx + 1) % (n + 1) \in 0 .. n
      BY <2>2, TxFacts, Z3
    <3>. QED BY <3>1, TxFacts DEF SuccTx, AnyTx
  <2>. DEFINE book == FlushedUpTo(m.persist[q], tx, SuccTx(tx))
              b    == [m.persist EXCEPT ![q] = book]
  <2>4. q \in Procs => GoodBook(book)
    BY <2>3, FlushedBook DEF GoodMemory, Books
  <2>5. x = [m EXCEPT !.persist = b]
    BY <2>1
  <2>. HIDE DEF book
  <2>6. Books(b)
    BY <2>4, BooksPut DEF GoodMemory
  <2>. HIDE DEF b
  <2>7. x = [nvc |-> m.nvc, dram |-> m.dram, persist |-> b]
    BY <2>5 DEF GoodMemory, IsMemory
  <2>. QED BY <2>6, <2>7 DEF GoodMemory, IsMemory
<1>. QED BY <1>1, <1>2

\* dram_evict, whichever of the two wrong or right last assignments it has.
LEMMA DramEvicted ==
  ASSUME NEW m, GoodMemory(m), NEW slot \in DramSlots, NEW x \in DramEvict(m, slot)
  PROVE  /\ IsMemory(x) /\ x.nvc = m.nvc /\ Books(x.persist)
         /\ GoodShared(x.dram, DramSlots, DramWays)
         /\ SameBut(m.dram, x.dram, DramSlots, slot)
<1>1. CASE x = m
  BY <1>1 DEF GoodMemory, GoodDram, SameBut
<1>2. CASE x # m
  <2>1. PICK y \in DramResolved(m, slot) : \E z \in NvmAccess(y) :
          x = IF arch = "EPB" THEN EpbDramEvicted(z, slot) ELSE BfDramEvicted(z, slot)
    BY <1>2 DEF DramEvict
  <2>2. PICK z \in NvmAccess(y) :
          x = IF arch = "EPB" THEN EpbDramEvicted(z, slot) ELSE BfDramEvicted(z, slot)
    BY <2>1
  <2>3. GoodMemory(y) /\ y.nvc = m.nvc /\ y.dram = m.dram
    BY DramResolvedGood
  <2>4. IsMemory(y) /\ Books(y.persist)
    BY <2>3 DEF GoodMemory
  <2>5. IsMemory(z) /\ z.nvc = m.nvc /\ z.dram = m.dram /\ Books(z.persist)
    BY <2>3, <2>4, NvmAccessed
  <2>6. GoodShared(m.dram, DramSlots, DramWays)
    BY DEF GoodMemory, GoodDram
  <2>7. CASE x = BfDramEvicted(z, slot)
    <3>. DEFINE d == WithState(m.dram, slot, "I")
    <3>1. "I" \in MESI
      BY DEF MESI
    <3>2. /\ GoodShared(d, DramSlots, DramWays)
          /\ SameAddrs(m.dram, d, DramSlots) /\ SameOwners(m.dram, d, DramSlots)
      BY <2>6, <3>1, SharedStateSet
    <3>3. x = [z EXCEPT !.dram = d]
      BY <2>5, <2>7 DEF BfDramEvicted, Invalidated, WithState
    <3>. HIDE DEF d
    <3>4. x = [nvc |-> m.nvc, dram |-> d, persist |-> z.persist]
      BY <2>5, <3>3 DEF IsMemory
    <3>. QED BY <2>5, <3>2, <3>4 DEF IsMemory, SameBut, SameAddrs, SameOwners
  <2>8. CASE x = EpbDramEvicted(z, slot)
    <3>. DEFINE line == [m.dram[slot] EXCEPT !.proc = 0]
                d    == [m.dram EXCEPT ![slot] = line]
    <3>1. m.dram[slot] \in SharedLine(DramWays) /\ GoodLine(m.dram[slot]) /\ 0 \in Procs
      BY <2>6, GeometryAssumption DEF GoodShared, Procs
    <3>2. line \in SharedLine(DramWays) /\ GoodLine(line)
      BY <3>1 DEF SharedLine, GoodLine, LineOK
    <3>3. x = [z EXCEPT !.dram = d]
      BY <2>5, <2>8 DEF EpbDramEvicted
    <3>. HIDE DEF line
    <3>4. GoodShared(d, DramSlots, DramWays) /\ SameBut(m.dram, d, DramSlots, slot)
      BY <2>6, <3>2 DEF GoodShared, SameBut
    <3>. HIDE DEF d
    <3>5. x = [nvc |-> m.nvc, dram |-> d, persist |-> z.persist]
      BY <2>5, <3>3 DEF IsMemory
    <3>. QED BY <2>5, <3>4, <3>5 DEF IsMemory
  <2>. QED BY <2>2, <2>7, <2>8
<1>. QED BY <1>1, <1>2

\* What dram_access and nvc_access end with.
LEMMA DramServed ==
  ASSUME NEW m, IsMemory(m), GoodNvc(m.nvc), Books(m.persist),
         GoodShared(m.dram, DramSlots, DramWays),
         NEW orig, AtHome(orig, DramSlots, DramSets, DramWays), DistinctOwned(orig, DramSlots),
         NEW slot \in DramSlots, SameBut(orig, m.dram, DramSlots, slot),
         NEW p \in Procs, NEW req, GoodReq(req),
         OnlyAt(orig, p, req.addr, DramSets, DramWays, slot),
         NEW book, GoodBook(book)
  PROVE  GoodMemory(DramServe(m, p, req, slot, book)) /\ DramServe(m, p, req, slot, book).nvc = m.nvc
<1>. DEFINE tag  == Tag(book.next, req)
            next == Booked(book, req)
            d    == Filled(m.dram, SetSlots(req.addr, DramSets, DramWays), DramWays, slot, req, tag, p)
            b    == [m.persist EXCEPT ![p] = next]
            x    == DramServe(m, p, req, slot, book)
<1>1. x = [m EXCEPT !.dram = d, !.persist = b]
  BY DEF DramServe, DramSet, Filled
<1>2. GoodTag(tag) /\ tag.tx = req.epoch /\ GoodBook(next)
  BY Served
<1>. HIDE DEF tag, next, x
<1>3. Books(b)
  BY <1>2, BooksPut
<1>4. GoodDram(d)
  <2>1. DramWays \in Nat
    BY Ways
  <2>. QED BY <1>2, <2>1, SharedServed DEF GoodDram
<1>. HIDE DEF d, b
<1>5. x = [nvc |-> m.nvc, dram |-> d, persist |-> b]
  BY <1>1 DEF IsMemory
<1>. QED BY <1>3, <1>4, <1>5 DEF GoodMemory, IsMemory, x

LEMMA NvcServed ==
  ASSUME NEW m, GoodMemory(m), NEW slot \in NvcSlots, NEW p \in Procs, NEW req, GoodReq(req),
         OnlyAt(m.nvc, p, req.addr, NvcSets, NvcWays, slot),
         NEW book, GoodBook(book)
  PROVE  GoodMemory(NvcServe(m, p, req, slot, book))
<1>. DEFINE tag  == Tag(book.next, req)
            next == Booked(book, req)
            orig == m.nvc
            d    == Filled(orig, SetSlots(req.addr, NvcSets, NvcWays), NvcWays, slot, req, tag, p)
            b    == [m.persist EXCEPT ![p] = next]
            x    == NvcServe(m, p, req, slot, book)
<1>1. x = [m EXCEPT !.nvc = d, !.persist = b]
  BY DEF NvcServe, NvcSet, Filled
<1>2. GoodTag(tag) /\ tag.tx = req.epoch /\ GoodBook(next)
  BY Served
<1>. HIDE DEF tag, next, x
<1>3. Books(b)
  BY <1>2, BooksPut DEF GoodMemory
<1>4. GoodNvc(d)
  <2>1. NvcWays \in Nat
    BY Ways
  <2>2. /\ GoodShared(orig, NvcSlots, NvcWays)
        /\ AtHome(orig, NvcSlots, NvcSets, NvcWays) /\ DistinctOwned(orig, NvcSlots)
        /\ SameBut(orig, orig, NvcSlots, slot)
    BY DEF GoodMemory, GoodNvc, SameBut
  <2>3. OnlyAt(orig, p, req.addr, NvcSets, NvcWays, slot)
    OBVIOUS
  <2>. HIDE DEF orig
  <2>. QED BY <1>2, <2>1, <2>2, <2>3, SharedServed DEF GoodNvc
<1>. HIDE DEF d, b
<1>5. x = [nvc |-> d, dram |-> m.dram, persist |-> b]
  BY <1>1 DEF IsMemory, GoodMemory
<1>. QED BY <1>3, <1>4, <1>5 DEF GoodMemory, IsMemory, x

\* Where a shared cache finds a line of p, or the slot that gives way to it.
PlaceOf(cache, p, addr, sets, ways) ==
  LET set == SetSlots(addr, sets, ways)
      hit == {i \in Holding(cache, set, addr) : cache[i].proc = p}
  IN  IF hit # {} THEN Min(hit) ELSE Victim(cache, set)

LEMMA SharedSlot ==
  ASSUME NEW S, NEW ways, NEW sets, NEW cache, GoodShared(cache, S, ways), DistinctOwned(cache, S), NEW p,
         NEW addr, S \subseteq Nat, SetSlots(addr, sets, ways) \subseteq S,
         SetSlots(addr, sets, ways) # {}
  PROVE  LET slot == PlaceOf(cache, p, addr, sets, ways)
         IN  slot \in S /\ OnlyAt(cache, p, addr, sets, ways, slot)
<1>. DEFINE set  == SetSlots(addr, sets, ways)
            hit  == {i \in Holding(cache, set, addr) : cache[i].proc = p}
<1>1. CASE hit = {}
  <2>1. Victim(cache, set) \in set
    <3>1. \A i \in S : cache[i].ts \in Nat
      BY DEF GoodShared, SharedLine
    <3>2. set \subseteq Nat /\ \A i \in set : cache[i].ts \in Nat
      BY <3>1
    <3>. QED BY <3>2, VictimIn
  <2>. QED BY <1>1, <2>1 DEF PlaceOf, OnlyAt
<1>2. CASE hit # {}
  <2>1. Min(hit) \in hit
    <3>1. hit \subseteq Nat
      BY DEF Holding
    <3>. QED BY <1>2, <3>1, MinIn
  <2>2. ASSUME NEW j \in hit, addr # 0
        PROVE  j = Min(hit)
    BY <2>1, <2>2 DEF Holding, DistinctOwned
  <2>3. Min(hit) \in S /\ Min(hit) \in set
    BY <2>1 DEF Holding
  <2>. QED BY <1>2, <2>2, <2>3 DEF PlaceOf, OnlyAt
<1>. QED BY <1>1, <1>2

LEMMA DramAccessed ==
  ASSUME NEW m, GoodMemory(m), NEW p \in Procs, NEW req, GoodReq(req), NEW x \in DramAccess(m, p, req)
  PROVE  GoodMemory(x) /\ x.nvc = m.nvc
<1>. DEFINE set  == SetSlots(req.addr, DramSets, DramWays)
            hit  == {i \in Holding(m.dram, set, req.addr) : m.dram[i].proc = p}
            slot == IF hit # {} THEN Min(hit) ELSE Victim(m.dram, set)
            tx   == m.dram[slot].tx
<1>1. /\ hit # {} => x = DramServe(m, p, req, slot, Resolved(m.persist[p], tx, req, tx))
      /\ hit = {} => \E y \in DramEvict(m, slot) : \E z \in NvmAccess(y) :
                       x = DramServe(z, p, req, slot, z.persist[p])
  BY DEF DramAccess, EpbDramAccess, BfDramAccess, DramLookup, DramPreinsert, DramSet
<1>2. IsMemory(m) /\ GoodNvc(m.nvc) /\ GoodDram(m.dram) /\ Books(m.persist)
  BY DEF GoodMemory
<1>3. /\ GoodShared(m.dram, DramSlots, DramWays)
      /\ AtHome(m.dram, DramSlots, DramSets, DramWays) /\ DistinctOwned(m.dram, DramSlots)
  BY <1>2 DEF GoodDram
<1>4. slot \in DramSlots /\ OnlyAt(m.dram, p, req.addr, DramSets, DramWays, slot)
  <2>. DEFINE cache == m.dram
              addr  == req.addr
  <2>1. DramSlots \subseteq Nat
    BY Ways
  <2>2. SetSlots(addr, DramSets, DramWays) \subseteq DramSlots /\ SetSlots(addr, DramSets, DramWays) # {}
    BY SetsInside DEF GoodReq, ReqType
  <2>3. GoodShared(cache, DramSlots, DramWays) /\ DistinctOwned(cache, DramSlots)
    BY <1>3
  <2>4. slot = PlaceOf(cache, p, addr, DramSets, DramWays)
    BY DEF PlaceOf
  <2>. HIDE DEF cache, addr, slot
  <2>5. slot \in DramSlots /\ OnlyAt(cache, p, addr, DramSets, DramWays, slot)
    BY <2>1, <2>2, <2>3, <2>4, SharedSlot
  <2>. QED BY <2>5 DEF cache, addr
<1>5. hit # {} \/ hit = {}
  OBVIOUS
<1>. HIDE DEF slot, hit
<1>6. CASE hit # {}
  <2>. DEFINE book == Resolved(m.persist[p], tx, req, tx)
  <2>1. tx \in AnyTx
    BY <1>3, <1>4, TxFacts DEF GoodShared, SharedLine
  <2>2. GoodBook(book)
    BY <1>2, <2>1, ResolvedBook DEF Books
  <2>3. SameBut(m.dram, m.dram, DramSlots, slot)
    BY DEF SameBut
  <2>. HIDE DEF book, tx
  <2>4. x = DramServe(m, p, req, slot, book)
    BY <1>1, <1>6 DEF book
  <2>. QED BY <1>2, <1>3, <1>4, <2>2, <2>3, <2>4, DramServed
<1>7. CASE hit = {}
  <2>1. PICK y \in DramEvict(m, slot) : \E z \in NvmAccess(y) :
          x = DramServe(z, p, req, slot, z.persist[p])
    BY <1>1, <1>7
  <2>2. PICK z \in NvmAccess(y) : x = DramServe(z, p, req, slot, z.persist[p])
    BY <2>1
  <2>3. /\ IsMemory(y) /\ y.nvc = m.nvc /\ Books(y.persist)
        /\ GoodShared(y.dram, DramSlots, DramWays)
        /\ SameBut(m.dram, y.dram, DramSlots, slot)
    BY <1>4, DramEvicted
  <2>4. IsMemory(z) /\ z.nvc = y.nvc /\ z.dram = y.dram /\ Books(z.persist)
    BY <2>3, NvmAccessed
  <2>5. /\ GoodNvc(z.nvc) /\ z.nvc = m.nvc
        /\ GoodShared(z.dram, DramSlots, DramWays) /\ SameBut(m.dram, z.dram, DramSlots, slot)
    BY <1>2, <2>3, <2>4
  <2>. DEFINE book == z.persist[p]
              orig == m.dram
  <2>6. GoodBook(book)
    BY <2>4 DEF Books
  <2>7. /\ AtHome(orig, DramSlots, DramSets, DramWays) /\ DistinctOwned(orig, DramSlots)
        /\ SameBut(orig, z.dram, DramSlots, slot)
        /\ OnlyAt(orig, p, req.addr, DramSets, DramWays, slot)
    BY <1>3, <1>4, <2>5
  <2>8. x = DramServe(z, p, req, slot, book)
    BY <2>2
  <2>. HIDE DEF book, orig
  <2>. QED BY <1>4, <2>4, <2>5, <2>6, <2>7, <2>8, DramServed
<1>. QED BY <1>5, <1>6, <1>7

\* nvc_evict takes no line out of its place.
LEMMA NvcEvicted ==
  ASSUME NEW m, GoodMemory(m), NEW p \in Procs, NEW slot \in NvcSlots, NEW x \in NvcEvict(m, p, slot)
  PROVE  GoodMemory(x) /\ SameAddrs(m.nvc, x.nvc, NvcSlots) /\ SameOwners(m.nvc, x.nvc, NvcSlots)
<1>1. CASE x = m
  BY <1>1 DEF SameAddrs, SameOwners
<1>2. CASE x # m
  <2>. DEFINE victim == m.nvc[slot]
              req    == Writeback(victim)
  <2>1. GoodShared(m.nvc, NvcSlots, NvcWays)
    BY DEF GoodMemory, GoodNvc
  <2>2. GoodReq(req)
    <3>1. victim \in SharedLine(NvcWays) /\ GoodLine(victim)
      BY <2>1 DEF GoodShared
    <3>. QED BY <3>1, EpbWriteback
  <2>3. PICK y : /\ y \in DramAccess(m, p, req) \/ y \in NvmAccess(m)
                 /\ x = [y EXCEPT !.nvc = Invalidated(@, slot)]
    BY <1>2 DEF NvcEvict
  <2>. HIDE DEF req
  <2>4. GoodMemory(y) /\ y.nvc = m.nvc
    <3>1. CASE y \in DramAccess(m, p, req)
      BY <2>2, <3>1, DramAccessed
    <3>2. CASE y \in NvmAccess(m)
      <4>1. IsMemory(m) /\ Books(m.persist)
        BY DEF GoodMemory
      <4>2. IsMemory(y) /\ y.nvc = m.nvc /\ y.dram = m.dram /\ Books(y.persist)
        BY <3>2, <4>1, NvmAccessed
      <4>. QED BY <4>2 DEF GoodMemory
    <3>. QED BY <2>3, <3>1, <3>2
  <2>. DEFINE d == WithState(m.nvc, slot, "I")
  <2>5. "I" \in MESI
    BY DEF MESI
  <2>6. /\ GoodShared(d, NvcSlots, NvcWays)
        /\ SameAddrs(m.nvc, d, NvcSlots) /\ SameOwners(m.nvc, d, NvcSlots)
    BY <2>1, <2>5, SharedStateSet
  <2>7. x = [y EXCEPT !.nvc = d]
    BY <2>3, <2>4 DEF Invalidated, WithState
  <2>. HIDE DEF d
  <2>8. x = [nvc |-> d, dram |-> y.dram, persist |-> y.persist]
    BY <2>4, <2>7 DEF GoodMemory, IsMemory
  <2>9. GoodNvc(d)
    <3>1. AtHome(m.nvc, NvcSlots, NvcSets, NvcWays) /\ DistinctOwned(m.nvc, NvcSlots)
      BY DEF GoodMemory, GoodNvc
    <3>2. AtHome(d, NvcSlots, NvcSets, NvcWays)
      BY <2>6, <3>1, SamePlaces DEF SameAddrs
    <3>3. DistinctOwned(d, NvcSlots)
      BY <2>6, <3>1 DEF DistinctOwned, SameAddrs, SameOwners
    <3>. QED BY <2>6, <3>2, <3>3 DEF GoodNvc
  <2>. QED BY <2>4, <2>6, <2>8, <2>9 DEF GoodMemory, IsMemory
<1>. QED BY <1>1, <1>2

LEMMA NvcAccessed ==
  ASSUME NEW m, GoodMemory(m), NEW p \in Procs, NEW req, GoodReq(req), NEW x \in NvcAccess(m, p, req),
         \A i \in L2Slots : l2[p][i].tx \in AnyTx
  PROVE  GoodMemory(x)
<1>. DEFINE set  == SetSlots(req.addr, NvcSets, NvcWays)
            hit  == {i \in Holding(m.nvc, set, req.addr) : m.nvc[i].proc = p}
            slot == IF hit # {} THEN Min(hit) ELSE Victim(m.nvc, set)
<1>1. /\ hit # {} => \E tx \in L2TxAt(p, slot) :
                       x = NvcServe(m, p, req, slot, Resolved(m.persist[p], m.nvc[slot].tx, req, tx))
      /\ hit = {} => \E y \in NvcEvict(m, p, slot) : \E z \in DramAccess(y, p, req) :
                       x = NvcServe(z, p, req, slot, z.persist[p])
  BY DEF NvcAccess, EpbNvcAccess, BfNvcAccess, NvcLookup, NvcPreinsert, NvcSet
<1>2. GoodNvc(m.nvc) /\ Books(m.persist)
  BY DEF GoodMemory
<1>3. slot \in NvcSlots /\ OnlyAt(m.nvc, p, req.addr, NvcSets, NvcWays, slot)
  <2>. DEFINE cache == m.nvc
              addr  == req.addr
  <2>1. NvcSlots \subseteq Nat
    BY Ways
  <2>2. SetSlots(addr, NvcSets, NvcWays) \subseteq NvcSlots /\ SetSlots(addr, NvcSets, NvcWays) # {}
    BY SetsInside DEF GoodReq, ReqType
  <2>3. GoodShared(cache, NvcSlots, NvcWays) /\ DistinctOwned(cache, NvcSlots)
    BY <1>2 DEF GoodNvc
  <2>4. slot = PlaceOf(cache, p, addr, NvcSets, NvcWays)
    BY DEF PlaceOf
  <2>. HIDE DEF cache, addr, slot
  <2>5. slot \in NvcSlots /\ OnlyAt(cache, p, addr, NvcSets, NvcWays, slot)
    BY <2>1, <2>2, <2>3, <2>4, SharedSlot
  <2>. QED BY <2>5 DEF cache, addr
<1>4. SetSlots(req.addr, NvcSets, NvcWays) \subseteq NvcSlots
  BY SetsInside DEF GoodReq, ReqType
<1>5. hit # {} \/ hit = {}
  OBVIOUS
<1>. HIDE DEF slot, hit
<1>6. CASE hit # {}
  <2>1. PICK tx \in L2TxAt(p, slot) :
          x = NvcServe(m, p, req, slot, Resolved(m.persist[p], m.nvc[slot].tx, req, tx))
    BY <1>1, <1>6
  <2>2. tx \in AnyTx
    BY <2>1 DEF L2TxAt
  <2>. DEFINE book == Resolved(m.persist[p], m.nvc[slot].tx, req, tx)
  <2>3. GoodBook(book)
    BY <1>2, <2>2, ResolvedBook DEF Books
  <2>4. x = NvcServe(m, p, req, slot, book)
    BY <2>1
  <2>. HIDE DEF book
  <2>. QED BY <1>3, <2>3, <2>4, NvcServed
<1>7. CASE hit = {}
  <2>1. PICK y \in NvcEvict(m, p, slot) : \E z \in DramAccess(y, p, req) :
          x = NvcServe(z, p, req, slot, z.persist[p])
    BY <1>1, <1>7
  <2>2. PICK z \in DramAccess(y, p, req) : x = NvcServe(z, p, req, slot, z.persist[p])
    BY <2>1
  <2>3. GoodMemory(y) /\ SameAddrs(m.nvc, y.nvc, NvcSlots) /\ SameOwners(m.nvc, y.nvc, NvcSlots)
    BY <1>3, NvcEvicted
  <2>4. GoodMemory(z) /\ z.nvc = y.nvc
    BY <2>3, DramAccessed
  <2>5. OnlyAt(z.nvc, p, req.addr, NvcSets, NvcWays, slot)
    BY <1>3, <1>4, <2>3, <2>4 DEF OnlyAt, Holding, SameAddrs, SameOwners
  <2>. DEFINE book == z.persist[p]
  <2>6. GoodBook(book)
    BY <2>4 DEF GoodMemory, Books
  <2>7. x = NvcServe(z, p, req, slot, book)
    BY <2>2
  <2>. HIDE DEF book
  <2>. QED BY <1>3, <2>4, <2>5, <2>6, <2>7, NvcServed
<1>. QED BY <1>5, <1>6, <1>7

-----------------------------------------------------------------------------
(* EPB and EPB_BF: the inductive invariant *)

EpbPrivate(q) ==
  /\ GoodPrivate(l1[q], L1Slots, L1Ways) /\ GoodPrivate(l2[q], L2Slots, L2Ways)
  /\ GoodReq(l1call[q].req) /\ GoodReq(l2call[q].req)
  /\ L1Home(q) /\ L2Home(q)

EpbShared == GoodNvc(nvc) /\ GoodDram(dram) /\ HeldBooks(persist)

EpbTrax == persistent \in [Procs -> BOOLEAN] /\ txId \in [Procs -> Txs]

EpbInv ==
  /\ TypeOK
  /\ \A q \in Procs : EpbPrivate(q)
  /\ EpbShared

\* It implies what the runs check of these two.
LEMMA EpbInvImplies ==
  EpbInv => TypeOK /\ PBDistinct /\ (numProcs = 1 => PBWhole) /\ TagsAgree /\ CachesUnique
<1>. SUFFICES ASSUME EpbInv
     PROVE  TypeOK /\ PBDistinct /\ (numProcs = 1 => PBWhole) /\ TagsAgree /\ CachesUnique
  OBVIOUS
<1>1. TypeOK
  BY DEF EpbInv
<1>2. \A q \in Procs : EpbPrivate(q)
  BY DEF EpbInv
<1>3. GoodNvc(nvc) /\ GoodDram(dram) /\ HeldBooks(persist)
  BY DEF EpbInv, EpbShared
<1>4. PBDistinct
  BY <1>3 DEF HeldBooks, HeldBook, GoodPB, PBDistinct
<1>5. TagsAgree
  <2>1. ASSUME NEW q \in Procs
        PROVE  /\ \A i \in L1Slots : LineOK(l1[q][i])
               /\ \A i \in L2Slots : LineOK(l2[q][i])
               /\ \A i \in PBLines : persist[q].pb[i].addr < StackBase
    <3>1. /\ \A i \in L1Slots : LineOK(l1[q][i])
          /\ \A i \in L2Slots : LineOK(l2[q][i])
      BY <1>2 DEF EpbPrivate, GoodPrivate, GoodLine
    <3>2. \A i \in PBLines : persist[q].pb[i].addr < StackBase
      BY <1>3 DEF HeldBooks, HeldBook, GoodPB
    <3>. QED BY <3>1, <3>2
  <2>2. /\ \A i \in NvcSlots : LineOK(nvc[i])
        /\ \A i \in DramSlots : LineOK(dram[i])
    BY <1>3 DEF GoodNvc, GoodDram, GoodShared, GoodLine
  <2>. QED BY <2>1, <2>2 DEF TagsAgree
<1>6. CachesUnique
  <2>1. \A q \in Procs : Distinct(l1[q], L1Slots) /\ Distinct(l2[q], L2Slots)
    BY <1>2 DEF EpbPrivate, L1Home, L2Home
  <2>2. DistinctOwned(nvc, NvcSlots) /\ DistinctOwned(dram, DramSlots)
    BY <1>3 DEF GoodNvc, GoodDram
  <2>. QED BY <2>1, <2>2 DEF CachesUnique, Distinct, DistinctOwned
<1>7. numProcs = 1 => PBWhole
  BY <1>3 DEF HeldBooks, HeldBook, WholeBook, WholeEntry, PBWhole
<1>. QED BY <1>1, <1>4, <1>5, <1>6, <1>7

\* The state of Epb, typed.
LEMMA EpbTypes ==
  ASSUME EpbInv
  PROVE  /\ \A q \in Procs : /\ GoodPrivate(l1[q], L1Slots, L1Ways)
                             /\ GoodPrivate(l2[q], L2Slots, L2Ways)
                             /\ l1call[q] \in FrameType(L1Slots) /\ GoodReq(l1call[q].req)
                             /\ l2call[q] \in FrameType(L2Slots) /\ GoodReq(l2call[q].req)
                             /\ HeldBook(persist[q])
         /\ EpbTrax /\ EpbShared
         /\ DOMAIN l1 = Procs /\ DOMAIN l2 = Procs /\ DOMAIN l1call = Procs
         /\ DOMAIN l2call = Procs
BY DEF EpbInv, TypeOK, EpbPrivate, EpbTrax, EpbShared, HeldBooks

LEMMA EpbKept ==
  ASSUME EpbInv, NEW p \in Procs
  PROVE  /\ l1 = [l1 EXCEPT ![p] = l1[p]] /\ l2 = [l2 EXCEPT ![p] = l2[p]]
         /\ l1call = [l1call EXCEPT ![p] = l1call[p]] /\ l2call = [l2call EXCEPT ![p] = l2call[p]]
BY DEF EpbInv, TypeOK

\* What one process does keeps the invariant if it keeps its own part and the
\* shared one.
LEMMA EpbStep ==
  ASSUME EpbInv, NEW p \in Procs, NEW c1, NEW c2, NEW f1, NEW f2,
         l1' = [l1 EXCEPT ![p] = c1], l2' = [l2 EXCEPT ![p] = c2],
         l1call' = [l1call EXCEPT ![p] = f1], l2call' = [l2call EXCEPT ![p] = f2], arch' = arch,
         GoodPrivate(c1, L1Slots, L1Ways), GoodPrivate(c2, L2Slots, L2Ways),
         f1 \in FrameType(L1Slots), GoodReq(f1.req), f2 \in FrameType(L2Slots), GoodReq(f2.req),
         L1Home(p)', L2Home(p)', EpbShared', EpbTrax'
  PROVE  EpbInv'
<1>1. TypeOK'
  <2>1. /\ l1' \in [Procs -> [L1Slots -> PrivateLine(L1Ways)]]
        /\ l2' \in [Procs -> [L2Slots -> PrivateLine(L2Ways)]]
        /\ arch' \in Archs
    BY DEF EpbInv, TypeOK, GoodPrivate
  <2>2. /\ nvc' \in [NvcSlots -> SharedLine(NvcWays)]
        /\ dram' \in [DramSlots -> SharedLine(DramWays)]
        /\ persist' \in [Procs -> BookType]
    BY DEF EpbShared, GoodNvc, GoodDram, GoodShared, HeldBooks
  <2>3. l1call' \in [Procs -> FrameType(L1Slots)] /\ l2call' \in [Procs -> FrameType(L2Slots)]
    BY DEF EpbInv, TypeOK
  <2>. QED BY <2>1, <2>2, <2>3 DEF TypeOK, EpbTrax
<1>2. ASSUME NEW q \in Procs, q # p
      PROVE  EpbPrivate(q)'
  <2>1. l1'[q] = l1[q] /\ l2'[q] = l2[q] /\ l1call'[q] = l1call[q] /\ l2call'[q] = l2call[q]
    BY <1>2, EpbTypes
  <2>2. EpbPrivate(q)
    BY DEF EpbInv
  <2>3. (L1Home(q) <=> L1Home(q)') /\ (L2Home(q) <=> L2Home(q)')
    BY <2>1 DEF L1Home, L2Home
  <2>. QED BY <2>1, <2>2, <2>3 DEF EpbPrivate
<1>3. l1'[p] = c1 /\ l2'[p] = c2 /\ l1call'[p] = f1 /\ l2call'[p] = f2
  BY EpbTypes
<1>4. EpbPrivate(p)'
  BY <1>3 DEF EpbPrivate
<1>. QED BY <1>1, <1>2, <1>4 DEF EpbInv

\* The same in terms of memories.
LEMMA MemoryGood ==
  /\ \A p \in Procs : EpbShared /\ ~Storing(persist[p]) => GoodMemory(Memory)
  /\ \A m : GoodMemory(m) /\ MemoryIs(m) => EpbShared'
BY BooksFree DEF EpbShared, GoodMemory, IsMemory, Memory, MemoryIs

\* Its own book is one of them.
LEMMA BookFree ==
  ASSUME EpbInv, NEW p \in Procs, ~Storing(persist[p])
  PROVE  GoodBook(persist[p])
BY EpbTypes DEF GoodBook

LEMMA EpbFrames ==
  /\ Returned \in FrameType(L1Slots) /\ Returned \in FrameType(L2Slots)
  /\ Returned.stage = "idle" /\ GoodReq(Returned.req)
  /\ \A req : GoodReq(req) => /\ Entered(req) \in FrameType(L1Slots)
                              /\ Entered(req) \in FrameType(L2Slots)
                              /\ Entered(req).stage = "enter" /\ Entered(req).req = req
<1>1. 0 \in L1Slots /\ 0 \in L2Slots
  BY NativeFrames DEF V!Returned, V!Frame, V!Request, V!FrameType
<1>2. GoodReq(Volatile(0, "GETS"))
  BY DEF GoodReq, ReqType, Volatile, Request, AccessTypes
<1>3. \A req : GoodReq(req) => req \in ReqType
  BY DEF GoodReq
<1>. QED BY <1>1, <1>2, <1>3 DEF Returned, Entered, Frame, FrameType, Stages

LEMMA EpbFrameIs ==
  ASSUME NEW req, GoodReq(req), NEW slot, NEW stage \in Stages
  PROVE  /\ Frame(req, slot, stage).req = req /\ Frame(req, slot, stage).slot = slot
         /\ Frame(req, slot, stage).stage = stage
         /\ slot \in L1Slots => Frame(req, slot, stage) \in FrameType(L1Slots)
         /\ slot \in L2Slots => Frame(req, slot, stage) \in FrameType(L2Slots)
BY DEF Frame, FrameType, GoodReq

-----------------------------------------------------------------------------
(* EPB and EPB_BF: the steps of the program and of L1 *)

\* The transaction markers of any architecture.
LEMMA MarksTyped ==
  ASSUME EpbTrax, NEW p \in Procs, StartTx(p) \/ EndTx(p)
  PROVE  EpbTrax' /\ UNCHANGED <<arch, persist>>
<1>1. UNCHANGED <<arch, persist>>
  BY DEF StartTx, EndTx, shared
<1>2. CASE StartTx(p)
  BY <1>1, <1>2 DEF StartTx, EpbTrax
<1>3. CASE EndTx(p)
  <2>1. txId[p] \in Txs /\ txId[p] < TxBound
    BY <1>3 DEF EndTx, EpbTrax
  <2>2. txId[p] + 1 \in Txs
    BY <2>1, EpbAssumption DEF Txs
  <2>. QED BY <1>1, <1>3, <2>2 DEF EndTx, EpbTrax
<1>. QED BY <1>1, <1>2, <1>3

LEMMA EpbMark ==
  ASSUME EpbInv, NEW p \in Procs, StartTx(p) \/ EndTx(p)
  PROVE  EpbInv'
<1>1. UNCHANGED <<arch, l1, l2, nvc, dram, persist, l1call, l2call>>
  BY DEF StartTx, EndTx, shared
<1>2. EpbTrax'
  BY EpbTypes, MarksTyped
<1>3. L1Home(p)' /\ L2Home(p)' /\ EpbShared'
  BY <1>1 DEF EpbInv, EpbPrivate, L1Home, L2Home, EpbShared
<1>4. /\ l1' = [l1 EXCEPT ![p] = l1[p]] /\ l2' = [l2 EXCEPT ![p] = l2[p]]
      /\ l1call' = [l1call EXCEPT ![p] = l1call[p]] /\ l2call' = [l2call EXCEPT ![p] = l2call[p]]
  BY <1>1, EpbKept
<1>. QED BY <1>1, <1>2, <1>3, <1>4, EpbTypes, EpbStep

LEMMA EpbEnter ==
  ASSUME EpbInv, NEW p \in Procs, NEW req, GoodReq(req), L1Enter(p, req)
  PROVE  EpbInv'
<1>. DEFINE r  == IF Persistent(req) /\ req.epoch < persist[p].oldest
                  THEN Volatile(req.addr, req.type) ELSE req
            f1 == Entered(r)
<1>1. /\ l1call[p].stage = "idle" /\ l1call' = [l1call EXCEPT ![p] = f1]
      /\ UNCHANGED <<arch, l1, l2, nvc, dram, persist, persistent, txId, l2call>>
  BY DEF L1Enter, Idle, shared, trax
<1>2. GoodReq(r)
  BY DEF GoodReq, ReqType, Volatile, Request
<1>. HIDE DEF r
<1>3. f1 \in FrameType(L1Slots) /\ GoodReq(f1.req) /\ f1.stage = "enter"
  BY <1>2, EpbFrames
<1>. HIDE DEF f1
<1>4. l1call'[p] = f1
  BY <1>1, EpbTypes
<1>5. L1Home(p)' /\ L2Home(p)' /\ EpbShared' /\ EpbTrax'
  <2>1. EpbPrivate(p) /\ EpbShared /\ EpbTrax
    BY EpbTypes DEF EpbInv
  <2>2. L1Home(p)'
    BY <1>1, <1>3, <1>4, <2>1 DEF EpbPrivate, L1Home
  <2>3. L2Home(p)'
    BY <1>1, <2>1 DEF EpbPrivate, L2Home
  <2>4. EpbShared' /\ EpbTrax'
    BY <1>1, <2>1 DEF EpbShared, EpbTrax
  <2>. QED BY <2>2, <2>3, <2>4
<1>6. /\ l1' = [l1 EXCEPT ![p] = l1[p]] /\ l2' = [l2 EXCEPT ![p] = l2[p]]
      /\ l2call' = [l2call EXCEPT ![p] = l2call[p]]
  BY <1>1, EpbKept
<1>. QED BY <1>1, <1>3, <1>5, <1>6, EpbTypes, EpbStep

LEMMA EpbProgram ==
  ASSUME EpbInv, NEW p \in Procs, Program(p)
  PROVE  EpbInv'
<1>1. CASE StartTx(p) \/ EndTx(p)
  BY <1>1, EpbMark
<1>2. ASSUME NEW addr \in Addrs, RecordMemRead(p, addr)
      PROVE  EpbInv'
  <2>1. GoodReq(Volatile(addr, "GETS"))
    BY DEF GoodReq, ReqType, Volatile, Request, AccessTypes
  <2>. QED BY <1>2, <2>1, EpbEnter DEF RecordMemRead
<1>3. ASSUME NEW addr \in Addrs, RecordMemWrite(p, addr)
      PROVE  EpbInv'
  <2>. DEFINE epoch == IF PersistentStore(p, addr) THEN txId[p] ELSE NoTx
              req   == Request(addr, "GETX", epoch, NoLine)
  <2>1. epoch \in Txs \cup {NoTx} /\ (epoch # NoTx => addr < StackBase)
    <3>1. txId[p] \in Txs
      BY EpbTypes DEF EpbTrax
    <3>. QED BY <3>1 DEF PersistentStore
  <2>. HIDE DEF epoch
  <2>2. GoodReq(req)
    BY <2>1 DEF GoodReq, ReqType, Request, AccessTypes
  <2>3. L1Enter(p, req)
    BY <1>3 DEF RecordMemWrite, epoch
  <2>. HIDE DEF req
  <2>. QED BY <2>2, <2>3, EpbEnter
<1>. QED BY <1>1, <1>2, <1>3 DEF Program

\* Slot is in the set of addr, and no other slot has the line.
Alone(cache, addr, sets, ways, slot) ==
  /\ slot \in SetSlots(addr, sets, ways)
  /\ addr # 0 => \A j \in Holding(cache, SetSlots(addr, sets, ways), addr) : j = slot

\* A private cache after an access.
Renewed(cache, sets, ways, slot, req, book) ==
  Tagged(PostInsert(cache, SetSlots(req.addr, sets, ways), ways, slot, req), slot, Tag(book.next, req))

LEMMA PrivateServed ==
  ASSUME NEW S, NEW sets, NEW ways \in Nat, NEW slot \in S, NEW req, GoodReq(req),
         NEW book, GoodBook(book),
         NEW cache, GoodPrivate(cache, S, ways), AtHome(cache, S, sets, ways), Distinct(cache, S),
         Alone(cache, req.addr, sets, ways, slot)
  PROVE  LET new == Renewed(cache, sets, ways, slot, req, book)
         IN  GoodPrivate(new, S, ways) /\ AtHome(new, S, sets, ways) /\ Distinct(new, S)
<1>. DEFINE tag == Tag(book.next, req)
            set == SetSlots(req.addr, sets, ways)
            new == Tagged(PostInsert(cache, set, ways, slot, req), slot, tag)
<1>1. GoodTag(tag) /\ tag.tx = req.epoch
  BY Served
<1>. HIDE DEF tag, set
<1>2. GoodPrivate(new, S, ways) /\ Moved(cache, new, S, slot, req)
  BY <1>1, PrivateFilled
<1>3. new = Renewed(cache, sets, ways, slot, req, book)
  BY DEF Renewed, tag, set
<1>. HIDE DEF new
<1>4. AtHome(new, S, sets, ways) /\ Distinct(new, S)
  BY <1>2, Placed DEF Moved, Alone
<1>. QED BY <1>2, <1>3, <1>4

\* What a search that hits finds, and what a search that misses leaves free.
LEMMA HitAlone ==
  ASSUME NEW cache, NEW S, NEW addr, NEW sets, NEW ways, S \subseteq Nat,
         SetSlots(addr, sets, ways) \subseteq S, Distinct(cache, S),
         Holding(cache, SetSlots(addr, sets, ways), addr) # {}
  PROVE  LET slot == Min(Holding(cache, SetSlots(addr, sets, ways), addr))
         IN  slot \in S /\ Alone(cache, addr, sets, ways, slot)
<1>. DEFINE set  == SetSlots(addr, sets, ways)
            slot == Min(Holding(cache, set, addr))
<1>1. slot \in Holding(cache, set, addr) /\ (addr # 0 => \A j \in Holding(cache, set, addr) : j = slot)
  <2>. HIDE DEF set
  <2>. QED BY HitIs DEF set
<1>. QED BY <1>1 DEF Alone, Holding

LEMMA MissAlone ==
  ASSUME NEW cache, NEW S, NEW addr, NEW sets, NEW ways, S \subseteq Nat, NEW lineWays,
         SetSlots(addr, sets, ways) \subseteq S, SetSlots(addr, sets, ways) # {},
         GoodPrivate(cache, S, lineWays)
  PROVE  LET slot == Victim(cache, SetSlots(addr, sets, ways))
         IN  slot \in S /\ slot \in SetSlots(addr, sets, ways)
<1>1. \A i \in S : cache[i].ts \in Nat
  BY DEF GoodPrivate, PrivateLine
<1>. DEFINE set == SetSlots(addr, sets, ways)
<1>2. set \subseteq Nat /\ set # {} /\ \A i \in set : cache[i].ts \in Nat
  BY <1>1
<1>3. Victim(cache, set) \in set
  BY <1>2, VictimIn
<1>. QED BY <1>3

\* l1_access ends.
LEMMA EpbL1Served ==
  ASSUME EpbInv, NEW p \in Procs, NEW req, GoodReq(req), NEW slot \in L1Slots,
         Alone(l1[p], req.addr, L1Sets, L1Ways, slot),
         NEW book, GoodBook(book), L1Serve(p, req, slot, book),
         UNCHANGED <<arch, l2, nvc, dram, trax, l2call>>
  PROVE  EpbInv'
<1>. DEFINE c1   == Renewed(l1[p], L1Sets, L1Ways, slot, req, book)
            next == Booking(book, req)
            f1   == Returned
<1>1. /\ l1' = [l1 EXCEPT ![p] = c1] /\ persist' = [persist EXCEPT ![p] = next]
      /\ l1call' = [l1call EXCEPT ![p] = f1]
      /\ UNCHANGED <<arch, l2, nvc, dram, persistent, txId, l2call>>
  BY DEF L1Serve, L1Set, Renewed, trax
<1>2. EpbPrivate(p) /\ EpbShared /\ EpbTrax
  BY EpbTypes DEF EpbInv
<1>3. /\ GoodPrivate(c1, L1Slots, L1Ways)
      /\ AtHome(c1, L1Slots, L1Sets, L1Ways) /\ Distinct(c1, L1Slots)
  <2>. DEFINE cache == l1[p]
  <2>1. /\ GoodPrivate(cache, L1Slots, L1Ways) /\ L1Ways \in Nat
        /\ AtHome(cache, L1Slots, L1Sets, L1Ways) /\ Distinct(cache, L1Slots)
        /\ Alone(cache, req.addr, L1Sets, L1Ways, slot)
    BY <1>2, Ways DEF EpbPrivate, L1Home
  <2>. HIDE DEF cache
  <2>2. LET new == Renewed(cache, L1Sets, L1Ways, slot, req, book)
        IN  GoodPrivate(new, L1Slots, L1Ways) /\ AtHome(new, L1Slots, L1Sets, L1Ways) /\ Distinct(new, L1Slots)
    BY <2>1, PrivateServed
  <2>. QED BY <2>2 DEF cache
<1>4. HeldBook(next)
  BY Served
<1>5. f1 \in FrameType(L1Slots) /\ GoodReq(f1.req) /\ f1.stage = "idle"
  BY EpbFrames
<1>. HIDE DEF c1, next, f1
<1>6. l1'[p] = c1 /\ l1call'[p] = f1
  BY <1>1, EpbTypes
<1>7. L1Home(p)' /\ L2Home(p)'
  BY <1>1, <1>2, <1>3, <1>5, <1>6 DEF EpbPrivate, L1Home, L2Home
<1>8. EpbShared' /\ EpbTrax'
  BY <1>1, <1>2, <1>4, BooksPut DEF EpbShared, EpbTrax
<1>9. /\ l2' = [l2 EXCEPT ![p] = l2[p]] /\ l2call' = [l2call EXCEPT ![p] = l2call[p]]
  BY <1>1, EpbKept
<1>. QED BY <1>1, <1>3, <1>5, <1>7, <1>8, <1>9, EpbTypes, EpbStep

LEMMA EpbL1Hit ==
  ASSUME EpbInv, NEW p \in Procs, ~Storing(persist[p]), L1Hit(p)
  PROVE  EpbInv'
<1>1. PICK req : GoodReq(req) /\ req = l1call[p].req
  BY EpbTypes
<1>. DEFINE slot == Min(Holding(l1[p], SetSlots(req.addr, L1Sets, L1Ways), req.addr))
            book == Resolved(persist[p], l1[p][slot].tx, req, l2[p][slot].tx)
<1>2. /\ Holding(l1[p], SetSlots(req.addr, L1Sets, L1Ways), req.addr) # {}
      /\ L1Serve(p, req, slot, book)
      /\ UNCHANGED <<arch, l2, nvc, dram, trax, l2call>>
  BY <1>1 DEF L1Hit, L1Lookup, L1Set
<1>3. slot \in L1Slots /\ Alone(l1[p], req.addr, L1Sets, L1Ways, slot)
  <2>1. Distinct(l1[p], L1Slots)
    BY DEF EpbInv, EpbPrivate, L1Home
  <2>2. SetSlots(req.addr, L1Sets, L1Ways) \subseteq L1Slots
    <3>1. req.addr \in Addrs \cup {0}
      BY <1>1 DEF GoodReq, ReqType
    <3>. QED BY <3>1, SetsInside DEF L1SetOf
  <2>. QED BY <1>2, <2>1, <2>2, Ways, HitAlone
<1>. HIDE DEF slot
<1>4. slot \in L2Slots
  BY <1>3, EpbAssumption, GeometryAssumption DEF L1Slots, L2Slots
<1>5. l2[p][slot].tx \in AnyTx
  BY <1>4, EpbTypes, TxFacts DEF GoodPrivate, PrivateLine
<1>6. GoodBook(book)
  BY <1>5, BookFree, ResolvedBook
<1>. HIDE DEF book
<1>. QED BY <1>1, <1>2, <1>3, <1>6, EpbL1Served

LEMMA EpbL1Fetched ==
  ASSUME EpbInv, NEW p \in Procs, ~Storing(persist[p]), L1Fetched(p)
  PROVE  EpbInv'
<1>1. PICK req : GoodReq(req) /\ req = l1call[p].req
  BY EpbTypes
<1>2. PICK slot \in L1Slots : slot = l1call[p].slot
  BY EpbTypes DEF FrameType
<1>. DEFINE book == persist[p]
<1>3. /\ l1call[p].stage = "fetching" /\ L1Serve(p, req, slot, book)
      /\ UNCHANGED <<arch, l2, nvc, dram, trax, l2call>>
  BY <1>1, <1>2 DEF L1Fetched
<1>4. Alone(l1[p], req.addr, L1Sets, L1Ways, slot)
  BY <1>1, <1>2, <1>3 DEF EpbInv, EpbPrivate, L1Home, Alone, L1SetOf
<1>5. GoodBook(book)
  BY BookFree
<1>. HIDE DEF book
<1>. QED BY <1>1, <1>3, <1>4, <1>5, EpbL1Served

\* l1_access calls l2_access: only the frames, and states, change.
LEMMA EpbL1Calls ==
  ASSUME EpbInv, NEW p \in Procs, NEW c1, NEW c2, NEW f1, NEW sub, GoodReq(sub),
         l1' = [l1 EXCEPT ![p] = c1], GoodPrivate(c1, L1Slots, L1Ways), SameAddrs(l1[p], c1, L1Slots),
         l2' = [l2 EXCEPT ![p] = c2], GoodPrivate(c2, L2Slots, L2Ways), SameAddrs(l2[p], c2, L2Slots),
         l1call' = [l1call EXCEPT ![p] = f1], f1 \in FrameType(L1Slots), GoodReq(f1.req),
         l2call' = [l2call EXCEPT ![p] = Entered(sub)],
         UNCHANGED <<arch, nvc, dram, persist, persistent, txId>>,
         f1.slot \in L1SetOf(f1.req.addr),
         Holding(l1[p], L1SetOf(f1.req.addr), f1.req.addr) = {}
  PROVE  EpbInv'
<1>. DEFINE f2 == Entered(sub)
<1>1. /\ f2 \in FrameType(L2Slots) /\ GoodReq(f2.req) /\ f2.stage = "enter"
      /\ l2call' = [l2call EXCEPT ![p] = f2]
  BY EpbFrames
<1>. HIDE DEF f2
<1>2. l1'[p] = c1 /\ l2'[p] = c2 /\ l1call'[p] = f1 /\ l2call'[p] = f2
  BY <1>1, EpbTypes
<1>3. EpbPrivate(p) /\ EpbShared /\ EpbTrax
  BY EpbTypes DEF EpbInv
<1>4. L1Home(p)'
  <2>1. AtHome(c1, L1Slots, L1Sets, L1Ways) /\ Distinct(c1, L1Slots)
    BY <1>3, SamePlaces DEF EpbPrivate, L1Home, SameAddrs
  <2>2. L1SetOf(f1.req.addr) \subseteq L1Slots
    BY SetsInside DEF GoodReq, ReqType
  <2>3. Holding(c1, L1SetOf(f1.req.addr), f1.req.addr) = {}
    BY <2>2 DEF Holding, SameAddrs
  <2>. QED BY <1>2, <2>1, <2>3 DEF L1Home
<1>5. L2Home(p)'
  <2>1. AtHome(c2, L2Slots, L2Sets, L2Ways) /\ Distinct(c2, L2Slots)
    BY <1>3, SamePlaces DEF EpbPrivate, L2Home, SameAddrs
  <2>. QED BY <1>1, <1>2, <2>1 DEF L2Home
<1>6. EpbShared' /\ EpbTrax'
  BY <1>3 DEF EpbShared, EpbTrax
<1>. QED BY <1>1, <1>4, <1>5, <1>6, EpbStep

LEMMA EpbL1Miss ==
  ASSUME EpbInv, NEW p \in Procs, L1Miss(p)
  PROVE  EpbInv'
<1>1. PICK req : GoodReq(req) /\ req = l1call[p].req
  BY EpbTypes
<1>. DEFINE slot   == Victim(l1[p], SetSlots(req.addr, L1Sets, L1Ways))
            victim == l1[p][slot]
<1>2. /\ Holding(l1[p], L1SetOf(req.addr), req.addr) = {}
      /\ \/ /\ l1call' = [l1call EXCEPT ![p] = Frame(req, slot, "fetching")]
            /\ l2call' = [l2call EXCEPT ![p] = Entered(req)]
         \/ /\ l1call' = [l1call EXCEPT ![p] = Frame(req, slot, "evicting")]
            /\ l2call' = [l2call EXCEPT ![p] = Entered(Writeback(victim))]
      /\ UNCHANGED <<arch, l1, l2, nvc, dram, persist, persistent, txId>>
  BY <1>1 DEF L1Miss, L1Lookup, L1Preinsert, L1Set, L1SetOf, shared, trax
<1>3. GoodPrivate(l1[p], L1Slots, L1Ways) /\ GoodPrivate(l2[p], L2Slots, L2Ways)
  BY EpbTypes
<1>4. slot \in L1Slots /\ slot \in L1SetOf(req.addr)
  <2>1. req.addr \in Addrs \cup {0}
    BY <1>1 DEF GoodReq, ReqType
  <2>2. SetSlots(req.addr, L1Sets, L1Ways) \subseteq L1Slots /\ SetSlots(req.addr, L1Sets, L1Ways) # {}
    BY <2>1, SetsInside DEF L1SetOf
  <2>3. slot \in L1Slots /\ slot \in SetSlots(req.addr, L1Sets, L1Ways)
    BY <1>3, <2>2, Ways, MissAlone
  <2>. QED BY <2>3 DEF L1SetOf
<1>. HIDE DEF slot
<1>5. GoodReq(Writeback(victim))
  <2>1. victim \in PrivateLine(L1Ways) /\ GoodLine(victim)
    BY <1>3, <1>4 DEF GoodPrivate
  <2>. QED BY <2>1, EpbWriteback
<1>6. /\ l1' = [l1 EXCEPT ![p] = l1[p]] /\ l2' = [l2 EXCEPT ![p] = l2[p]]
      /\ SameAddrs(l1[p], l1[p], L1Slots) /\ SameAddrs(l2[p], l2[p], L2Slots)
  BY <1>2, EpbKept DEF SameAddrs
<1>7. PICK stage, sub :
        /\ stage \in {"fetching", "evicting"} /\ GoodReq(sub)
        /\ l1call' = [l1call EXCEPT ![p] = Frame(req, slot, stage)]
        /\ l2call' = [l2call EXCEPT ![p] = Entered(sub)]
  BY <1>1, <1>2, <1>5
<1>. DEFINE f1 == Frame(req, slot, stage)
<1>8. f1 \in FrameType(L1Slots) /\ f1.req = req /\ f1.slot = slot
  BY <1>1, <1>4, <1>7, EpbFrameIs DEF Stages
<1>. HIDE DEF f1
<1>9. l1call' = [l1call EXCEPT ![p] = f1]
  BY <1>7 DEF f1
<1>10. /\ f1.slot \in L1SetOf(f1.req.addr) /\ GoodReq(f1.req)
       /\ Holding(l1[p], L1SetOf(f1.req.addr), f1.req.addr) = {}
  BY <1>1, <1>2, <1>4, <1>8
<1>11. UNCHANGED <<arch, nvc, dram, persist, persistent, txId>>
  BY <1>2
<1>. QED BY <1>3, <1>6, <1>7, <1>8, <1>9, <1>10, <1>11, EpbL1Calls

\* l1_evict returns, having invalidated a slot of one cache or the other.
LEMMA EpbL1EvictedKeeps ==
  ASSUME EpbInv, NEW p \in Procs, EpbL1Evicted(p) \/ BfL1Evicted(p)
  PROVE  EpbInv'
<1>1. PICK req : GoodReq(req) /\ req = l1call[p].req
  BY EpbTypes
<1>2. PICK slot \in L1Slots : slot = l1call[p].slot
  BY EpbTypes DEF FrameType
<1>. DEFINE f1 == [l1call[p] EXCEPT !.stage = "fetching"]
            d1 == WithState(l1[p], slot, "I")
            d2 == WithState(l2[p], slot, "I")
<1>3. /\ l1call[p].stage = "evicting"
      /\ l1call' = [l1call EXCEPT ![p] = f1]
      /\ l2call' = [l2call EXCEPT ![p] = Entered(req)]
      /\ UNCHANGED <<arch, nvc, dram, persist, persistent, txId>>
  BY <1>1 DEF EpbL1Evicted, BfL1Evicted, L1FetchNext, shared, trax
<1>4. \/ l1' = l1 /\ l2' = [l2 EXCEPT ![p] = d2]
      \/ l1' = [l1 EXCEPT ![p] = d1] /\ l2' = l2
  BY <1>2 DEF EpbL1Evicted, BfL1Evicted, Invalidated, WithState
<1>5. f1 \in FrameType(L1Slots) /\ f1.req = req /\ f1.slot = slot
  BY <1>1, <1>2, EpbTypes DEF FrameType, Stages
<1>6. /\ GoodPrivate(d1, L1Slots, L1Ways) /\ SameAddrs(l1[p], d1, L1Slots)
      /\ GoodPrivate(d2, L2Slots, L2Ways) /\ SameAddrs(l2[p], d2, L2Slots)
  <2>1. slot \in L2Slots /\ "I" \in MESI
    BY EpbAssumption, GeometryAssumption DEF L1Slots, L2Slots, MESI
  <2>2. GoodPrivate(l1[p], L1Slots, L1Ways) /\ GoodPrivate(l2[p], L2Slots, L2Ways)
    BY EpbTypes
  <2>. QED BY <2>1, <2>2, PrivateStateSet
<1>. HIDE DEF f1, d1, d2
<1>7. /\ f1.slot \in L1SetOf(f1.req.addr) /\ GoodReq(f1.req)
      /\ Holding(l1[p], L1SetOf(f1.req.addr), f1.req.addr) = {}
  <2>1. L1Home(p)
    BY DEF EpbInv, EpbPrivate
  <2>. QED BY <1>1, <1>2, <1>3, <1>5, <2>1 DEF L1Home
<1>8. PICK c1, c2 :
        /\ l1' = [l1 EXCEPT ![p] = c1] /\ l2' = [l2 EXCEPT ![p] = c2]
        /\ GoodPrivate(c1, L1Slots, L1Ways) /\ SameAddrs(l1[p], c1, L1Slots)
        /\ GoodPrivate(c2, L2Slots, L2Ways) /\ SameAddrs(l2[p], c2, L2Slots)
  <2>1. /\ l1 = [l1 EXCEPT ![p] = l1[p]] /\ l2 = [l2 EXCEPT ![p] = l2[p]]
        /\ GoodPrivate(l1[p], L1Slots, L1Ways) /\ GoodPrivate(l2[p], L2Slots, L2Ways)
        /\ SameAddrs(l1[p], l1[p], L1Slots) /\ SameAddrs(l2[p], l2[p], L2Slots)
    BY EpbKept, EpbTypes DEF SameAddrs
  <2>. QED BY <1>4, <1>6, <2>1
<1>. QED BY <1>1, <1>3, <1>5, <1>7, <1>8, EpbL1Calls

-----------------------------------------------------------------------------
(* EPB and EPB_BF: the steps of L2 *)

\* l2_access ends.
LEMMA EpbL2Served ==
  ASSUME EpbInv, NEW p \in Procs, NEW req, GoodReq(req), NEW slot \in L2Slots,
         Alone(l2[p], req.addr, L2Sets, L2Ways, slot),
         NEW book, GoodBook(book), L2Serve(p, req, slot, book),
         UNCHANGED <<arch, l1, nvc, dram, trax, l1call>>
  PROVE  EpbInv'
<1>. DEFINE mid  == Renewed(l2[p], L2Sets, L2Ways, slot, req, book)
            next == Booking(book, req)
            f2   == Returned
<1>1. PICK state \in L2StatesAfter(p, slot, req.type) :
        /\ l2' = [l2 EXCEPT ![p] = WithState(mid, slot, state)]
        /\ persist' = [persist EXCEPT ![p] = next]
        /\ l2call' = [l2call EXCEPT ![p] = f2]
        /\ UNCHANGED <<arch, l1, nvc, dram, persistent, txId, l1call>>
  BY DEF L2Serve, L2Set, Renewed, trax, WithState
<1>2. EpbPrivate(p) /\ EpbShared /\ EpbTrax
  BY EpbTypes DEF EpbInv
<1>3. state \in MESI
  <2>1. l2[p][slot].state \in MESI /\ "E" \in MESI
    BY EpbTypes DEF GoodPrivate, PrivateLine, MESI
  <2>. QED BY <1>1, <2>1, StateAfterIn DEF L2StatesAfter, EpbL2StatesAfter, BfL2StatesAfter
<1>4. /\ GoodPrivate(mid, L2Slots, L2Ways)
      /\ AtHome(mid, L2Slots, L2Sets, L2Ways) /\ Distinct(mid, L2Slots)
  <2>. DEFINE cache == l2[p]
  <2>1. /\ GoodPrivate(cache, L2Slots, L2Ways) /\ L2Ways \in Nat
        /\ AtHome(cache, L2Slots, L2Sets, L2Ways) /\ Distinct(cache, L2Slots)
        /\ Alone(cache, req.addr, L2Sets, L2Ways, slot)
    BY <1>2, Ways DEF EpbPrivate, L2Home
  <2>. HIDE DEF cache
  <2>2. LET new == Renewed(cache, L2Sets, L2Ways, slot, req, book)
        IN  GoodPrivate(new, L2Slots, L2Ways) /\ AtHome(new, L2Slots, L2Sets, L2Ways) /\ Distinct(new, L2Slots)
    BY <2>1, PrivateServed
  <2>. QED BY <2>2 DEF cache
<1>5. HeldBook(next)
  BY Served
<1>6. f2 \in FrameType(L2Slots) /\ GoodReq(f2.req) /\ f2.stage = "idle"
  BY EpbFrames
<1>. HIDE DEF mid, next, f2
<1>. DEFINE c2 == WithState(mid, slot, state)
<1>7. GoodPrivate(c2, L2Slots, L2Ways) /\ SameAddrs(mid, c2, L2Slots)
  BY <1>3, <1>4, PrivateStateSet
<1>8. l2' = [l2 EXCEPT ![p] = c2]
  BY <1>1
<1>. HIDE DEF c2
<1>9. AtHome(c2, L2Slots, L2Sets, L2Ways) /\ Distinct(c2, L2Slots)
  BY <1>4, <1>7, SamePlaces DEF SameAddrs
<1>10. l2'[p] = c2 /\ l2call'[p] = f2
  BY <1>1, <1>8, EpbTypes
<1>11. L1Home(p)' /\ L2Home(p)'
  BY <1>1, <1>2, <1>6, <1>9, <1>10 DEF EpbPrivate, L1Home, L2Home
<1>12. EpbShared' /\ EpbTrax'
  BY <1>1, <1>2, <1>5, BooksPut DEF EpbShared, EpbTrax
<1>13. /\ l1' = [l1 EXCEPT ![p] = l1[p]] /\ l1call' = [l1call EXCEPT ![p] = l1call[p]]
  BY <1>1, EpbKept
<1>14. l2call' = [l2call EXCEPT ![p] = f2] /\ arch' = arch
  BY <1>1
<1>. QED BY <1>6, <1>7, <1>8, <1>11, <1>12, <1>13, <1>14, EpbTypes, EpbStep

LEMMA EpbL2Hit ==
  ASSUME EpbInv, NEW p \in Procs, ~Storing(persist[p]), L2Hit(p)
  PROVE  EpbInv'
<1>1. PICK req : GoodReq(req) /\ req = l2call[p].req
  BY EpbTypes
<1>2. SetSlots(req.addr, L2Sets, L2Ways) \subseteq L2Slots
  <2>1. req.addr \in Addrs \cup {0}
    BY <1>1 DEF GoodReq, ReqType
  <2>. QED BY <2>1, SetsInside DEF L2SetOf
<1>. DEFINE slot == Min(Holding(l2[p], SetSlots(req.addr, L2Sets, L2Ways), req.addr))
            book == Resolved(persist[p], l2[p][slot].tx, req, l2[p][slot].tx)
<1>3. /\ Holding(l2[p], SetSlots(req.addr, L2Sets, L2Ways), req.addr) # {}
      /\ L2Serve(p, req, slot, book)
      /\ UNCHANGED <<arch, l1, nvc, dram, trax, l1call>>
  BY <1>1 DEF L2Hit, L2Lookup, L2Set
<1>4. slot \in L2Slots /\ Alone(l2[p], req.addr, L2Sets, L2Ways, slot)
  <2>1. Distinct(l2[p], L2Slots)
    BY DEF EpbInv, EpbPrivate, L2Home
  <2>. QED BY <1>2, <1>3, <2>1, Ways, HitAlone
<1>. HIDE DEF slot
<1>5. l2[p][slot].tx \in AnyTx
  BY <1>4, EpbTypes, TxFacts DEF GoodPrivate, PrivateLine
<1>6. GoodBook(book)
  BY <1>5, BookFree, ResolvedBook
<1>. HIDE DEF book
<1>. QED BY <1>1, <1>3, <1>4, <1>6, EpbL2Served

LEMMA EpbL2Fetched ==
  ASSUME EpbInv, NEW p \in Procs, ~Storing(persist[p]), L2Fetched(p)
  PROVE  EpbInv'
<1>1. PICK req : GoodReq(req) /\ req = l2call[p].req
  BY EpbTypes
<1>2. PICK slot \in L2Slots : slot = l2call[p].slot
  BY EpbTypes DEF FrameType
<1>. DEFINE book == persist[p]
<1>3. /\ l2call[p].stage = "fetched" /\ L2Serve(p, req, slot, book)
      /\ UNCHANGED <<arch, l1, nvc, dram, trax, l1call>>
  BY <1>1, <1>2 DEF L2Fetched
<1>4. Alone(l2[p], req.addr, L2Sets, L2Ways, slot)
  BY <1>1, <1>2, <1>3 DEF EpbInv, EpbPrivate, L2Home, Alone, L2SetOf
<1>5. GoodBook(book)
  BY BookFree
<1>. HIDE DEF book
<1>. QED BY <1>1, <1>3, <1>4, <1>5, EpbL2Served

\* l2_access calls nvc_access: the shared levels stay in order.
LEMMA EpbNvcAccessed ==
  ASSUME EpbInv, NEW p \in Procs, ~Storing(persist[p]), NEW req, GoodReq(req),
         NEW m \in NvcAccess(Memory, p, req), MemoryIs(m)
  PROVE  EpbShared'
<1>1. GoodMemory(Memory)
  BY EpbTypes, MemoryGood
<1>2. \A i \in L2Slots : l2[p][i].tx \in AnyTx
  BY EpbTypes, TxFacts DEF GoodPrivate, PrivateLine
<1>3. GoodMemory(m)
  BY <1>1, <1>2, NvcAccessed
<1>. QED BY <1>3, MemoryGood

\* What the other two steps of l2_access have in common.
LEMMA EpbL2Calls ==
  ASSUME EpbInv, NEW p \in Procs, NEW c2, NEW f2,
         l2' = [l2 EXCEPT ![p] = c2], GoodPrivate(c2, L2Slots, L2Ways), SameAddrs(l2[p], c2, L2Slots),
         l2call' = [l2call EXCEPT ![p] = f2], f2 \in FrameType(L2Slots), GoodReq(f2.req),
         f2.slot \in L2SetOf(f2.req.addr),
         f2.req.addr # 0 => Holding(l2[p], L2SetOf(f2.req.addr), f2.req.addr) = {},
         UNCHANGED <<arch, l1, persistent, txId, l1call>>, EpbShared'
  PROVE  EpbInv'
<1>1. l2'[p] = c2 /\ l2call'[p] = f2
  BY EpbTypes
<1>2. EpbPrivate(p) /\ EpbTrax
  BY EpbTypes DEF EpbInv
<1>3. L1Home(p)' /\ EpbTrax'
  BY <1>2 DEF EpbPrivate, L1Home, EpbTrax
<1>4. L2Home(p)'
  <2>1. AtHome(c2, L2Slots, L2Sets, L2Ways) /\ Distinct(c2, L2Slots)
    BY <1>2, SamePlaces DEF EpbPrivate, L2Home, SameAddrs
  <2>2. L2SetOf(f2.req.addr) \subseteq L2Slots
    BY SetsInside DEF GoodReq, ReqType
  <2>3. f2.req.addr # 0 => Holding(c2, L2SetOf(f2.req.addr), f2.req.addr) = {}
    BY <2>2 DEF Holding, SameAddrs
  <2>. QED BY <1>1, <2>1, <2>3 DEF L2Home
<1>5. l1' = [l1 EXCEPT ![p] = l1[p]] /\ l1call' = [l1call EXCEPT ![p] = l1call[p]]
  BY EpbKept
<1>. QED BY <1>3, <1>4, <1>5, EpbTypes, EpbStep

LEMMA EpbL2Miss ==
  ASSUME EpbInv, NEW p \in Procs, ~Storing(persist[p]), L2Miss(p)
  PROVE  EpbInv'
<1>1. PICK req : GoodReq(req) /\ req = l2call[p].req
  BY EpbTypes
<1>. DEFINE slot   == Victim(l2[p], SetSlots(req.addr, L2Sets, L2Ways))
            victim == l2[p][slot]
            sub    == Writeback(victim)
            d      == WithState(l2[p], slot, "I")
            f2     == Frame(req, slot, "fetching")
<1>2. /\ Holding(l2[p], L2SetOf(req.addr), req.addr) = {}
      /\ \/ UNCHANGED <<l2, nvc, dram, persist>>
         \/ /\ \E m \in NvcAccess(Memory, p, sub) : MemoryIs(m)
            /\ l2' = [l2 EXCEPT ![p] = d]
      /\ l2call' = [l2call EXCEPT ![p] = f2]
      /\ UNCHANGED <<arch, l1, persistent, txId, l1call>>
  BY <1>1 DEF L2Miss, L2Lookup, L2Preinsert, L2Set, L2SetOf, shared, trax, Invalidated, WithState
<1>3. GoodPrivate(l2[p], L2Slots, L2Ways)
  BY EpbTypes
<1>4. slot \in L2Slots /\ slot \in L2SetOf(req.addr)
  <2>1. req.addr \in Addrs \cup {0}
    BY <1>1 DEF GoodReq, ReqType
  <2>2. SetSlots(req.addr, L2Sets, L2Ways) \subseteq L2Slots /\ SetSlots(req.addr, L2Sets, L2Ways) # {}
    BY <2>1, SetsInside DEF L2SetOf
  <2>3. slot \in L2Slots /\ slot \in SetSlots(req.addr, L2Sets, L2Ways)
    BY <1>3, <2>2, Ways, MissAlone
  <2>. QED BY <2>3 DEF L2SetOf
<1>. HIDE DEF slot
<1>5. GoodReq(sub)
  <2>1. victim \in PrivateLine(L2Ways) /\ GoodLine(victim)
    BY <1>3, <1>4 DEF GoodPrivate
  <2>. QED BY <2>1, EpbWriteback
<1>6. GoodPrivate(d, L2Slots, L2Ways) /\ SameAddrs(l2[p], d, L2Slots)
  <2>1. "I" \in MESI
    BY DEF MESI
  <2>. QED BY <1>3, <1>4, <2>1, PrivateStateSet
<1>7. f2 \in FrameType(L2Slots) /\ f2.req = req /\ f2.slot = slot
  BY <1>1, <1>4, EpbFrameIs DEF Stages
<1>. HIDE DEF sub, d, f2
<1>8. EpbShared'
  <2>1. EpbShared
    BY EpbTypes
  <2>2. CASE UNCHANGED <<l2, nvc, dram, persist>>
    BY <2>1, <2>2 DEF EpbShared
  <2>3. CASE \E m \in NvcAccess(Memory, p, sub) : MemoryIs(m)
    BY <1>5, <2>3, EpbNvcAccessed
  <2>. QED BY <1>2, <2>2, <2>3
<1>9. PICK c2 : /\ l2' = [l2 EXCEPT ![p] = c2]
                /\ GoodPrivate(c2, L2Slots, L2Ways) /\ SameAddrs(l2[p], c2, L2Slots)
  <2>1. l2 = [l2 EXCEPT ![p] = l2[p]] /\ SameAddrs(l2[p], l2[p], L2Slots)
    BY EpbKept DEF SameAddrs
  <2>. QED BY <1>2, <1>3, <1>6, <2>1
<1>10. /\ GoodReq(f2.req) /\ f2.slot \in L2SetOf(f2.req.addr)
       /\ Holding(l2[p], L2SetOf(f2.req.addr), f2.req.addr) = {}
  BY <1>1, <1>2, <1>4, <1>7
<1>11. l2call' = [l2call EXCEPT ![p] = f2] /\ UNCHANGED <<arch, l1, persistent, txId, l1call>>
  BY <1>2
<1>. QED BY <1>7, <1>8, <1>9, <1>10, <1>11, EpbL2Calls

LEMMA EpbL2Fetch ==
  ASSUME EpbInv, NEW p \in Procs, ~Storing(persist[p]), L2Fetch(p)
  PROVE  EpbInv'
<1>1. PICK req : GoodReq(req) /\ req = l2call[p].req
  BY EpbTypes
<1>. DEFINE f2 == [l2call[p] EXCEPT !.stage = "fetched"]
<1>2. /\ l2call[p].stage = "fetching" /\ \E m \in NvcAccess(Memory, p, req) : MemoryIs(m)
      /\ l2call' = [l2call EXCEPT ![p] = f2]
      /\ UNCHANGED <<arch, l1, l2, persistent, txId, l1call>>
  BY <1>1 DEF L2Fetch, trax
<1>3. f2 \in FrameType(L2Slots) /\ f2.req = req /\ f2.slot = l2call[p].slot
  BY <1>1, EpbTypes DEF FrameType, Stages
<1>. HIDE DEF f2
<1>4. /\ f2.slot \in L2SetOf(f2.req.addr) /\ GoodReq(f2.req)
      /\ f2.req.addr # 0 => Holding(l2[p], L2SetOf(f2.req.addr), f2.req.addr) = {}
  <2>1. L2Home(p)
    BY DEF EpbInv, EpbPrivate
  <2>. QED BY <1>1, <1>2, <1>3, <2>1 DEF L2Home
<1>5. EpbShared'
  BY <1>1, <1>2, EpbNvcAccessed
<1>6. l2' = [l2 EXCEPT ![p] = l2[p]] /\ SameAddrs(l2[p], l2[p], L2Slots)
  BY <1>2, EpbKept DEF SameAddrs
<1>7. GoodPrivate(l2[p], L2Slots, L2Ways)
  BY EpbTypes
<1>. QED BY <1>2, <1>3, <1>4, <1>5, <1>6, <1>7, EpbL2Calls

-----------------------------------------------------------------------------
(* EPB and EPB_BF: the invariant holds *)

LEMMA EpbInsertPBEnds ==
  ASSUME EpbInv, NEW p \in Procs, InsertPBEnds(p)
  PROVE  EpbInv'
<1>. DEFINE book == StoreAddr(persist[p])
<1>1. /\ persist' = [persist EXCEPT ![p] = book]
      /\ UNCHANGED <<arch, l1, l2, nvc, dram, persistent, txId, l1call, l2call>>
  BY DEF InsertPBEnds, trax
<1>2. HeldBook(book)
  BY EpbTypes, AddrStored DEF GoodBook
<1>. HIDE DEF book
<1>3. EpbPrivate(p) /\ EpbShared /\ EpbTrax
  BY EpbTypes DEF EpbInv
<1>4. L1Home(p)' /\ L2Home(p)'
  BY <1>1, <1>3 DEF EpbPrivate, L1Home, L2Home
<1>5. EpbShared' /\ EpbTrax'
  BY <1>1, <1>2, <1>3, BooksPut DEF EpbShared, EpbTrax
<1>6. /\ l1' = [l1 EXCEPT ![p] = l1[p]] /\ l2' = [l2 EXCEPT ![p] = l2[p]]
      /\ l1call' = [l1call EXCEPT ![p] = l1call[p]] /\ l2call' = [l2call EXCEPT ![p] = l2call[p]]
  BY <1>1, EpbKept
<1>. QED BY <1>1, <1>4, <1>5, <1>6, EpbTypes, EpbStep

LEMMA EpbNext ==
  ASSUME EpbInv, Next
  PROVE  EpbInv'
<1>1. PICK p \in Procs : \/ InsertPBEnds(p)
                         \/ /\ ~Storing(persist[p])
                            /\ \/ Program(p)
                               \/ EpbL1Access(p) \/ EpbL2Access(p)
                               \/ BfL1Access(p) \/ BfL2Access(p)
  BY DEF Next
<1>. DEFINE free == ~Storing(persist[p])
<1>2. CASE Program(p)
  BY <1>2, EpbProgram
<1>3. CASE free /\ (EpbL1Access(p) \/ BfL1Access(p))
  BY <1>3, EpbL1Hit, EpbL1Miss, EpbL1EvictedKeeps, EpbL1Fetched DEF EpbL1Access, BfL1Access
<1>4. CASE free /\ (EpbL2Access(p) \/ BfL2Access(p))
  BY <1>4, EpbL2Hit, EpbL2Miss, EpbL2Fetch, EpbL2Fetched DEF EpbL2Access, BfL2Access
<1>5. CASE InsertPBEnds(p)
  BY <1>5, EpbInsertPBEnds
<1>. QED BY <1>1, <1>2, <1>3, <1>4, <1>5

\* A cache without a line is in order, and so is a persist buffer without an
\* entry.
LEMMA NoLines ==
  /\ EmptyLine \in PrivateLine(L1Ways) /\ EmptyLine \in PrivateLine(L2Ways)
  /\ EmptySharedLine \in SharedLine(NvcWays) /\ EmptySharedLine \in SharedLine(DramWays)
  /\ GoodLine(EmptyLine) /\ EmptyLine.addr = 0
  /\ GoodLine(EmptySharedLine) /\ EmptySharedLine.addr = 0
BY Ways DEF EmptyLine, EmptySharedLine, PrivateLine, SharedLine, MESI, GoodLine, LineOK

LEMMA NoBooksGood == HeldBooks(NoBooks)
<1>. DEFINE pb   == [i \in PBLines |-> NoEntry]
            book == Book(pb, 0, 0, NoStore)
<1>1. GoodPB(pb)
  BY NoEntryIs, TxFacts DEF GoodPB
<1>2. book.pb = pb /\ ~Storing(book)
  BY DEF Storing, Book
<1>3. 0 \in PBLines /\ 0 \in AnyTx /\ NoStore \in StoringType
  BY TxFacts, EpbAssumption DEF AnyTx, NoTx, StoringType
<1>4. NoBooks = [q \in Procs |-> book]
  BY DEF NoBooks, Book
<1>5. \A i \in PBLines : pb[i] = NoEntry
  OBVIOUS
<1>. HIDE DEF pb, book
<1>6. Pending(book) /\ WholeBook(book)
  BY <1>2, <1>5, NoEntryIs DEF Pending, WholeBook
<1>7. HeldBook(book)
  BY <1>1, <1>3, <1>6, BookMade DEF book
<1>. QED BY <1>4, <1>7 DEF HeldBooks, HeldBook

LEMMA EpbInitial ==
  ASSUME Init
  PROVE  EpbInv
<1>1. /\ \A q \in Procs : /\ l1[q] = [i \in L1Slots |-> EmptyLine]
                          /\ l2[q] = [i \in L2Slots |-> EmptyLine]
                          /\ l1call[q] = Returned /\ l2call[q] = Returned
      /\ nvc = [i \in NvcSlots |-> EmptySharedLine]
      /\ dram = [i \in DramSlots |-> EmptySharedLine]
      /\ persist = NoBooks
  BY DEF Init
<1>2. TypeOK
  <2>1. /\ l1 \in [Procs -> [L1Slots -> PrivateLine(L1Ways)]]
        /\ l2 \in [Procs -> [L2Slots -> PrivateLine(L2Ways)]]
        /\ nvc \in [NvcSlots -> SharedLine(NvcWays)]
        /\ dram \in [DramSlots -> SharedLine(DramWays)]
    BY NoLines DEF Init
  <2>2. l1call \in [Procs -> FrameType(L1Slots)] /\ l2call \in [Procs -> FrameType(L2Slots)]
    BY EpbFrames DEF Init
  <2>3. persist \in [Procs -> BookType]
    BY <1>1, NoBooksGood DEF HeldBooks
  <2>4. 0 \in Txs
    BY EpbAssumption DEF Txs
  <2>. QED BY <2>1, <2>2, <2>3, <2>4 DEF Init, NoTrax, TypeOK
<1>3. ASSUME NEW q \in Procs
      PROVE  EpbPrivate(q)
  <2>1. /\ \A i \in L1Slots : l1[q][i] = EmptyLine
        /\ \A i \in L2Slots : l2[q][i] = EmptyLine
        /\ l1call[q].stage = "idle" /\ l2call[q].stage = "idle"
    BY <1>1, EpbFrames
  <2>2. L1Home(q) /\ L2Home(q)
    BY <2>1, NoLines DEF L1Home, L2Home, AtHome, Distinct
  <2>3. GoodPrivate(l1[q], L1Slots, L1Ways) /\ GoodPrivate(l2[q], L2Slots, L2Ways)
    BY <1>1, NoLines DEF GoodPrivate
  <2>. QED BY <1>1, <2>2, <2>3, EpbFrames DEF EpbPrivate
<1>4. GoodNvc(nvc) /\ GoodDram(dram)
  BY <1>1, NoLines DEF GoodNvc, GoodDram, GoodShared, AtHome, DistinctOwned
<1>. QED BY <1>1, <1>2, <1>3, <1>4, NoBooksGood DEF EpbInv, EpbShared

LEMMA EpbStutter ==
  ASSUME EpbInv, UNCHANGED vars
  PROVE  EpbInv'
<1>1. UNCHANGED <<arch, l1, l2, nvc, dram, persist, persistent, txId, l1call, l2call>>
  BY DEF vars, shared, trax
<1>2. TypeOK'
  BY <1>1 DEF EpbInv, TypeOK
<1>3. ASSUME NEW q \in Procs
      PROVE  EpbPrivate(q)'
  <2>1. EpbPrivate(q)
    BY DEF EpbInv
  <2>. QED BY <1>1, <2>1 DEF EpbPrivate, L1Home, L2Home
<1>4. EpbShared'
  BY <1>1 DEF EpbInv, EpbShared
<1>. QED BY <1>2, <1>3, <1>4 DEF EpbInv

\* Under NATIVE and NVMLOG the persist buffers stay as SimInit leaves them, and
\* the transactions are counted all the same.
EpbRuns ==
  /\ arch \in Archs => EpbInv
  /\ arch \notin Archs => persist \in [Procs -> BookType] /\ EpbTrax

LEMMA EpbInvariance == ArchSpec => []EpbRuns
<1>1. ArchInit => EpbRuns
  <2>1. CASE InitNative
    <3>1. arch \notin Archs
      BY <2>1, Families DEF InitNative, V!Init
    <3>2. persist \in [Procs -> BookType]
      BY <2>1, NoBooksGood DEF InitNative, HeldBooks
    <3>3. EpbTrax
      <4>1. 0 \in Txs
        BY EpbAssumption DEF Txs
      <4>. QED BY <2>1, <4>1 DEF InitNative, NoTrax, EpbTrax
    <3>. QED BY <3>1, <3>2, <3>3 DEF EpbRuns
  <2>2. CASE InitEpb
    <3>1. arch \in Archs
      BY <2>2 DEF InitEpb, Init
    <3>. QED BY <2>2, <3>1, EpbInitial DEF InitEpb, EpbRuns
  <2>. QED BY <2>1, <2>2 DEF ArchInit
<1>2. EpbRuns /\ [ArchNext]_all => EpbRuns'
  <2>. SUFFICES ASSUME EpbRuns, [ArchNext]_all
       PROVE  EpbRuns'
    OBVIOUS
  <2>1. CASE StepNative
    <3>1. arch' = arch /\ arch \notin Archs /\ UNCHANGED <<persist, persistent, txId>>
      BY <2>1, ArchStays, Families DEF StepNative, trax
    <3>. QED BY <3>1 DEF EpbRuns, EpbTrax
  <2>2. CASE MarkNative
    <3>1. arch \notin Archs /\ \E p \in Procs : StartTx(p) \/ EndTx(p)
      BY <2>2, Families DEF MarkNative
    <3>2. EpbTrax' /\ UNCHANGED <<arch, persist>>
      BY <3>1, MarksTyped DEF EpbRuns
    <3>. QED BY <3>1, <3>2 DEF EpbRuns
  <2>3. CASE StepEpb
    <3>1. arch' = arch /\ arch \in Archs
      BY <2>3, ArchStays DEF StepEpb
    <3>. QED BY <2>3, <3>1, EpbNext DEF StepEpb, EpbRuns
  <2>4. CASE UNCHANGED all
    <3>1. UNCHANGED vars /\ UNCHANGED <<arch, persist, persistent, txId>>
      BY <2>4 DEF all, vars, shared, trax
    <3>2. CASE arch \in Archs
      BY <3>1, <3>2, EpbStutter DEF EpbRuns
    <3>3. CASE arch \notin Archs
      BY <3>1, <3>3 DEF EpbRuns, EpbTrax
    <3>. QED BY <3>2, <3>3
  <2>. QED BY <2>1, <2>2, <2>3, <2>4 DEF ArchNext
<1>. QED BY <1>1, <1>2, PTL DEF ArchSpec

-----------------------------------------------------------------------------
(* All four: the theorems *)

\* Under each of the four architectures every variable keeps its type: slots
\* are within their cache, tags name an entry of the persist buffer, and
\* nextAvailablePBLine stays below the size of the buffer.
THEOREM ArchTypeCorrect == ArchSpec => []ArchTypeOK
<1>1. NativeRuns /\ EpbRuns => ArchTypeOK
  BY NativeInvImplies, EpbInvImplies DEF NativeRuns, NativeInv, EpbRuns, EpbTrax, ArchTypeOK
<1>. QED BY <1>1, NativeInvariance, EpbInvariance, PTL

\* No private cache of any of the four has a line in two slots, and under EPB
\* and EPB_BF no shared cache has a line of one process in two, although
\* evict leaves states and owners in the wrong places.
THEOREM LinesUniqueHolds == ArchSpec => []LinesUnique
<1>1. NativeRuns /\ EpbRuns => LinesUnique
  BY NativeInvImplies, EpbInvImplies DEF NativeRuns, EpbRuns, LinesUnique
<1>. QED BY <1>1, NativeInvariance, EpbInvariance, PTL

\* EPB and EPB_BF: for any number of processes insert_PB never enters a line
\* that is in the persist buffer already, also if nvc_access of another process
\* flushes the buffer between its stores to tx_id and to lineAddr; for a single
\* process no such flush falls there, and no entry stays half stored.
THEOREM EntriesDistinctHolds == ArchSpec => []EntriesDistinct
<1>1. EpbRuns => EntriesDistinct
  BY EpbInvImplies DEF EpbRuns, EntriesDistinct
<1>. QED BY <1>1, EpbInvariance, PTL

\* EPB and EPB_BF: at all four levels a line has a transaction exactly if it
\* has a place in a persist buffer, and neither does a line of the stack.
THEOREM LinesTaggedHolds == ArchSpec => []LinesTagged
<1>1. EpbRuns => LinesTagged
  BY EpbInvImplies DEF EpbRuns, LinesTagged
<1>. QED BY <1>1, EpbInvariance, PTL
=============================================================================
