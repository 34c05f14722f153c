----------------------------- MODULE KilnProofs -----------------------------
(***************************************************************************)
(* Proofs about Kiln, for every number of processes and addresses, every   *)
(* geometry of the caches and every size of the persist buffer.            *)
(***************************************************************************)
EXTENDS Kiln, CacheProofs

-----------------------------------------------------------------------------
(* What an insertion does to a cache *)

\* A private cache stays one when a request is inserted and tagged, and
\* only the slot it was inserted in changes address or tags.
LEMMA PrivateInsert ==
  ASSUME NEW S, NEW ways \in Nat, NEW slots, NEW i \in S, NEW req \in ReqType,
         NEW tag \in [tx : Txs \cup {NoTx}, pb : PBLines \cup {NoLine}],
         NEW cache \in [S -> PrivateLine(ways)]
  PROVE  LET new == Tagged(PostInsert(cache, slots, ways, i, req), i, tag)
         IN  /\ new \in [S -> PrivateLine(ways)]
             /\ \A j \in S \ {i} : /\ new[j].addr = cache[j].addr
                                   /\ new[j].tx = cache[j].tx
                                   /\ new[j].pb = cache[j].pb
             /\ new[i].addr = req.addr
             /\ new[i].tx = tag.tx
             /\ new[i].pb = tag.pb
<1>. DEFINE ins == PostInsert(cache, slots, ways, i, req)
            new == Tagged(ins, i, tag)
            rank(j) == RankAfter(cache, slots, ways, i, j)
<1>1. \A j \in S : rank(j) \in 0 .. ways
  BY RankIn DEF PrivateLine
<1>2. ins = [j \in S |-> IF j = i
                         THEN [cache[j] EXCEPT !.addr  = req.addr,
                                               !.state = StateAfter(req.type, @),
                                               !.ts    = rank(j)]
                         ELSE [cache[j] EXCEPT !.ts = rank(j)]]
  BY DEF PostInsert
<1>3. req.addr \in Addrs \cup {0}
  BY DEF ReqType
<1>4. StateAfter(req.type, cache[i].state) \in MESI
  BY StateAfterIn
<1>. HIDE DEF rank
<1>5. ASSUME NEW j \in S
      PROVE  /\ ins[j] \in PrivateLine(ways)
             /\ ins[j].tx = cache[j].tx
             /\ ins[j].pb = cache[j].pb
             /\ ins[j].addr = IF j = i THEN req.addr ELSE cache[j].addr
  <2>1. cache[j] \in PrivateLine(ways)
    OBVIOUS
  <2>2. CASE j = i
    BY <2>1, <2>2, <1>1, <1>2, <1>3, <1>4 DEF PrivateLine
  <2>3. CASE j # i
    BY <2>1, <2>3, <1>1, <1>2 DEF PrivateLine
  <2>. QED BY <2>2, <2>3
<1>6. ins \in [S -> PrivateLine(ways)]
  BY <1>2, <1>5
<1>. HIDE DEF ins
<1>7. new = [ins EXCEPT ![i] = [ins[i] EXCEPT !.tx = tag.tx, !.pb = tag.pb]]
  BY <1>6 DEF Tagged
<1>8. [ins[i] EXCEPT !.tx = tag.tx, !.pb = tag.pb] \in PrivateLine(ways)
  BY <1>6 DEF PrivateLine
<1>9. new \in [S -> PrivateLine(ways)]
  BY <1>6, <1>7, <1>8
<1>10. \A j \in S \ {i} : new[j] = ins[j]
  BY <1>6, <1>7
<1>11. new[i].addr = ins[i].addr /\ new[i].tx = tag.tx /\ new[i].pb = tag.pb
  BY <1>6, <1>7 DEF PrivateLine
<1>. QED BY <1>5, <1>9, <1>10, <1>11 DEF ins

\* The shared caches stay well formed too.  Their lines have no pb tag.
LEMMA NvcInsert ==
  ASSUME NEW i \in NvcSlots, NEW req \in ReqType, NEW p \in Procs,
         nvc \in [NvcSlots -> NvcLine]
  PROVE  LET new == NvcServed(p, req, i)
         IN  /\ new \in [NvcSlots -> NvcLine]
             /\ \A j \in NvcSlots \ {i} : new[j].addr = nvc[j].addr /\ new[j].tx = nvc[j].tx
             /\ new[i].addr = req.addr
             /\ new[i].tx = IF req.persistent THEN req.epoch ELSE NoTx
<1>. DEFINE tx    == IF req.persistent THEN req.epoch ELSE NoTx
            slots == NvcSet(req.addr)
            ins   == PostInsert(nvc, slots, NvcWays, i, req)
            line  == [ins[i] EXCEPT !.proc = p, !.tx = tx]
            rank(j) == RankAfter(nvc, slots, NvcWays, i, j)
<1>0. NvcServed(p, req, i) = [ins EXCEPT ![i].proc = p, ![i].tx = tx]
        /\ tx \in Txs \cup {NoTx}
  BY DEF NvcServed, ReqType
<1>. HIDE DEF tx, slots
<1>1. \A j \in NvcSlots : rank(j) \in 0 .. NvcWays
  BY RankIn, KilnAssumption DEF NvcLine
<1>2. ins = [j \in NvcSlots |-> IF j = i
                         THEN [nvc[j] EXCEPT !.addr  = req.addr,
                                             !.state = StateAfter(req.type, @),
                                             !.ts    = rank(j)]
                         ELSE [nvc[j] EXCEPT !.ts = rank(j)]]
  BY DEF PostInsert
<1>3. req.addr \in Addrs \cup {0} /\ StateAfter(req.type, nvc[i].state) \in MESI
  BY StateAfterIn DEF ReqType
<1>. HIDE DEF rank
<1>4. ASSUME NEW j \in NvcSlots
      PROVE  /\ ins[j] \in NvcLine
             /\ ins[j].tx = nvc[j].tx
             /\ ins[j].addr = IF j = i THEN req.addr ELSE nvc[j].addr
  <2>1. nvc[j] \in NvcLine
    OBVIOUS
  <2>2. CASE j = i
    BY <2>1, <2>2, <1>1, <1>2, <1>3 DEF NvcLine
  <2>3. CASE j # i
    BY <2>1, <2>3, <1>1, <1>2 DEF NvcLine
  <2>. QED BY <2>2, <2>3
<1>5. ins \in [NvcSlots -> NvcLine]
  BY <1>2, <1>4
<1>. HIDE DEF ins
<1>6. line \in NvcLine /\ line.addr = ins[i].addr /\ line.tx = tx
  BY <1>0, <1>5 DEF NvcLine
<1>7. NvcServed(p, req, i) = [ins EXCEPT ![i] = line]
  BY <1>0, <1>5
<1>. HIDE DEF line
<1>8. /\ [ins EXCEPT ![i] = line] \in [NvcSlots -> NvcLine]
      /\ [ins EXCEPT ![i] = line][i] = line
      /\ \A j \in NvcSlots \ {i} : [ins EXCEPT ![i] = line][j] = ins[j]
  BY <1>5, <1>6
<1>. QED BY <1>4, <1>6, <1>7, <1>8 DEF tx

\* The same of the DRAM, whose lines carry no tags at all.
LEMMA DramInsert ==
  ASSUME NEW slots, NEW i \in DramSlots, NEW req \in ReqType, NEW p \in Procs,
         NEW cache \in [DramSlots -> DramLine]
  PROVE  [PostInsert(cache, slots, DramWays, i, req) EXCEPT ![i].proc = p]
           \in [DramSlots -> DramLine]
<1>. DEFINE ins == PostInsert(cache, slots, DramWays, i, req)
            rank(j) == RankAfter(cache, slots, DramWays, i, j)
<1>1. \A j \in DramSlots : rank(j) \in 0 .. DramWays
  BY RankIn, KilnAssumption DEF DramLine
<1>2. ins = [j \in DramSlots |-> IF j = i
                         THEN [cache[j] EXCEPT !.addr  = req.addr,
                                               !.state = StateAfter(req.type, @),
                                               !.ts    = rank(j)]
                         ELSE [cache[j] EXCEPT !.ts = rank(j)]]
  BY DEF PostInsert
<1>3. req.addr \in Addrs \cup {0} /\ StateAfter(req.type, cache[i].state) \in MESI
  BY StateAfterIn DEF ReqType
<1>. HIDE DEF rank
<1>4. ASSUME NEW j \in DramSlots
      PROVE  ins[j] \in DramLine
  <2>1. cache[j] \in DramLine
    OBVIOUS
  <2>2. CASE j = i
    BY <2>1, <2>2, <1>1, <1>2, <1>3 DEF DramLine
  <2>3. CASE j # i
    BY <2>1, <2>3, <1>1, <1>2 DEF DramLine
  <2>. QED BY <2>2, <2>3
<1>5. ins \in [DramSlots -> DramLine]
  BY <1>2, <1>4
<1>. HIDE DEF ins
<1>. QED BY <1>5 DEF DramLine, ins

-----------------------------------------------------------------------------
(* The persist buffer of one process *)

\* The entries of a buffer belong to transactions oldest .. last, are not on
\* the stack, and no address occurs twice.
BufferOK(buf, oldest, last) ==
  /\ \A i \in PBLines : buf[i].tx # NoTx => oldest <= buf[i].tx /\ buf[i].tx <= last
  /\ \A i \in PBLines : buf[i].tx = NoTx <=> buf[i].addr = NoLine
  /\ \A i \in PBLines : buf[i].addr < StackBase
  /\ \A i, j \in PBLines : buf[i].addr # NoLine /\ buf[i].addr = buf[j].addr => i = j

BufferType == [PBLines -> EntryType]

\* A free entry of the persist buffer is well typed, and no real transaction
\* is the one that stands for none.
LEMMA NoEntryIn == NoEntry \in EntryType /\ NoTx \in Int /\ NoTx \notin Txs
BY KilnAssumption DEF NoEntry, EntryType, NoTx, Txs, NoLine

\* A flush keeps a buffer well formed, and empties it of the transactions
\* up to the one it names.
LEMMA FlushOK ==
  ASSUME NEW buf \in BufferType, NEW oldest \in Txs, NEW last \in Txs,
         NEW tx \in Txs, BufferOK(buf, oldest, last)
  PROVE  /\ Flush(buf, tx) \in BufferType
         /\ BufferOK(Flush(buf, tx), oldest, last)
         /\ tx = oldest => BufferOK(Flush(buf, tx), tx + 1, last)
<1>. DEFINE new == Flush(buf, tx)
<1>1. new = [i \in PBLines |-> IF buf[i].tx <= tx THEN NoEntry ELSE buf[i]]
  BY DEF Flush, BufferType
<1>2. new \in BufferType
  BY <1>1, NoEntryIn DEF BufferType
<1>. HIDE DEF new
<1>3. \A i \in PBLines : \/ new[i] = NoEntry
                         \/ new[i] = buf[i] /\ ~(buf[i].tx <= tx)
  BY <1>1
<1>4. \A i \in PBLines : buf[i].tx \in Txs \cup {NoTx} /\ buf[i].addr \in Addrs \cup {NoLine}
  BY DEF BufferType, EntryType
<1>5. NoEntry.tx = NoTx /\ NoEntry.addr = NoLine /\ NoLine < StackBase
  BY KilnAssumption DEF NoEntry, NoLine
<1>6. BufferOK(new, oldest, last)
  BY <1>3, <1>5 DEF BufferOK
<1>7. ASSUME tx = oldest
      PROVE  BufferOK(new, tx + 1, last)
  <2>1. ASSUME NEW i \in PBLines, new[i].tx # NoTx
        PROVE  tx + 1 <= new[i].tx
    <3>1. new[i] = buf[i] /\ ~(buf[i].tx <= tx)
      BY <2>1, <1>3, <1>5
    <3>2. buf[i].tx \in Int
      BY <1>4, KilnAssumption DEF Txs, NoTx
    <3>. QED BY <3>1, <3>2 DEF Txs
  <2>. QED BY <2>1, <1>6 DEF BufferOK
<1>. QED BY <1>2, <1>6, <1>7 DEF new

\* The tags of an access name a persist-buffer line exactly if it is persistent.
LEMMA TagIn ==
  ASSUME NEW next \in PBLines, NEW req \in ReqType
  PROVE  /\ Tag(next, req) \in [tx : Txs \cup {NoTx}, pb : PBLines \cup {NoLine}]
         /\ req.persistent => Tag(next, req).pb \in PBLines /\ Tag(next, req).tx = req.epoch
         /\ ~req.persistent => Tag(next, req).pb = NoLine /\ Tag(next, req).tx = NoTx
BY DEF Tag, NoTag, ReqType

\* nextAvailablePBLine stays inside the buffer.
LEMMA NextPBLineIn == ASSUME NEW next \in PBLines PROVE NextPBLine(next) \in PBLines
BY KilnAssumption DEF PBLines, NextPBLine

\* insert_PB keeps a buffer well formed: an entry of a flushed transaction is
\* refused, one that is already there is replaced in place, and an overflow
\* only removes entries.
LEMMA InsertOK ==
  ASSUME NEW buf \in BufferType, NEW next \in PBLines, NEW want \in PBLines,
         NEW oldest \in Txs, NEW last \in Txs, NEW entry \in EntryType,
         BufferOK(buf, oldest, last),
         entry.tx <= last, entry.addr # NoLine, entry.addr < StackBase
  PROVE  LET b == InsertPB(buf, next, oldest, want, entry)
         IN  /\ b.pb \in BufferType
             /\ b.next \in PBLines
             /\ BufferOK(b.pb, oldest, last)
<1>. DEFINE slot == PBSlot(buf, want, entry.addr)
            full == buf[slot].tx # entry.tx /\ buf[slot].tx # NoTx
            kept == IF full THEN OverflowFlush(buf, entry.tx) ELSE buf
            b    == InsertPB(buf, next, oldest, want, entry)
<1>1. CASE entry.tx < oldest
  BY <1>1 DEF InsertPB
<1>2. CASE ~(entry.tx < oldest)
  <2>1. entry.tx \in Txs
    <3>1. entry.tx \in Txs \cup {NoTx}
      BY DEF EntryType
    <3>2. NoTx \in Int /\ ~(NoTx <= last)
      BY KilnAssumption DEF Txs, NoTx
    <3>. QED BY <3>1, <3>2
  <2>2. entry.tx # NoTx /\ oldest <= entry.tx
    BY <1>2, <2>1, NoEntryIn DEF Txs
  <2>3. /\ slot \in PBLines
        /\ \A i \in PBLines : buf[i].addr = entry.addr => i = slot
    <3>. DEFINE same == {i \in PBLines : buf[i].addr = entry.addr}
    <3>1. CASE same = {}
      BY <3>1 DEF PBSlot
    <3>2. CASE same # {}
      <4>1. slot \in same
        BY <3>2, KilnAssumption, MaxIn DEF PBSlot, PBLines
      <4>. QED BY <4>1 DEF BufferOK
    <3>. QED BY <3>1, <3>2
  <2>. HIDE DEF slot
  <2>4. kept \in BufferType /\ BufferOK(kept, oldest, last)
    BY <2>1, FlushOK DEF OverflowFlush
  <2>5. \A i \in PBLines : kept[i] = buf[i] \/ kept[i] = NoEntry
    BY DEF OverflowFlush, Flush, BufferType
  <2>6. NoEntry.addr = NoLine
    BY DEF NoEntry
  <2>. HIDE DEF kept
  <2>7. \A i \in PBLines : kept[i].addr = entry.addr => i = slot
    BY <2>3, <2>5, <2>6
  <2>8. b.pb = [kept EXCEPT ![slot] = entry]
    BY <1>2 DEF InsertPB, slot, kept
  <2>9. b.next \in PBLines
    BY <1>2, NextPBLineIn DEF InsertPB
  <2>. HIDE DEF b
  <2>10. b.pb \in BufferType
    BY <2>4, <2>8 DEF BufferType
  <2>11. \A i \in PBLines : b.pb[i] = IF i = slot THEN entry ELSE kept[i]
    BY <2>4, <2>8 DEF BufferType
  <2>12. BufferOK(b.pb, oldest, last)
    BY <2>2, <2>3, <2>4, <2>7, <2>11 DEF BufferOK
  <2>. QED BY <2>9, <2>10, <2>12 DEF b
<1>. QED BY <1>1, <1>2

\* Serving a request at any level keeps the persist buffer well formed.
LEMMA BufferedOK ==
  ASSUME NEW buf \in BufferType, NEW next \in PBLines,
         NEW oldest \in Txs, NEW last \in Txs, NEW req \in ReqType,
         BufferOK(buf, oldest, last),
         req.persistent => req.epoch <= last /\ req.addr \in Heap
  PROVE  LET b == Buffered(buf, next, oldest, req)
         IN  /\ b.pb \in BufferType
             /\ b.next \in PBLines
             /\ BufferOK(b.pb, oldest, last)
<1>1. CASE ~req.persistent
  BY <1>1 DEF Buffered
<1>2. CASE req.persistent
  <2>. DEFINE entry == [tx |-> req.epoch, addr |-> req.addr]
              want  == Tag(next, req).pb
  <2>1. want \in PBLines
    BY <1>2, TagIn
  <2>2. /\ entry \in EntryType
        /\ entry.tx <= last /\ entry.addr # NoLine /\ entry.addr < StackBase
    BY <1>2, KilnAssumption DEF EntryType, ReqType, NoLine, Heap
  <2>3. Buffered(buf, next, oldest, req) = InsertPB(buf, next, oldest, want, entry)
    BY <1>2 DEF Buffered
  <2>. HIDE DEF want, entry
  <2>. QED BY <2>1, <2>2, <2>3, InsertOK
<1>. QED BY <1>1, <1>2

-----------------------------------------------------------------------------
(* The inductive invariant *)

BuffersOK == \A q \in Procs : BufferOK(pb[q], nextPersist[q], txId[q])
NvcStackOK == \A i \in NvcSlots : nvc[i].tx # NoTx => nvc[i].addr < StackBase

\* PBWindow is not inductive: what enters a persist buffer comes from the
\* tags of lines evicted long after the store, so the tags and the requests
\* on their way must be bounded too (TagsAgree).
IInv ==
  /\ TypeOK
  /\ TagsAgree
  /\ BuffersOK
  /\ NvcStackOK

\* The invariant implies the properties that the runs check.
LEMMA IInvImplies == IInv => PBWindow /\ PBDistinct /\ StackVolatile
<1>. SUFFICES ASSUME IInv PROVE PBWindow /\ PBDistinct /\ StackVolatile
  OBVIOUS
<1>1. PBWindow
  BY DEF IInv, BuffersOK, BufferOK, PBWindow
<1>2. PBDistinct
  BY DEF IInv, BuffersOK, BufferOK, PBDistinct
<1>3. StackVolatile
  BY DEF IInv, BuffersOK, BufferOK, NvcStackOK, TagsAgree, LineOK, Heap, StackVolatile
<1>. QED BY <1>1, <1>2, <1>3

-----------------------------------------------------------------------------
(* Slots, frames and requests *)

\* Every cache has a slot 0, and slots are naturals.
LEMMA Geometry ==
  /\ 0 \in L1Slots /\ L1Slots \subseteq Nat
  /\ 0 \in L2Slots /\ L2Slots \subseteq Nat
  /\ 0 \in NvcSlots /\ NvcSlots \subseteq Nat
  /\ 0 \in DramSlots /\ DramSlots \subseteq Nat
<1>1. \A s, w \in Nat \ {0} : s * w \in Nat \ {0}
  OBVIOUS
<1>2. \A n \in Nat \ {0} : 0 \in 0 .. n - 1 /\ 0 .. n - 1 \subseteq Nat
  OBVIOUS
<1>3. /\ L1Sets * L1Ways \in Nat \ {0}
      /\ L2Sets * L2Ways \in Nat \ {0}
      /\ NvcSets * NvcWays \in Nat \ {0}
      /\ DramSets * DramWays \in Nat \ {0}
  BY <1>1, KilnAssumption
<1>. QED BY <1>2, <1>3 DEF L1Slots, L2Slots, NvcSlots, DramSlots

\* The set of a request lies in the cache.
LEMMA SetsIn ==
  ASSUME NEW req \in ReqType
  PROVE  /\ L1Set(req.addr) \subseteq L1Slots /\ L1Set(req.addr) # {}
         /\ L2Set(req.addr) \subseteq L2Slots /\ L2Set(req.addr) # {}
         /\ NvcSet(req.addr) \subseteq NvcSlots /\ NvcSet(req.addr) # {}
         /\ DramSet(req.addr) \subseteq DramSlots /\ DramSet(req.addr) # {}
<1>1. req.addr \in Nat
  <2>1. req.addr \in Addrs \cup {0}
    BY DEF ReqType
  <2>2. \A a \in Addrs : a \in Nat
    BY KilnAssumption
  <2>3. CASE req.addr \in Addrs
    BY <2>2, <2>3
  <2>4. CASE req.addr = 0
    BY <2>4
  <2>. QED BY <2>1, <2>3, <2>4
<1>2. L1Set(req.addr) \subseteq L1Slots /\ L1Set(req.addr) # {}
  <2>1. L1Sets \in Nat \ {0} /\ L1Ways \in Nat \ {0}
    BY KilnAssumption
  <2>. QED BY <1>1, <2>1, SetSlotsIn DEF L1Set, L1Slots
<1>3. L2Set(req.addr) \subseteq L2Slots /\ L2Set(req.addr) # {}
  <2>1. L2Sets \in Nat \ {0} /\ L2Ways \in Nat \ {0}
    BY KilnAssumption
  <2>. QED BY <1>1, <2>1, SetSlotsIn DEF L2Set, L2Slots
<1>4. NvcSet(req.addr) \subseteq NvcSlots /\ NvcSet(req.addr) # {}
  <2>1. NvcSets \in Nat \ {0} /\ NvcWays \in Nat \ {0}
    BY KilnAssumption
  <2>. QED BY <1>1, <2>1, SetSlotsIn DEF NvcSet, NvcSlots
<1>5. DramSet(req.addr) \subseteq DramSlots /\ DramSet(req.addr) # {}
  <2>1. DramSets \in Nat \ {0} /\ DramWays \in Nat \ {0}
    BY KilnAssumption
  <2>. QED BY <1>1, <2>1, SetSlotsIn DEF DramSet, DramSlots
<1>. QED BY <1>2, <1>3, <1>4, <1>5

\* Handlers start, wait and return with well-formed frames.
LEMMA FramesIn ==
  ASSUME NEW slots, 0 \in slots
  PROVE  /\ Returned \in FrameType(slots)
         /\ \A req \in ReqType : Entered(req) \in FrameType(slots)
         /\ \A req \in ReqType, slot \in slots : /\ Evicting(req, slot) \in FrameType(slots)
                                              /\ Fetching(req, slot) \in FrameType(slots)
         /\ \A p : RequestOK(p, Returned.req)
         /\ \A req : Entered(req).req = req
         /\ \A req, slot : Evicting(req, slot).req = req /\ Fetching(req, slot).req = req
<1>1. Volatile(0, "GETS") \in ReqType
  BY DEF Volatile, ReqType, AccessTypes
<1>2. Returned \in FrameType(slots)
  BY <1>1 DEF Returned, FrameType, Stages
<1>3. ASSUME NEW req \in ReqType PROVE Entered(req) \in FrameType(slots)
  BY DEF Entered, FrameType, Stages
<1>4. ASSUME NEW req \in ReqType, NEW slot \in slots
      PROVE  Evicting(req, slot) \in FrameType(slots) /\ Fetching(req, slot) \in FrameType(slots)
  BY DEF Evicting, Fetching, FrameType, Stages
<1>5. \A p : RequestOK(p, Returned.req)
  BY DEF RequestOK, Returned, Volatile
<1>6. \A req : Entered(req).req = req
  BY DEF Entered
<1>7. \A req, slot : Evicting(req, slot).req = req /\ Fetching(req, slot).req = req
  BY DEF Evicting, Fetching
<1>. QED BY <1>2, <1>3, <1>4, <1>5, <1>6, <1>7

\* A volatile request may be sent from anywhere.
LEMMA VolatileOK ==
  ASSUME NEW addr \in Addrs \cup {0}, NEW type \in AccessTypes, NEW p
  PROVE  Volatile(addr, type) \in ReqType /\ RequestOK(p, Volatile(addr, type))
BY DEF Volatile, ReqType, RequestOK

\* evict sends a request of a known type.
LEMMA WritebackTypeIn == \A st : WritebackType(st) \in AccessTypes
BY DEF WritebackType, AccessTypes

\* The write-back of a line with agreeing tags is a proper request.
LEMMA WritebackOK ==
  ASSUME NEW ways, NEW line \in PrivateLine(ways), NEW p, LineOK(p, line)
  PROVE  /\ L1Writeback(line) \in ReqType /\ RequestOK(p, L1Writeback(line))
         /\ L2Writeback(line) \in ReqType /\ RequestOK(p, L2Writeback(line))
<1>1. CASE line.pb = NoLine
  <2>1. line.addr \in Addrs \cup {0}
    BY DEF PrivateLine
  <2>. QED BY <1>1, <2>1, VolatileOK, WritebackTypeIn DEF L1Writeback, L2Writeback
<1>2. CASE line.pb # NoLine
  <2>. DEFINE req == Durable(line.addr, WritebackType(line.state), line.tx, line.pb)
  <2>1. req \in ReqType
    BY WritebackTypeIn DEF PrivateLine, ReqType, Durable
  <2>2. RequestOK(p, req)
    BY <1>2 DEF LineOK, RequestOK, Durable
  <2>. QED BY <1>2, <2>1, <2>2 DEF L1Writeback, L2Writeback
<1>. QED BY <1>1, <1>2

-----------------------------------------------------------------------------
(* What the parts of a step preserve *)

\* The buffer part of a served request.
LEMMA BufferStep ==
  ASSUME IInv, NEW p \in Procs, NEW req \in ReqType, RequestOK(p, req),
         Buffer(p, req), UNCHANGED trax
  PROVE  /\ pb' \in [Procs -> [PBLines -> EntryType]]
         /\ nextAvail' \in [Procs -> PBLines]
         /\ BuffersOK'
<1>. DEFINE b == Buffered(pb[p], nextAvail[p], nextPersist[p], req)
<1>1. /\ pb \in [Procs -> BufferType] /\ nextAvail \in [Procs -> PBLines]
      /\ nextPersist[p] \in Txs /\ txId[p] \in Txs
      /\ BufferOK(pb[p], nextPersist[p], txId[p])
  BY DEF IInv, TypeOK, BufferType, BuffersOK
<1>2. /\ b.pb \in BufferType
      /\ b.next \in PBLines
      /\ BufferOK(b.pb, nextPersist[p], txId[p])
  BY <1>1, BufferedOK DEF RequestOK
<1>. HIDE DEF b
<1>3. pb' = [pb EXCEPT ![p] = b.pb] /\ nextAvail' = [nextAvail EXCEPT ![p] = b.next]
  BY DEF Buffer, b
<1>4. pb' \in [Procs -> BufferType] /\ nextAvail' \in [Procs -> PBLines]
  BY <1>1, <1>2, <1>3
<1>5. ASSUME NEW q \in Procs
      PROVE  BufferOK(pb'[q], nextPersist'[q], txId'[q])
  <2>1. nextPersist'[q] = nextPersist[q] /\ txId'[q] = txId[q]
    BY DEF trax
  <2>2. CASE q = p
    BY <1>1, <1>2, <1>3, <2>1, <2>2
  <2>3. CASE q # p
    <3>1. pb'[q] = pb[q]
      BY <1>1, <1>3, <2>3
    <3>. QED BY <2>1, <3>1 DEF IInv, BuffersOK
  <2>. QED BY <2>2, <2>3
<1>. QED BY <1>4, <1>5 DEF BuffersOK, BufferType

\* A private cache whose line was served: well formed, tags agree.
LEMMA ServedLines ==
  ASSUME NEW S, NEW ways \in Nat, NEW slots, NEW i \in S, NEW req \in ReqType,
         NEW next \in PBLines, NEW p, RequestOK(p, req),
         NEW cache \in [S -> PrivateLine(ways)],
         \A j \in S : LineOK(p, cache[j])
  PROVE  LET new == Tagged(PostInsert(cache, slots, ways, i, req), i, Tag(next, req))
         IN  /\ new \in [S -> PrivateLine(ways)]
             /\ \A j \in S : LineOK(p, new[j])
<1>. DEFINE tag == Tag(next, req)
            new == Tagged(PostInsert(cache, slots, ways, i, req), i, tag)
<1>1. /\ tag \in [tx : Txs \cup {NoTx}, pb : PBLines \cup {NoLine}]
      /\ req.persistent => tag.pb \in PBLines /\ tag.tx = req.epoch
      /\ ~req.persistent => tag.pb = NoLine /\ tag.tx = NoTx
  BY TagIn
<1>. HIDE DEF tag
<1>2. /\ new \in [S -> PrivateLine(ways)]
      /\ \A j \in S \ {i} : /\ new[j].addr = cache[j].addr
                            /\ new[j].tx = cache[j].tx
                            /\ new[j].pb = cache[j].pb
      /\ new[i].addr = req.addr
      /\ new[i].tx = tag.tx
      /\ new[i].pb = tag.pb
  BY <1>1, PrivateInsert
<1>. HIDE DEF new
<1>3. ASSUME NEW j \in S, j # i PROVE LineOK(p, new[j])
  BY <1>2, <1>3 DEF LineOK
<1>4. LineOK(p, new[i])
  <2>1. CASE req.persistent
    <3>1. tag.pb # NoLine
      BY <1>1, <2>1, KilnAssumption DEF PBLines, NoLine
    <3>. QED BY <1>1, <1>2, <2>1, <3>1 DEF LineOK, RequestOK
  <2>2. CASE ~req.persistent
    BY <1>1, <1>2, <2>2 DEF LineOK
  <2>. QED BY <2>1, <2>2
<1>. QED BY <1>2, <1>3, <1>4 DEF new, tag

\* A private cache whose line was invalidated: likewise.
LEMMA InvalidatedLines ==
  ASSUME NEW S, NEW ways, NEW i \in S, NEW p,
         NEW cache \in [S -> PrivateLine(ways)],
         \A j \in S : LineOK(p, cache[j])
  PROVE  /\ Invalidated(cache, i) \in [S -> PrivateLine(ways)]
         /\ \A j \in S : LineOK(p, Invalidated(cache, i)[j])
<1>. DEFINE new == Invalidated(cache, i)
            line == [cache[i] EXCEPT !.state = "I"]
<1>1. new = [cache EXCEPT ![i] = line]
  BY DEF Invalidated
<1>2. line \in PrivateLine(ways) /\ line.tx = cache[i].tx /\ line.pb = cache[i].pb
        /\ line.addr = cache[i].addr
  BY DEF PrivateLine, MESI
<1>. HIDE DEF line
<1>3. new \in [S -> PrivateLine(ways)] /\ new[i] = line /\ \A j \in S \ {i} : new[j] = cache[j]
  BY <1>1, <1>2
<1>. HIDE DEF new
<1>4. \A j \in S : LineOK(p, new[j])
  BY <1>2, <1>3 DEF LineOK
<1>. QED BY <1>3, <1>4 DEF new

-----------------------------------------------------------------------------
(* One lemma per level: serving a request from a private cache *)

L1LinesOK == \A q \in Procs : \A i \in L1Slots : LineOK(q, l1[q][i])
L2LinesOK == \A q \in Procs : \A i \in L2Slots : LineOK(q, l2[q][i])
L1CallsOK == \A q \in Procs : RequestOK(q, l1call[q].req)
L2CallsOK == \A q \in Procs : RequestOK(q, l2call[q].req)
NvcCallsOK == \A q \in Procs : RequestOK(q, nvccall[q].req)

\* TagsAgree, variable by variable.
LEMMA TagsSplit == TagsAgree <=> L1LinesOK /\ L2LinesOK /\ L1CallsOK /\ L2CallsOK /\ NvcCallsOK
BY DEF TagsAgree, L1LinesOK, L2LinesOK, L1CallsOK, L2CallsOK, NvcCallsOK

\* The same in the next state.
LEMMA TagsJoin ==
  ASSUME L1LinesOK', L2LinesOK', L1CallsOK', L2CallsOK', NvcCallsOK'
  PROVE  TagsAgree'
BY DEF TagsAgree, L1LinesOK, L2LinesOK, L1CallsOK, L2CallsOK, NvcCallsOK

\* The end of l1_access keeps the L1 caches and the persist buffers in order.
LEMMA L1ServeStep ==
  ASSUME IInv, NEW p \in Procs, NEW req \in ReqType, RequestOK(p, req),
         NEW slot \in L1Slots, L1Serve(p, req, slot), UNCHANGED trax
  PROVE  /\ l1' \in [Procs -> [L1Slots -> PrivateLine(L1Ways)]] /\ L1LinesOK'
         /\ pb' \in [Procs -> [PBLines -> EntryType]]
         /\ nextAvail' \in [Procs -> PBLines]
         /\ BuffersOK'
<1>. DEFINE new == Tagged(PostInsert(l1[p], L1Set(req.addr), L1Ways, slot, req), slot,
                          Tag(nextAvail[p], req))
<1>1. /\ l1 \in [Procs -> [L1Slots -> PrivateLine(L1Ways)]]
      /\ nextAvail[p] \in PBLines
      /\ L1LinesOK
  BY TagsSplit DEF IInv, TypeOK
<1>2. new \in [L1Slots -> PrivateLine(L1Ways)] /\ \A j \in L1Slots : LineOK(p, new[j])
  BY <1>1, ServedLines, KilnAssumption DEF L1LinesOK
<1>. HIDE DEF new
<1>3. l1' = [l1 EXCEPT ![p] = new]
  BY <1>1 DEF L1Serve, new
<1>4. txId' = txId
  BY DEF trax
<1>5. l1' \in [Procs -> [L1Slots -> PrivateLine(L1Ways)]]
  BY <1>1, <1>2, <1>3
<1>6. L1LinesOK'
  BY <1>1, <1>2, <1>3, <1>4 DEF L1LinesOK, LineOK
<1>7. Buffer(p, req)
  BY DEF L1Serve
<1>. QED BY <1>5, <1>6, <1>7, BufferStep

\* The end of l2_access keeps the L2 caches and the persist buffers in order.
LEMMA L2ServeStep ==
  ASSUME IInv, NEW p \in Procs, NEW req \in ReqType, RequestOK(p, req),
         NEW slot \in L2Slots, L2Serve(p, req, slot), UNCHANGED trax
  PROVE  /\ l2' \in [Procs -> [L2Slots -> PrivateLine(L2Ways)]] /\ L2LinesOK'
         /\ pb' \in [Procs -> [PBLines -> EntryType]]
         /\ nextAvail' \in [Procs -> PBLines]
         /\ BuffersOK'
<1>. DEFINE new == Tagged(PostInsert(l2[p], L2Set(req.addr), L2Ways, slot, req), slot,
                          Tag(nextAvail[p], req))
<1>1. /\ l2 \in [Procs -> [L2Slots -> PrivateLine(L2Ways)]]
      /\ nextAvail[p] \in PBLines
      /\ L2LinesOK
  BY TagsSplit DEF IInv, TypeOK
<1>2. new \in [L2Slots -> PrivateLine(L2Ways)] /\ \A j \in L2Slots : LineOK(p, new[j])
  BY <1>1, ServedLines, KilnAssumption DEF L2LinesOK
<1>. HIDE DEF new
<1>3. l2' = [l2 EXCEPT ![p] = new]
  BY <1>1 DEF L2Serve, new
<1>4. txId' = txId
  BY DEF trax
<1>5. l2' \in [Procs -> [L2Slots -> PrivateLine(L2Ways)]]
  BY <1>1, <1>2, <1>3
<1>6. L2LinesOK'
  BY <1>1, <1>2, <1>3, <1>4 DEF L2LinesOK, LineOK
<1>7. Buffer(p, req)
  BY DEF L2Serve
<1>. QED BY <1>5, <1>6, <1>7, BufferStep

\* A frame of a process that is replaced by a proper one.
LEMMA CallStep ==
  ASSUME NEW slots, NEW p \in Procs, NEW calls0 \in [Procs -> FrameType(slots)],
         NEW f \in FrameType(slots), RequestOK(p, f.req),
         \A q \in Procs : RequestOK(q, calls0[q].req)
  PROVE  /\ [calls0 EXCEPT ![p] = f] \in [Procs -> FrameType(slots)]
         /\ \A q \in Procs : RequestOK(q, [calls0 EXCEPT ![p] = f][q].req)
BY DEF FrameType

\* What is known of a process and of the request it serves.
LEMMA CallFacts ==
  ASSUME IInv, NEW p \in Procs
  PROVE  /\ l1call[p].req \in ReqType /\ RequestOK(p, l1call[p].req) /\ l1call[p].slot \in L1Slots
         /\ l2call[p].req \in ReqType /\ RequestOK(p, l2call[p].req) /\ l2call[p].slot \in L2Slots
         /\ nvccall[p].req \in ReqType /\ RequestOK(p, nvccall[p].req) /\ nvccall[p].slot \in NvcSlots
<1>1. l1call[p] \in FrameType(L1Slots) /\ l2call[p] \in FrameType(L2Slots)
        /\ nvccall[p] \in FrameType(NvcSlots)
  BY DEF IInv, TypeOK
<1>2. RequestOK(p, l1call[p].req) /\ RequestOK(p, l2call[p].req) /\ RequestOK(p, nvccall[p].req)
  BY DEF IInv, TagsAgree
<1>. QED BY <1>1, <1>2 DEF FrameType

-----------------------------------------------------------------------------
(* One lemma per action *)

\* Parts of the invariant about variables that a step leaves alone.
LEMMA Unchanged ==
  ASSUME IInv, txId' = txId
  PROVE  /\ UNCHANGED l1 => L1LinesOK'
         /\ UNCHANGED l2 => L2LinesOK'
         /\ UNCHANGED l1call => L1CallsOK'
         /\ UNCHANGED l2call => L2CallsOK'
         /\ UNCHANGED nvccall => NvcCallsOK'
         /\ UNCHANGED nvc => NvcStackOK'
         /\ UNCHANGED <<pb, nextPersist>> => BuffersOK'
<1>1. L1LinesOK /\ L2LinesOK /\ L1CallsOK /\ L2CallsOK /\ NvcCallsOK
  BY TagsSplit DEF IInv
<1>2. (UNCHANGED l1 => L1LinesOK') /\ (UNCHANGED l2 => L2LinesOK')
  BY <1>1 DEF L1LinesOK, L2LinesOK, LineOK
<1>3. /\ UNCHANGED l1call => L1CallsOK'
      /\ UNCHANGED l2call => L2CallsOK'
      /\ UNCHANGED nvccall => NvcCallsOK'
  BY <1>1 DEF L1CallsOK, L2CallsOK, NvcCallsOK, RequestOK
<1>4. UNCHANGED nvc => NvcStackOK'
  BY DEF IInv, NvcStackOK
<1>5. UNCHANGED <<pb, nextPersist>> => BuffersOK'
  BY DEF IInv, BuffersOK
<1>. QED BY <1>2, <1>3, <1>4, <1>5

\* l1_access that finds the line.
LEMMA L1HitStep ==
  ASSUME IInv, NEW p \in Procs, L1Hit(p)
  PROVE  IInv'
<1>. DEFINE req  == l1call[p].req
            slot == Min(L1Lookup(p, req.addr))
<1>1. req \in ReqType /\ RequestOK(p, req)
  BY CallFacts
<1>2. slot \in L1Slots
  <2>1. L1Lookup(p, req.addr) \subseteq L1Slots /\ L1Lookup(p, req.addr) # {}
    BY <1>1, SetsIn DEF L1Hit, L1Lookup, Holding
  <2>. QED BY <2>1, Geometry, MinIn
<1>. HIDE DEF slot
<1>3. L1Serve(p, req, slot) /\ UNCHANGED trax
  BY DEF L1Hit, slot
<1>4. /\ l1' \in [Procs -> [L1Slots -> PrivateLine(L1Ways)]] /\ L1LinesOK'
      /\ pb' \in [Procs -> [PBLines -> EntryType]]
      /\ nextAvail' \in [Procs -> PBLines]
      /\ BuffersOK'
  BY <1>1, <1>2, <1>3, L1ServeStep
<1>5. l1call' \in [Procs -> FrameType(L1Slots)] /\ L1CallsOK'
  <2>1. l1call' = [l1call EXCEPT ![p] = Returned] /\ txId' = txId
    BY DEF L1Hit, trax
  <2>2. l1call \in [Procs -> FrameType(L1Slots)] /\ L1CallsOK
    BY TagsSplit DEF IInv, TypeOK
  <2>3. Returned \in FrameType(L1Slots) /\ RequestOK(p, Returned.req)
    BY Geometry, FramesIn
  <2>. QED BY <2>1, <2>2, <2>3, CallStep DEF L1CallsOK, RequestOK
<1>6. TypeOK'
  BY <1>4, <1>5 DEF L1Hit, IInv, TypeOK, trax
<1>7. L2LinesOK' /\ L2CallsOK' /\ NvcCallsOK' /\ NvcStackOK'
  BY Unchanged DEF L1Hit, trax
<1>. QED BY <1>4, <1>5, <1>6, <1>7, TagsJoin DEF IInv

\* The end of a miss in l1_access.
LEMMA L1FetchedStep ==
  ASSUME IInv, NEW p \in Procs, L1Fetched(p)
  PROVE  IInv'
<1>. DEFINE req  == l1call[p].req
            slot == l1call[p].slot
<1>1. req \in ReqType /\ RequestOK(p, req) /\ slot \in L1Slots
  BY CallFacts
<1>2. L1Serve(p, req, slot) /\ UNCHANGED trax
  BY DEF L1Fetched
<1>3. /\ l1' \in [Procs -> [L1Slots -> PrivateLine(L1Ways)]] /\ L1LinesOK'
      /\ pb' \in [Procs -> [PBLines -> EntryType]]
      /\ nextAvail' \in [Procs -> PBLines]
      /\ BuffersOK'
  BY <1>1, <1>2, L1ServeStep
<1>4. l1call' \in [Procs -> FrameType(L1Slots)] /\ L1CallsOK'
  <2>1. l1call' = [l1call EXCEPT ![p] = Returned] /\ txId' = txId
    BY DEF L1Fetched, trax
  <2>2. l1call \in [Procs -> FrameType(L1Slots)] /\ L1CallsOK
    BY TagsSplit DEF IInv, TypeOK
  <2>3. Returned \in FrameType(L1Slots) /\ RequestOK(p, Returned.req)
    BY Geometry, FramesIn
  <2>. QED BY <2>1, <2>2, <2>3, CallStep DEF L1CallsOK, RequestOK
<1>5. TypeOK'
  BY <1>3, <1>4 DEF L1Fetched, IInv, TypeOK, trax
<1>6. L2LinesOK' /\ L2CallsOK' /\ NvcCallsOK' /\ NvcStackOK'
  BY Unchanged DEF L1Fetched, trax
<1>. QED BY <1>3, <1>4, <1>5, <1>6, TagsJoin DEF IInv

\* A miss in l1_access, up to its first call of l2_access.
LEMMA L1MissStep ==
  ASSUME IInv, NEW p \in Procs, L1Miss(p)
  PROVE  IInv'
<1>. DEFINE req    == l1call[p].req
            slot   == L1Preinsert(p, req.addr)
            victim == l1[p][slot]
            wb     == L1Writeback(victim)
<1>1. req \in ReqType /\ RequestOK(p, req)
  BY CallFacts
<1>2. l1[p] \in [L1Slots -> PrivateLine(L1Ways)] /\ \A i \in L1Slots : LineOK(p, l1[p][i])
  BY DEF IInv, TypeOK, TagsAgree
<1>3. slot \in L1Slots
  <2>1. L1Set(req.addr) \subseteq L1Slots /\ L1Set(req.addr) # {} /\ L1Slots \subseteq Nat
    BY <1>1, SetsIn, Geometry
  <2>2. \A i \in L1Slots : l1[p][i].ts \in Nat
    BY <1>2, KilnAssumption DEF PrivateLine
  <2>3. L1Set(req.addr) \subseteq Nat /\ \A i \in L1Set(req.addr) : l1[p][i].ts \in Nat
    BY <2>1, <2>2
  <2>4. slot \in L1Set(req.addr)
    BY <2>1, <2>3, VictimIn DEF L1Preinsert
  <2>. QED BY <2>1, <2>4
<1>4. wb \in ReqType /\ RequestOK(p, wb)
  BY <1>2, <1>3, WritebackOK
<1>. HIDE DEF slot, wb
<1>5. /\ l1call' \in [Procs -> FrameType(L1Slots)] /\ L1CallsOK'
      /\ l2call' \in [Procs -> FrameType(L2Slots)] /\ L2CallsOK'
  <2>1. \E f \in FrameType(L1Slots), g \in FrameType(L2Slots) :
           /\ l1call' = [l1call EXCEPT ![p] = f] /\ RequestOK(p, f.req)
           /\ l2call' = [l2call EXCEPT ![p] = g] /\ RequestOK(p, g.req)
    <3>1. /\ Fetching(req, slot) \in FrameType(L1Slots) /\ Fetching(req, slot).req = req
          /\ Evicting(req, slot) \in FrameType(L1Slots) /\ Evicting(req, slot).req = req
          /\ Entered(req) \in FrameType(L2Slots) /\ Entered(req).req = req
          /\ Entered(wb) \in FrameType(L2Slots) /\ Entered(wb).req = wb
      BY <1>1, <1>3, <1>4, Geometry, FramesIn
    <3>2. CASE /\ l1call' = [l1call EXCEPT ![p] = Fetching(req, slot)]
               /\ l2call' = [l2call EXCEPT ![p] = Entered(req)]
      BY <1>1, <3>1, <3>2
    <3>3. CASE /\ l1call' = [l1call EXCEPT ![p] = Evicting(req, slot)]
               /\ l2call' = [l2call EXCEPT ![p] = Entered(wb)]
      BY <1>1, <1>4, <3>1, <3>3
    <3>. QED BY <3>2, <3>3 DEF L1Miss, slot, wb
  <2>2. /\ l1call \in [Procs -> FrameType(L1Slots)] /\ L1CallsOK
        /\ l2call \in [Procs -> FrameType(L2Slots)] /\ L2CallsOK
    BY TagsSplit DEF IInv, TypeOK
  <2>3. txId' = txId
    BY DEF L1Miss, trax
  <2>. QED BY <2>1, <2>2, <2>3, CallStep DEF L1CallsOK, L2CallsOK, RequestOK
<1>6. TypeOK'
  BY <1>5 DEF L1Miss, IInv, TypeOK, trax, buffers
<1>7. L1LinesOK' /\ L2LinesOK' /\ NvcCallsOK' /\ NvcStackOK' /\ BuffersOK'
  BY Unchanged DEF L1Miss, trax, buffers
<1>. QED BY <1>5, <1>6, <1>7, TagsJoin DEF IInv

\* The end of l1_evict, up to the call of l2_access for the line itself.
LEMMA L1EvictedStep ==
  ASSUME IInv, NEW p \in Procs, L1Evicted(p)
  PROVE  IInv'
<1>. DEFINE req  == l1call[p].req
            slot == l1call[p].slot
<1>1. req \in ReqType /\ RequestOK(p, req) /\ slot \in L1Slots
  BY CallFacts
<1>2. txId' = txId
  BY DEF L1Evicted, trax
<1>3. l1' \in [Procs -> [L1Slots -> PrivateLine(L1Ways)]] /\ L1LinesOK'
  <2>. DEFINE new == Invalidated(l1[p], slot)
  <2>1. l1 \in [Procs -> [L1Slots -> PrivateLine(L1Ways)]] /\ L1LinesOK
    BY TagsSplit DEF IInv, TypeOK
  <2>2. new \in [L1Slots -> PrivateLine(L1Ways)] /\ \A j \in L1Slots : LineOK(p, new[j])
    BY <1>1, <2>1, InvalidatedLines DEF L1LinesOK
  <2>3. l1' = [l1 EXCEPT ![p] = new]
    BY <2>1 DEF L1Evicted
  <2>. HIDE DEF new
  <2>. QED BY <1>2, <2>1, <2>2, <2>3 DEF L1LinesOK, LineOK
<1>4. l1call' \in [Procs -> FrameType(L1Slots)] /\ L1CallsOK'
  <2>1. l1call' = [l1call EXCEPT ![p] = Fetching(req, slot)] /\ txId' = txId
    BY DEF L1Evicted, trax
  <2>2. l1call \in [Procs -> FrameType(L1Slots)] /\ L1CallsOK
    BY TagsSplit DEF IInv, TypeOK
  <2>3. Fetching(req, slot) \in FrameType(L1Slots) /\ RequestOK(p, Fetching(req, slot).req)
    BY <1>1, Geometry, FramesIn
  <2>. QED BY <2>1, <2>2, <2>3, CallStep DEF L1CallsOK, RequestOK
<1>5. l2call' \in [Procs -> FrameType(L2Slots)] /\ L2CallsOK'
  <2>1. l2call' = [l2call EXCEPT ![p] = Entered(req)] /\ txId' = txId
    BY DEF L1Evicted, trax
  <2>2. l2call \in [Procs -> FrameType(L2Slots)] /\ L2CallsOK
    BY TagsSplit DEF IInv, TypeOK
  <2>3. Entered(req) \in FrameType(L2Slots) /\ RequestOK(p, Entered(req).req)
    BY <1>1, Geometry, FramesIn
  <2>. QED BY <2>1, <2>2, <2>3, CallStep DEF L2CallsOK, RequestOK
<1>6. TypeOK'
  BY <1>3, <1>4, <1>5 DEF L1Evicted, IInv, TypeOK, trax, buffers
<1>7. L2LinesOK' /\ NvcCallsOK' /\ NvcStackOK' /\ BuffersOK'
  BY <1>2, Unchanged DEF L1Evicted, trax, buffers
<1>. QED BY <1>3, <1>4, <1>5, <1>6, <1>7, TagsJoin DEF IInv

\* l2_access that finds the line.
LEMMA L2HitStep ==
  ASSUME IInv, NEW p \in Procs, L2Hit(p)
  PROVE  IInv'
<1>. DEFINE req  == l2call[p].req
            slot == Min(L2Lookup(p, req.addr))
<1>1. req \in ReqType /\ RequestOK(p, req)
  BY CallFacts
<1>2. slot \in L2Slots
  <2>1. L2Lookup(p, req.addr) \subseteq L2Slots /\ L2Lookup(p, req.addr) # {}
    BY <1>1, SetsIn DEF L2Hit, L2Lookup, Holding
  <2>. QED BY <2>1, Geometry, MinIn
<1>. HIDE DEF slot
<1>3. L2Serve(p, req, slot) /\ UNCHANGED trax
  BY DEF L2Hit, slot
<1>4. /\ l2' \in [Procs -> [L2Slots -> PrivateLine(L2Ways)]] /\ L2LinesOK'
      /\ pb' \in [Procs -> [PBLines -> EntryType]]
      /\ nextAvail' \in [Procs -> PBLines]
      /\ BuffersOK'
  BY <1>1, <1>2, <1>3, L2ServeStep
<1>5. l2call' \in [Procs -> FrameType(L2Slots)] /\ L2CallsOK'
  <2>1. l2call' = [l2call EXCEPT ![p] = Returned] /\ txId' = txId
    BY DEF L2Hit, trax
  <2>2. l2call \in [Procs -> FrameType(L2Slots)] /\ L2CallsOK
    BY TagsSplit DEF IInv, TypeOK
  <2>3. Returned \in FrameType(L2Slots) /\ RequestOK(p, Returned.req)
    BY Geometry, FramesIn
  <2>. QED BY <2>1, <2>2, <2>3, CallStep DEF L2CallsOK, RequestOK
<1>6. TypeOK'
  BY <1>4, <1>5 DEF L2Hit, IInv, TypeOK, trax
<1>7. L1LinesOK' /\ L1CallsOK' /\ NvcCallsOK' /\ NvcStackOK'
  BY Unchanged DEF L2Hit, trax
<1>. QED BY <1>4, <1>5, <1>6, <1>7, TagsJoin DEF IInv

\* The end of a miss in l2_access.
LEMMA L2FetchedStep ==
  ASSUME IInv, NEW p \in Procs, L2Fetched(p)
  PROVE  IInv'
<1>. DEFINE req  == l2call[p].req
            slot == l2call[p].slot
<1>1. req \in ReqType /\ RequestOK(p, req) /\ slot \in L2Slots
  BY CallFacts
<1>2. L2Serve(p, req, slot) /\ UNCHANGED trax
  BY DEF L2Fetched
<1>3. /\ l2' \in [Procs -> [L2Slots -> PrivateLine(L2Ways)]] /\ L2LinesOK'
      /\ pb' \in [Procs -> [PBLines -> EntryType]]
      /\ nextAvail' \in [Procs -> PBLines]
      /\ BuffersOK'
  BY <1>1, <1>2, L2ServeStep
<1>4. l2call' \in [Procs -> FrameType(L2Slots)] /\ L2CallsOK'
  <2>1. l2call' = [l2call EXCEPT ![p] = Returned] /\ txId' = txId
    BY DEF L2Fetched, trax
  <2>2. l2call \in [Procs -> FrameType(L2Slots)] /\ L2CallsOK
    BY TagsSplit DEF IInv, TypeOK
  <2>3. Returned \in FrameType(L2Slots) /\ RequestOK(p, Returned.req)
    BY Geometry, FramesIn
  <2>. QED BY <2>1, <2>2, <2>3, CallStep DEF L2CallsOK, RequestOK
<1>5. TypeOK'
  BY <1>3, <1>4 DEF L2Fetched, IInv, TypeOK, trax
<1>6. L1LinesOK' /\ L1CallsOK' /\ NvcCallsOK' /\ NvcStackOK'
  BY Unchanged DEF L2Fetched, trax
<1>. QED BY <1>3, <1>4, <1>5, <1>6, TagsJoin DEF IInv

\* A miss in l2_access, up to its first call of nvc_access.
LEMMA L2MissStep ==
  ASSUME IInv, NEW p \in Procs, L2Miss(p)
  PROVE  IInv'
<1>. DEFINE req    == l2call[p].req
            slot   == L2Preinsert(p, req.addr)
            victim == l2[p][slot]
            wb     == L2Writeback(victim)
<1>1. req \in ReqType /\ RequestOK(p, req)
  BY CallFacts
<1>2. l2[p] \in [L2Slots -> PrivateLine(L2Ways)] /\ \A i \in L2Slots : LineOK(p, l2[p][i])
  BY DEF IInv, TypeOK, TagsAgree
<1>3. slot \in L2Slots
  <2>1. L2Set(req.addr) \subseteq L2Slots /\ L2Set(req.addr) # {} /\ L2Slots \subseteq Nat
    BY <1>1, SetsIn, Geometry
  <2>2. \A i \in L2Slots : l2[p][i].ts \in Nat
    BY <1>2, KilnAssumption DEF PrivateLine
  <2>3. L2Set(req.addr) \subseteq Nat /\ \A i \in L2Set(req.addr) : l2[p][i].ts \in Nat
    BY <2>1, <2>2
  <2>4. slot \in L2Set(req.addr)
    BY <2>1, <2>3, VictimIn DEF L2Preinsert
  <2>. QED BY <2>1, <2>4
<1>4. wb \in ReqType /\ RequestOK(p, wb)
  BY <1>2, <1>3, WritebackOK
<1>. HIDE DEF slot, wb
<1>5. /\ l2call' \in [Procs -> FrameType(L2Slots)] /\ L2CallsOK'
      /\ nvccall' \in [Procs -> FrameType(NvcSlots)] /\ NvcCallsOK'
  <2>1. \E f \in FrameType(L2Slots), g \in FrameType(NvcSlots) :
           /\ l2call' = [l2call EXCEPT ![p] = f] /\ RequestOK(p, f.req)
           /\ nvccall' = [nvccall EXCEPT ![p] = g] /\ RequestOK(p, g.req)
    <3>1. /\ Fetching(req, slot) \in FrameType(L2Slots) /\ Fetching(req, slot).req = req
          /\ Evicting(req, slot) \in FrameType(L2Slots) /\ Evicting(req, slot).req = req
          /\ Entered(req) \in FrameType(NvcSlots) /\ Entered(req).req = req
          /\ Entered(wb) \in FrameType(NvcSlots) /\ Entered(wb).req = wb
      BY <1>1, <1>3, <1>4, Geometry, FramesIn
    <3>2. CASE /\ l2call' = [l2call EXCEPT ![p] = Fetching(req, slot)]
               /\ nvccall' = [nvccall EXCEPT ![p] = Entered(req)]
      BY <1>1, <3>1, <3>2
    <3>3. CASE /\ l2call' = [l2call EXCEPT ![p] = Evicting(req, slot)]
               /\ nvccall' = [nvccall EXCEPT ![p] = Entered(wb)]
      BY <1>1, <1>4, <3>1, <3>3
    <3>. QED BY <3>2, <3>3 DEF L2Miss, slot, wb
  <2>2. /\ l2call \in [Procs -> FrameType(L2Slots)] /\ L2CallsOK
        /\ nvccall \in [Procs -> FrameType(NvcSlots)] /\ NvcCallsOK
    BY TagsSplit DEF IInv, TypeOK
  <2>3. txId' = txId
    BY DEF L2Miss, trax
  <2>. QED BY <2>1, <2>2, <2>3, CallStep DEF L2CallsOK, NvcCallsOK, RequestOK
<1>6. TypeOK'
  BY <1>5 DEF L2Miss, IInv, TypeOK, trax, buffers
<1>7. L1LinesOK' /\ L2LinesOK' /\ L1CallsOK' /\ NvcStackOK' /\ BuffersOK'
  BY Unchanged DEF L2Miss, trax, buffers
<1>. QED BY <1>5, <1>6, <1>7, TagsJoin DEF IInv

\* The end of l2_evict, up to the call of nvc_access for the line itself.
LEMMA L2EvictedStep ==
  ASSUME IInv, NEW p \in Procs, L2Evicted(p)
  PROVE  IInv'
<1>. DEFINE req  == l2call[p].req
            slot == l2call[p].slot
<1>1. req \in ReqType /\ RequestOK(p, req) /\ slot \in L2Slots
  BY CallFacts
<1>2. txId' = txId
  BY DEF L2Evicted, trax
<1>3. l2' \in [Procs -> [L2Slots -> PrivateLine(L2Ways)]] /\ L2LinesOK'
  <2>. DEFINE new == Invalidated(l2[p], slot)
  <2>1. l2 \in [Procs -> [L2Slots -> PrivateLine(L2Ways)]] /\ L2LinesOK
    BY TagsSplit DEF IInv, TypeOK
  <2>2. new \in [L2Slots -> PrivateLine(L2Ways)] /\ \A j \in L2Slots : LineOK(p, new[j])
    BY <1>1, <2>1, InvalidatedLines DEF L2LinesOK
  <2>3. l2' = [l2 EXCEPT ![p] = new]
    BY <2>1 DEF L2Evicted
  <2>. HIDE DEF new
  <2>. QED BY <1>2, <2>1, <2>2, <2>3 DEF L2LinesOK, LineOK
<1>4. l2call' \in [Procs -> FrameType(L2Slots)] /\ L2CallsOK'
  <2>1. l2call' = [l2call EXCEPT ![p] = Fetching(req, slot)] /\ txId' = txId
    BY DEF L2Evicted, trax
  <2>2. l2call \in [Procs -> FrameType(L2Slots)] /\ L2CallsOK
    BY TagsSplit DEF IInv, TypeOK
  <2>3. Fetching(req, slot) \in FrameType(L2Slots) /\ RequestOK(p, Fetching(req, slot).req)
    BY <1>1, Geometry, FramesIn
  <2>. QED BY <2>1, <2>2, <2>3, CallStep DEF L2CallsOK, RequestOK
<1>5. nvccall' \in [Procs -> FrameType(NvcSlots)] /\ NvcCallsOK'
  <2>1. nvccall' = [nvccall EXCEPT ![p] = Entered(req)] /\ txId' = txId
    BY DEF L2Evicted, trax
  <2>2. nvccall \in [Procs -> FrameType(NvcSlots)] /\ NvcCallsOK
    BY TagsSplit DEF IInv, TypeOK
  <2>3. Entered(req) \in FrameType(NvcSlots) /\ RequestOK(p, Entered(req).req)
    BY <1>1, Geometry, FramesIn
  <2>. QED BY <2>1, <2>2, <2>3, CallStep DEF NvcCallsOK, RequestOK
<1>6. TypeOK'
  BY <1>3, <1>4, <1>5 DEF L2Evicted, IInv, TypeOK, trax, buffers
<1>7. L1LinesOK' /\ L1CallsOK' /\ NvcStackOK' /\ BuffersOK'
  BY <1>2, Unchanged DEF L2Evicted, trax, buffers
<1>. QED BY <1>3, <1>4, <1>5, <1>6, <1>7, TagsJoin DEF IInv

\* An NVC that has served a process is well formed, and what it tags is not
\* on the stack.
LEMMA NvcServedOK ==
  ASSUME IInv, NEW p \in Procs, NEW req \in ReqType, RequestOK(p, req),
         NEW slot \in NvcSlots
  PROVE  LET new == NvcServed(p, req, slot)
         IN  /\ new \in [NvcSlots -> NvcLine]
             /\ \A i \in NvcSlots : new[i].tx # NoTx => new[i].addr < StackBase
<1>. DEFINE new == NvcServed(p, req, slot)
<1>1. nvc \in [NvcSlots -> NvcLine] /\ NvcStackOK
  BY DEF IInv, TypeOK
<1>2. /\ new \in [NvcSlots -> NvcLine]
      /\ \A j \in NvcSlots \ {slot} : new[j].addr = nvc[j].addr /\ new[j].tx = nvc[j].tx
      /\ new[slot].addr = req.addr
      /\ new[slot].tx = IF req.persistent THEN req.epoch ELSE NoTx
  BY <1>1, NvcInsert
<1>. HIDE DEF new
<1>3. \A i \in NvcSlots : new[i].tx # NoTx => new[i].addr < StackBase
  BY <1>1, <1>2 DEF NvcStackOK, RequestOK, Heap
<1>. QED BY <1>2, <1>3 DEF new

\* A DRAM cache that has served a process is well formed.
LEMMA DramServedOK ==
  ASSUME IInv, NEW p \in Procs, NEW req \in ReqType
  PROVE  DramServed(p, req) \in [DramSlots -> DramLine]
<1>1. dram \in [DramSlots -> DramLine]
  BY DEF IInv, TypeOK
<1>2. DramSet(req.addr) \subseteq DramSlots /\ DramSet(req.addr) # {} /\ DramSlots \subseteq Nat
  BY SetsIn, Geometry
<1>3. DramPreinsert(req.addr) \in DramSlots
  <2>1. \A i \in DramSlots : dram[i].ts \in Nat
    BY <1>1, KilnAssumption DEF DramLine
  <2>2. DramSet(req.addr) \subseteq Nat /\ \A i \in DramSet(req.addr) : dram[i].ts \in Nat
    BY <1>2, <2>1
  <2>. QED BY <1>2, <2>2, VictimIn DEF DramPreinsert
<1>4. DramSlot(p, req.addr) \in DramSlots
  <2>1. DramLookup(p, req.addr) \subseteq DramSlots
    BY <1>2 DEF DramLookup, Holding
  <2>2. CASE DramLookup(p, req.addr) # {}
    <3>1. Min(DramLookup(p, req.addr)) \in DramLookup(p, req.addr)
      BY <1>2, <2>1, <2>2, MinIn
    <3>. QED BY <2>1, <2>2, <3>1 DEF DramSlot
  <2>3. CASE DramLookup(p, req.addr) = {}
    BY <1>3, <2>3 DEF DramSlot
  <2>. QED BY <2>2, <2>3
<1>5. DramEvicted(p, req.addr) \in [DramSlots -> DramLine]
  <2>. DEFINE slot == DramPreinsert(req.addr)
              line == [dram[slot] EXCEPT !.state = "I"]
  <2>1. line \in DramLine
    BY <1>1, <1>3 DEF DramLine, MESI
  <2>2. Invalidated(dram, slot) = [dram EXCEPT ![slot] = line]
    BY DEF Invalidated
  <2>. HIDE DEF line, slot
  <2>3. Invalidated(dram, slot) \in [DramSlots -> DramLine]
    BY <1>1, <2>1, <2>2
  <2>. QED BY <1>1, <2>3 DEF DramEvicted, slot
<1>. QED BY <1>4, <1>5, DramInsert DEF DramServed

\* nvc_access that finds the line.
LEMMA NvcHitStep ==
  ASSUME IInv, NEW p \in Procs, NvcHit(p)
  PROVE  IInv'
<1>. DEFINE req  == nvccall[p].req
            slot == Min(NvcLookup(p, req.addr))
<1>1. req \in ReqType /\ RequestOK(p, req)
  BY CallFacts
<1>2. slot \in NvcSlots
  <2>1. NvcLookup(p, req.addr) \subseteq NvcSlots /\ NvcLookup(p, req.addr) # {}
    BY <1>1, SetsIn DEF NvcHit, NvcLookup, Holding
  <2>. QED BY <2>1, Geometry, MinIn
<1>. HIDE DEF slot
<1>3. nvc' = NvcServed(p, req, slot) /\ Buffer(p, req) /\ UNCHANGED trax
  BY DEF NvcHit, slot
<1>4. nvc' \in [NvcSlots -> NvcLine] /\ NvcStackOK'
  BY <1>1, <1>2, <1>3, NvcServedOK DEF NvcStackOK
<1>5. /\ pb' \in [Procs -> [PBLines -> EntryType]]
      /\ nextAvail' \in [Procs -> PBLines]
      /\ BuffersOK'
  BY <1>1, <1>3, BufferStep
<1>6. nvccall' \in [Procs -> FrameType(NvcSlots)] /\ NvcCallsOK'
  <2>1. nvccall' = [nvccall EXCEPT ![p] = Returned] /\ txId' = txId
    BY DEF NvcHit, trax
  <2>2. nvccall \in [Procs -> FrameType(NvcSlots)] /\ NvcCallsOK
    BY TagsSplit DEF IInv, TypeOK
  <2>3. Returned \in FrameType(NvcSlots) /\ RequestOK(p, Returned.req)
    BY Geometry, FramesIn
  <2>. QED BY <2>1, <2>2, <2>3, CallStep DEF NvcCallsOK, RequestOK
<1>7. TypeOK'
  BY <1>4, <1>5, <1>6 DEF NvcHit, IInv, TypeOK, trax
<1>8. L1LinesOK' /\ L2LinesOK' /\ L1CallsOK' /\ L2CallsOK'
  BY Unchanged DEF NvcHit, trax
<1>. QED BY <1>4, <1>5, <1>6, <1>7, <1>8, TagsJoin DEF IInv

\* nvc_access that misses, up to the end of nvc_evict.
LEMMA NvcMissStep ==
  ASSUME IInv, NEW p \in Procs, NvcMiss(p)
  PROVE  IInv'
<1>. DEFINE req    == nvccall[p].req
            slot   == NvcPreinsert(req.addr)
            victim == nvc[slot]
            wb     == Volatile(victim.addr, WritebackType(victim.state))
<1>1. req \in ReqType /\ RequestOK(p, req)
  BY CallFacts
<1>2. nvc \in [NvcSlots -> NvcLine] /\ NvcStackOK
  BY DEF IInv, TypeOK
<1>3. slot \in NvcSlots
  <2>1. NvcSet(req.addr) \subseteq NvcSlots /\ NvcSet(req.addr) # {} /\ NvcSlots \subseteq Nat
    BY <1>1, SetsIn, Geometry
  <2>2. \A i \in NvcSlots : nvc[i].ts \in Nat
    BY <1>2, KilnAssumption DEF NvcLine
  <2>3. NvcSet(req.addr) \subseteq Nat /\ \A i \in NvcSet(req.addr) : nvc[i].ts \in Nat
    BY <2>1, <2>2
  <2>4. slot \in NvcSet(req.addr)
    BY <2>1, <2>3, VictimIn DEF NvcPreinsert
  <2>. QED BY <2>1, <2>4
<1>4. DramServed(p, wb) \in [DramSlots -> DramLine]
  <2>1. victim.addr \in Addrs \cup {0}
    BY <1>2, <1>3 DEF NvcLine
  <2>2. wb \in ReqType
    BY <2>1, VolatileOK, WritebackTypeIn
  <2>. HIDE DEF wb
  <2>. QED BY <2>2, DramServedOK
<1>5. dram' \in [DramSlots -> DramLine]
  <2>1. dram' = DramServed(p, wb) \/ dram' = dram
    BY DEF NvcMiss
  <2>2. dram \in [DramSlots -> DramLine]
    BY DEF IInv, TypeOK
  <2>. QED BY <1>4, <2>1, <2>2
<1>. HIDE DEF slot
<1>6. nvc' \in [NvcSlots -> NvcLine] /\ NvcStackOK'
  <2>. DEFINE line == [nvc[slot] EXCEPT !.state = "I"]
  <2>1. nvc' = [nvc EXCEPT ![slot] = line]
    BY DEF NvcMiss, Invalidated, slot
  <2>2. line \in NvcLine /\ line.tx = nvc[slot].tx /\ line.addr = nvc[slot].addr
    BY <1>2, <1>3 DEF NvcLine, MESI
  <2>. HIDE DEF line
  <2>. QED BY <1>2, <1>3, <2>1, <2>2 DEF NvcStackOK
<1>7. nvccall' \in [Procs -> FrameType(NvcSlots)] /\ NvcCallsOK'
  <2>1. nvccall' = [nvccall EXCEPT ![p] = Fetching(req, slot)] /\ txId' = txId
    BY DEF NvcMiss, trax, slot
  <2>2. nvccall \in [Procs -> FrameType(NvcSlots)] /\ NvcCallsOK
    BY TagsSplit DEF IInv, TypeOK
  <2>3. Fetching(req, slot) \in FrameType(NvcSlots) /\ RequestOK(p, Fetching(req, slot).req)
    BY <1>1, <1>3, Geometry, FramesIn
  <2>. QED BY <2>1, <2>2, <2>3, CallStep DEF NvcCallsOK, RequestOK
<1>8. TypeOK'
  BY <1>5, <1>6, <1>7 DEF NvcMiss, IInv, TypeOK, trax, buffers
<1>9. L1LinesOK' /\ L2LinesOK' /\ L1CallsOK' /\ L2CallsOK' /\ BuffersOK'
  BY Unchanged DEF NvcMiss, trax, buffers
<1>. QED BY <1>6, <1>7, <1>8, <1>9, TagsJoin DEF IInv

\* The end of a miss in nvc_access: dram_access inserts in the persist buffer
\* first, then nvc_access itself.
LEMMA NvcFetchedStep ==
  ASSUME IInv, NEW p \in Procs, NvcFetched(p)
  PROVE  IInv'
<1>. DEFINE req  == nvccall[p].req
            slot == nvccall[p].slot
            b4   == Buffered(pb[p], nextAvail[p], nextPersist[p], req)
            b3   == Buffered(b4.pb, b4.next, nextPersist[p], req)
<1>1. req \in ReqType /\ RequestOK(p, req) /\ slot \in NvcSlots
  BY CallFacts
<1>2. nvc' \in [NvcSlots -> NvcLine] /\ NvcStackOK'
  BY <1>1, NvcServedOK DEF NvcFetched, NvcStackOK
<1>3. dram' \in [DramSlots -> DramLine]
  BY <1>1, DramServedOK DEF NvcFetched
<1>4. /\ pb \in [Procs -> BufferType] /\ nextAvail \in [Procs -> PBLines]
      /\ nextPersist[p] \in Txs /\ txId[p] \in Txs
      /\ BufferOK(pb[p], nextPersist[p], txId[p])
  BY DEF IInv, TypeOK, BufferType, BuffersOK
<1>5. b4.pb \in BufferType /\ b4.next \in PBLines /\ BufferOK(b4.pb, nextPersist[p], txId[p])
  BY <1>1, <1>4, BufferedOK DEF RequestOK
<1>6. pb' = [pb EXCEPT ![p] = b3.pb] /\ nextAvail' = [nextAvail EXCEPT ![p] = b3.next]
  BY DEF NvcFetched
<1>. HIDE DEF b4
<1>7. b3.pb \in BufferType /\ b3.next \in PBLines /\ BufferOK(b3.pb, nextPersist[p], txId[p])
  BY <1>1, <1>4, <1>5, BufferedOK DEF RequestOK
<1>. HIDE DEF b3
<1>8. pb' \in [Procs -> [PBLines -> EntryType]] /\ nextAvail' \in [Procs -> PBLines]
  BY <1>4, <1>6, <1>7 DEF BufferType
<1>9. BuffersOK'
  <2>1. nextPersist' = nextPersist /\ txId' = txId
    BY DEF NvcFetched, trax
  <2>2. \A q \in Procs : BufferOK(pb'[q], nextPersist[q], txId[q])
    BY <1>4, <1>6, <1>7 DEF IInv, BuffersOK
  <2>. QED BY <2>1, <2>2 DEF BuffersOK
<1>10. nvccall' \in [Procs -> FrameType(NvcSlots)] /\ NvcCallsOK'
  <2>1. nvccall' = [nvccall EXCEPT ![p] = Returned] /\ txId' = txId
    BY DEF NvcFetched, trax
  <2>2. nvccall \in [Procs -> FrameType(NvcSlots)] /\ NvcCallsOK
    BY TagsSplit DEF IInv, TypeOK
  <2>3. Returned \in FrameType(NvcSlots) /\ RequestOK(p, Returned.req)
    BY Geometry, FramesIn
  <2>. QED BY <2>1, <2>2, <2>3, CallStep DEF NvcCallsOK, RequestOK
<1>11. TypeOK'
  BY <1>2, <1>3, <1>8, <1>10 DEF NvcFetched, IInv, TypeOK, trax
<1>12. L1LinesOK' /\ L2LinesOK' /\ L1CallsOK' /\ L2CallsOK'
  BY Unchanged DEF NvcFetched, trax
<1>. QED BY <1>2, <1>9, <1>10, <1>11, <1>12, TagsJoin DEF IInv

-----------------------------------------------------------------------------
(* The steps of the program *)

\* The start of a transaction touches nothing the invariant speaks of.
LEMMA StartTxStep ==
  ASSUME IInv, NEW p \in Procs, StartTx(p)
  PROVE  IInv'
<1>1. persistent' \in [Procs -> BOOLEAN]
  BY DEF StartTx, IInv, TypeOK
<1>2. TypeOK'
  BY <1>1 DEF StartTx, IInv, TypeOK, buffers, calls
<1>3. /\ L1LinesOK' /\ L2LinesOK' /\ L1CallsOK' /\ L2CallsOK' /\ NvcCallsOK'
      /\ NvcStackOK' /\ BuffersOK'
  BY Unchanged DEF StartTx, buffers, calls
<1>. QED BY <1>2, <1>3, TagsJoin DEF IInv

\* The end of a transaction only raises the bound on every tag.
LEMMA EndTxStep ==
  ASSUME IInv, NEW p \in Procs, EndTx(p)
  PROVE  IInv'
<1>1. txId \in [Procs -> Txs] /\ txId[p] < TxBound
  BY DEF EndTx, IInv, TypeOK
<1>2. txId' = [txId EXCEPT ![p] = txId[p] + 1]
  BY DEF EndTx
<1>3. txId' \in [Procs -> Txs]
  BY <1>1, <1>2, KilnAssumption DEF Txs
<1>4. \A q \in Procs : /\ txId[q] \in Nat /\ txId'[q] \in Nat
                       /\ txId[q] <= txId'[q]
  BY <1>1, <1>2, KilnAssumption DEF Txs
<1>5. persistent' \in [Procs -> BOOLEAN]
  BY DEF EndTx, IInv, TypeOK
<1>6. TypeOK'
  BY <1>3, <1>5 DEF EndTx, IInv, TypeOK, buffers, calls
<1>7. ASSUME NEW q \in Procs, NEW tx \in Txs \cup {NoTx}, tx <= txId[q]
      PROVE  tx <= txId'[q]
  <2>1. tx \in Int
    BY KilnAssumption DEF Txs, NoTx
  <2>. QED BY <1>4, <1>7, <2>1
<1>8. L1LinesOK'
  <2>1. \A q \in Procs : \A i \in L1Slots :
          LineOK(q, l1[q][i]) /\ l1[q][i].tx \in Txs \cup {NoTx}
    BY DEF IInv, TypeOK, TagsAgree, PrivateLine
  <2>2. l1' = l1
    BY DEF EndTx
  <2>. QED BY <1>7, <2>1, <2>2 DEF L1LinesOK, LineOK
<1>9. L2LinesOK'
  <2>1. \A q \in Procs : \A i \in L2Slots :
          LineOK(q, l2[q][i]) /\ l2[q][i].tx \in Txs \cup {NoTx}
    BY DEF IInv, TypeOK, TagsAgree, PrivateLine
  <2>2. l2' = l2
    BY DEF EndTx
  <2>. QED BY <1>7, <2>1, <2>2 DEF L2LinesOK, LineOK
<1>10. L1CallsOK' /\ L2CallsOK' /\ NvcCallsOK'
  <2>1. \A q \in Procs : /\ l1call[q].req.epoch \in Txs \cup {NoTx}
                         /\ l2call[q].req.epoch \in Txs \cup {NoTx}
                         /\ nvccall[q].req.epoch \in Txs \cup {NoTx}
    BY CallFacts DEF ReqType
  <2>2. L1CallsOK /\ L2CallsOK /\ NvcCallsOK
    BY TagsSplit DEF IInv
  <2>3. l1call' = l1call /\ l2call' = l2call /\ nvccall' = nvccall
    BY DEF EndTx, calls
  <2>. QED BY <1>7, <2>1, <2>2, <2>3 DEF L1CallsOK, L2CallsOK, NvcCallsOK, RequestOK
<1>11. BuffersOK'
  <2>1. \A q \in Procs : /\ BufferOK(pb[q], nextPersist[q], txId[q])
                         /\ \A i \in PBLines : pb[q][i].tx \in Txs \cup {NoTx}
    BY DEF IInv, BuffersOK, TypeOK, EntryType
  <2>2. pb' = pb /\ nextPersist' = nextPersist
    BY DEF EndTx, buffers
  <2>. QED BY <1>7, <2>1, <2>2 DEF BuffersOK, BufferOK
<1>12. NvcStackOK'
  BY DEF EndTx, IInv, NvcStackOK
<1>. QED BY <1>6, <1>8, <1>9, <1>10, <1>11, <1>12, TagsJoin DEF IInv

\* The entry of l1_access: nextPersistTrax moves only together with the flush
\* that empties the buffer of the transaction it leaves behind.
LEMMA L1EnterStep ==
  ASSUME IInv, NEW p \in Procs, NEW req \in ReqType, RequestOK(p, req),
         L1Enter(p, req),
         UNCHANGED <<l1, l2, nvc, dram, nextAvail, persistent, txId, l2call, nvccall, nvcLock>>
  PROVE  IInv'
<1>. DEFINE newTrax == req.persistent /\ req.epoch > nextPersist[p]
            oldTrax == req.persistent /\ req.epoch < nextPersist[p]
            sent    == IF oldTrax THEN Volatile(req.addr, req.type) ELSE req
            flushed == Flush(pb[p], nextPersist[p])
<1>1. /\ pb \in [Procs -> BufferType] /\ nextPersist \in [Procs -> Txs]
      /\ nextPersist[p] \in Txs /\ txId[p] \in Txs
      /\ BufferOK(pb[p], nextPersist[p], txId[p])
  BY DEF IInv, TypeOK, BufferType, BuffersOK
<1>2. sent \in ReqType /\ RequestOK(p, sent)
  <2>1. req.addr \in Addrs \cup {0} /\ req.type \in AccessTypes
    BY DEF ReqType
  <2>. QED BY <2>1, VolatileOK
<1>3. l1call' = [l1call EXCEPT ![p] = Entered(sent)]
  BY DEF L1Enter
<1>. HIDE DEF sent
<1>4. l1call' \in [Procs -> FrameType(L1Slots)] /\ L1CallsOK'
  <2>1. l1call \in [Procs -> FrameType(L1Slots)] /\ L1CallsOK
    BY TagsSplit DEF IInv, TypeOK
  <2>2. Entered(sent) \in FrameType(L1Slots) /\ RequestOK(p, Entered(sent).req)
    BY <1>2, Geometry, FramesIn
  <2>. QED BY <1>3, <2>1, <2>2, CallStep DEF L1CallsOK, RequestOK
<1>5. /\ pb' \in [Procs -> [PBLines -> EntryType]]
      /\ nextPersist' \in [Procs -> Txs]
      /\ BuffersOK'
  <2>1. CASE newTrax
    <3>1. /\ flushed \in BufferType
          /\ BufferOK(flushed, nextPersist[p] + 1, txId[p])
      BY <1>1, FlushOK
    <3>2. nextPersist[p] + 1 \in Txs
      <4>1. req.epoch \in Txs \cup {NoTx} /\ req.epoch <= txId[p]
        BY <2>1 DEF ReqType, RequestOK
      <4>2. req.epoch \in Int
        BY <4>1, KilnAssumption DEF Txs, NoTx
      <4>. QED BY <1>1, <2>1, <4>1, <4>2, KilnAssumption DEF Txs
    <3>3. /\ pb' = [pb EXCEPT ![p] = flushed]
          /\ nextPersist' = [nextPersist EXCEPT ![p] = nextPersist[p] + 1]
      BY <2>1 DEF L1Enter
    <3>. HIDE DEF flushed
    <3>4. pb' \in [Procs -> BufferType] /\ nextPersist' \in [Procs -> Txs]
      BY <1>1, <3>1, <3>2, <3>3
    <3>5. ASSUME NEW q \in Procs
          PROVE  BufferOK(pb'[q], nextPersist'[q], txId'[q])
      <4>1. CASE q = p
        BY <1>1, <3>1, <3>3, <4>1
      <4>2. CASE q # p
        <5>1. pb'[q] = pb[q] /\ nextPersist'[q] = nextPersist[q] /\ txId'[q] = txId[q]
          BY <1>1, <3>3, <4>2
        <5>. QED BY <5>1 DEF IInv, BuffersOK
      <4>. QED BY <4>1, <4>2
    <3>. QED BY <3>4, <3>5 DEF BuffersOK, BufferType
  <2>2. CASE ~newTrax
    <3>1. pb' = pb /\ nextPersist' = nextPersist
      BY <2>2 DEF L1Enter
    <3>. QED BY <1>1, <3>1, Unchanged DEF BufferType
  <2>. QED BY <2>1, <2>2
<1>6. TypeOK'
  BY <1>4, <1>5 DEF IInv, TypeOK
<1>7. L1LinesOK' /\ L2LinesOK' /\ L2CallsOK' /\ NvcCallsOK' /\ NvcStackOK'
  BY Unchanged
<1>. QED BY <1>4, <1>5, <1>6, <1>7, TagsJoin DEF IInv

\* A load is a volatile request.
LEMMA RecordMemReadStep ==
  ASSUME IInv, NEW p \in Procs, NEW addr \in Addrs, RecordMemRead(p, addr)
  PROVE  IInv'
<1>. DEFINE req == Volatile(addr, "GETS")
<1>1. req \in ReqType /\ RequestOK(p, req)
  BY VolatileOK DEF AccessTypes
<1>2. /\ L1Enter(p, req)
      /\ UNCHANGED <<l1, l2, nvc, dram, nextAvail, persistent, txId, l2call, nvccall, nvcLock>>
  BY DEF RecordMemRead
<1>. HIDE DEF req
<1>. QED BY <1>1, <1>2, L1EnterStep

\* A store is persistent only inside a transaction and off the stack.
LEMMA StoreOK ==
  ASSUME IInv, NEW p \in Procs, NEW addr \in Addrs
  PROVE  StoreReq(p, addr) \in ReqType /\ RequestOK(p, StoreReq(p, addr))
<1>. DEFINE req == StoreReq(p, addr)
<1>1. CASE PersistentStore(p, addr)
  <2>1. txId[p] \in Txs /\ txId[p] <= txId[p] /\ addr \in Heap
    BY <1>1 DEF IInv, TypeOK, Txs, PersistentStore, Heap
  <2>2. req = Durable(addr, "GETX", txId[p], NoLine)
    BY <1>1 DEF StoreReq
  <2>. QED BY <2>1, <2>2 DEF Durable, ReqType, RequestOK, AccessTypes
<1>2. CASE ~PersistentStore(p, addr)
  <2>1. req = Volatile(addr, "GETX") /\ "GETX" \in AccessTypes
    BY <1>2 DEF StoreReq, AccessTypes
  <2>. QED BY <2>1, VolatileOK
<1>. QED BY <1>1, <1>2

\* Hence a store, too, enters l1_access with a proper request.
LEMMA RecordMemWriteStep ==
  ASSUME IInv, NEW p \in Procs, NEW addr \in Addrs, RecordMemWrite(p, addr)
  PROVE  IInv'
<1>. DEFINE req == StoreReq(p, addr)
<1>1. req \in ReqType /\ RequestOK(p, req)
  BY StoreOK
<1>2. /\ L1Enter(p, req)
      /\ UNCHANGED <<l1, l2, nvc, dram, nextAvail, persistent, txId, l2call, nvccall, nvcLock>>
  BY DEF RecordMemWrite
<1>. HIDE DEF req
<1>. QED BY <1>1, <1>2, L1EnterStep

-----------------------------------------------------------------------------
(* Theorems *)

\* SimInit establishes the invariant.
LEMMA InitIInv == Init => IInv
<1>. SUFFICES ASSUME Init PROVE IInv
  OBVIOUS
<1>1. Returned \in FrameType(L1Slots) /\ Returned \in FrameType(L2Slots)
        /\ Returned \in FrameType(NvcSlots)
  BY Geometry, FramesIn
<1>2. 0 \in PBLines /\ 0 \in Txs
  BY KilnAssumption DEF PBLines, Txs
<1>3. NoEntry \in EntryType /\ NoEntry.tx = NoTx /\ NoEntry.addr = NoLine /\ NoLine < StackBase
  BY NoEntryIn, KilnAssumption DEF NoEntry, NoLine
<1>4. EmptyLine \in PrivateLine(L1Ways) /\ EmptyLine \in PrivateLine(L2Ways)
        /\ EmptyLine.tx = NoTx /\ EmptyLine.pb = NoLine
  BY KilnAssumption DEF EmptyLine, PrivateLine, MESI
<1>5. EmptyNvcLine \in NvcLine /\ EmptyNvcLine.tx = NoTx
  BY KilnAssumption DEF EmptyNvcLine, NvcLine, MESI
<1>6. EmptyDramLine \in DramLine
  BY KilnAssumption DEF EmptyDramLine, DramLine, MESI
<1>7. TypeOK
  BY <1>1, <1>2, <1>3, <1>4, <1>5, <1>6 DEF Init, TypeOK
<1>8. TagsAgree
  <2>1. L1LinesOK /\ L2LinesOK
    BY <1>4 DEF Init, L1LinesOK, L2LinesOK, LineOK
  <2>2. \A q : RequestOK(q, Returned.req)
    BY Geometry, FramesIn
  <2>3. L1CallsOK /\ L2CallsOK /\ NvcCallsOK
    BY <2>2 DEF Init, L1CallsOK, L2CallsOK, NvcCallsOK
  <2>. QED BY <2>1, <2>3, TagsSplit
<1>9. BuffersOK
  BY <1>3 DEF Init, BuffersOK, BufferOK
<1>10. NvcStackOK
  BY <1>5 DEF Init, NvcStackOK
<1>. QED BY <1>7, <1>8, <1>9, <1>10 DEF IInv

\* Every step preserves it.
LEMMA NextIInv == IInv /\ [Next]_vars => IInv'
<1>. SUFFICES ASSUME IInv, [Next]_vars PROVE IInv'
  OBVIOUS
<1>1. ASSUME NEW p \in Procs, Program(p) PROVE IInv'
  BY <1>1, StartTxStep, EndTxStep, RecordMemReadStep, RecordMemWriteStep DEF Program
<1>2. ASSUME NEW p \in Procs, L1Access(p) PROVE IInv'
  BY <1>2, L1HitStep, L1MissStep, L1EvictedStep, L1FetchedStep DEF L1Access
<1>3. ASSUME NEW p \in Procs, L2Access(p) PROVE IInv'
  BY <1>3, L2HitStep, L2MissStep, L2EvictedStep, L2FetchedStep DEF L2Access
<1>4. ASSUME NEW p \in Procs, NvcAccess(p) PROVE IInv'
  BY <1>4, NvcHitStep, NvcMissStep, NvcFetchedStep DEF NvcAccess
<1>5. CASE UNCHANGED vars
  <2>1. /\ L1LinesOK' /\ L2LinesOK' /\ L1CallsOK' /\ L2CallsOK' /\ NvcCallsOK'
        /\ NvcStackOK' /\ BuffersOK'
    BY <1>5, Unchanged DEF vars, buffers, calls, trax
  <2>2. TypeOK'
    BY <1>5 DEF IInv, TypeOK, vars, buffers, calls, trax
  <2>. QED BY <2>1, <2>2, TagsJoin DEF IInv
<1>. QED BY <1>1, <1>2, <1>3, <1>4, <1>5 DEF Next, Access

\* The inductive invariant holds in every reachable state.
THEOREM Invariance == Spec => []IInv
BY InitIInv, NextIInv, PTL DEF Spec

\* Every variable keeps its type, whatever the sizes.
THEOREM TypeCorrect == Spec => []TypeOK
<1>1. IInv => TypeOK
  BY DEF IInv
<1>. QED BY <1>1, Invariance, PTL

\* A flushed transaction never comes back into the persist buffer, although
\* its lines are still in the caches with their tags.
THEOREM PBWindowHolds == Spec => []PBWindow
BY IInvImplies, Invariance, PTL

\* insert_PB, called for one line from four levels, enters it at most once.
THEOREM PBDistinctHolds == Spec => []PBDistinct
BY IInvImplies, Invariance, PTL

\* A stack address is never persistent at any level.
THEOREM StackVolatileHolds == Spec => []StackVolatile
BY IInvImplies, Invariance, PTL

\* The two tags of a line agree wherever evict relies on it.
THEOREM TagsAgreeHolds == Spec => []TagsAgree
<1>1. IInv => TagsAgree
  BY DEF IInv
<1>. QED BY <1>1, Invariance, PTL

-----------------------------------------------------------------------------
(* Where lines are: every step of a cache *)

\* An eviction moves no line.
LEMMA InvalidatedIs ==
  ASSUME NEW S, NEW ways, NEW i \in S, NEW cache \in [S -> PrivateLine(ways)]
  PROVE  \A j \in S : /\ Invalidated(cache, i)[j].addr = cache[j].addr
                      /\ Invalidated(cache, i)[j].tx = cache[j].tx
                      /\ Invalidated(cache, i)[j].pb = cache[j].pb
<1>. DEFINE line == [cache[i] EXCEPT !.state = "I"]
<1>1. Invalidated(cache, i) = [cache EXCEPT ![i] = line]
  BY DEF Invalidated
<1>2. line.addr = cache[i].addr /\ line.tx = cache[i].tx /\ line.pb = cache[i].pb
  BY DEF PrivateLine
<1>. HIDE DEF line
<1>. QED BY <1>1, <1>2

\* The state of the slot a request was served from.
LEMMA ServedState ==
  ASSUME NEW S, NEW ways \in Nat, NEW slots, NEW i \in S, NEW req \in ReqType, NEW tag,
         NEW cache \in [S -> PrivateLine(ways)]
  PROVE  Tagged(PostInsert(cache, slots, ways, i, req), i, tag)[i].state =
           StateAfter(req.type, cache[i].state)
<1>. DEFINE ins == PostInsert(cache, slots, ways, i, req)
            st  == StateAfter(req.type, cache[i].state)
            rank(j) == RankAfter(cache, slots, ways, i, j)
            put == [cache[i] EXCEPT !.addr = req.addr, !.state = st, !.ts = rank(i)]
            line == [put EXCEPT !.tx = tag.tx, !.pb = tag.pb]
<1>1. cache[i] \in PrivateLine(ways)
  OBVIOUS
<1>2. ins = [j \in S |-> IF j = i
                         THEN [cache[j] EXCEPT !.addr  = req.addr,
                                               !.state = StateAfter(req.type, @),
                                               !.ts    = rank(j)]
                         ELSE [cache[j] EXCEPT !.ts = rank(j)]]
  BY DEF PostInsert
<1>3. ins[i] = put
  BY <1>1, <1>2 DEF PrivateLine
<1>4. line.state = st
  <2>. HIDE DEF rank, st
  <2>. QED BY <1>1 DEF PrivateLine
<1>5. i \in DOMAIN ins
  BY <1>2
<1>. HIDE DEF ins, put, st
<1>6. Tagged(ins, i, tag)[i] = [ins[i] EXCEPT !.tx = tag.tx, !.pb = tag.pb]
  BY <1>5 DEF Tagged
<1>. QED BY <1>3, <1>4, <1>6 DEF ins, st

-----------------------------------------------------------------------------
(* The inductive invariant *)

\* The private caches are in order, and while l1_access, or l2_access, is
\* under way after a miss, the line it misses stays missing: its own eviction
\* cannot bring it in.
L1Home(q) ==
  /\ AtHome(l1[q], L1Slots, L1Sets, L1Ways) /\ Distinct(l1[q], L1Slots)
  /\ l1call[q].stage \in {"evicting", "fetching"} =>
       /\ l1call[q].slot \in L1Set(l1call[q].req.addr)
       /\ L1Lookup(q, l1call[q].req.addr) = {}

L2Home(q) ==
  /\ AtHome(l2[q], L2Slots, L2Sets, L2Ways) /\ Distinct(l2[q], L2Slots)
  /\ l2call[q].stage \in {"evicting", "fetching"} =>
       /\ l2call[q].slot \in L2Set(l2call[q].req.addr)
       /\ L2Lookup(q, l2call[q].req.addr) = {}

\* While L1 evicts, what L2 works on is its write-back, and in the end L2 has
\* the line.
Landed(q, line) ==
  \E i \in L2Lookup(q, line.addr) :
    /\ l2[q][i].state # "I"
    /\ line.state = "M" => l2[q][i].state = "M"
    /\ l2[q][i].tx = line.tx

Landing(q) ==
  l1call[q].stage = "evicting" =>
    /\ l1[q][l1call[q].slot].state # "I"
    /\ l2call[q].stage = "idle" => Landed(q, l1[q][l1call[q].slot])
    /\ l2call[q].stage # "idle" => l2call[q].req = L1Writeback(l1[q][l1call[q].slot])

\* The transactions of tags and requests have begun: more than TagsAgree says,
\* which allows for the running one when the process is outside it.
AllBegun(q) ==
  /\ \A i \in L1Slots : l1[q][i].pb # NoLine => Begun(q, l1[q][i].tx)
  /\ \A i \in L2Slots : l2[q][i].pb # NoLine => Begun(q, l2[q][i].tx)
  /\ l1call[q].req.persistent => Begun(q, l1call[q].req.epoch)
  /\ l2call[q].req.persistent => Begun(q, l2call[q].req.epoch)
  /\ nvccall[q].req.persistent => Begun(q, nvccall[q].req.epoch)

PrivateInv(q) == L1Home(q) /\ L2Home(q) /\ Landing(q) /\ AllBegun(q)

\* The shared caches are in order.
NvcHome ==
  /\ AtHome(nvc, NvcSlots, NvcSets, NvcWays) /\ DistinctOwned(nvc, NvcSlots)
  /\ \A q \in Procs :
       nvccall[q].stage = "fetching" => nvccall[q].slot \in NvcSet(nvccall[q].req.addr)

DramHome == AtHome(dram, DramSlots, DramSets, DramWays) /\ DistinctOwned(dram, DramSlots)

CInv ==
  /\ IInv
  /\ \A q \in Procs : PrivateInv(q)
  /\ NvcHome /\ DramHome /\ NvcCritical /\ NvcTagOfOwner

\* It implies what the runs check.
LEMMA CInvImplies == CInv => CachesUnique /\ WritebackLands /\ NvcCritical /\ NvcTagOfOwner
<1>. SUFFICES ASSUME CInv PROVE CachesUnique /\ WritebackLands /\ NvcCritical /\ NvcTagOfOwner
  OBVIOUS
<1>1. CachesUnique
  BY DEF CInv, PrivateInv, L1Home, L2Home, NvcHome, DramHome, Distinct, DistinctOwned,
         CachesUnique
<1>2. WritebackLands
  BY DEF CInv, PrivateInv, Landing, Landed, WritebackLands
<1>. QED BY <1>1, <1>2 DEF CInv

-----------------------------------------------------------------------------
(* What a step leaves alone *)

\* The private parts depend on the process's own variables only.
LEMMA SameParts ==
  ASSUME CInv, NEW q \in Procs
  PROVE  /\ l1'[q] = l1[q] /\ l1call'[q] = l1call[q] => L1Home(q)'
         /\ l2'[q] = l2[q] /\ l2call'[q] = l2call[q] => L2Home(q)'
         /\ l1'[q] = l1[q] /\ l1call'[q] = l1call[q] /\ l2'[q] = l2[q] /\ l2call'[q] = l2call[q]
              => Landing(q)'
<1>1. L1Home(q) /\ L2Home(q) /\ Landing(q)
  BY DEF CInv, PrivateInv
<1>2. l1'[q] = l1[q] /\ l1call'[q] = l1call[q] => L1Home(q)'
  BY <1>1 DEF L1Home, L1Lookup, Holding
<1>3. l2'[q] = l2[q] /\ l2call'[q] = l2call[q] => L2Home(q)'
  BY <1>1 DEF L2Home, L2Lookup, Holding
<1>4. l1'[q] = l1[q] /\ l1call'[q] = l1call[q] /\ l2'[q] = l2[q] /\ l2call'[q] = l2call[q]
        => Landing(q)'
  BY <1>1 DEF Landing, Landed, L2Lookup, Holding
<1>. QED BY <1>2, <1>3, <1>4

\* A transaction that has begun stays so.
LEMMA BegunGrows ==
  ASSUME TypeOK, NEW p \in Procs, Program(p) \/ Access(p),
         NEW q \in Procs, NEW tx \in Txs \cup {NoTx}, Begun(q, tx)
  PROVE  Begun(q, tx)'
<1>1. txId \in [Procs -> Txs] /\ persistent \in [Procs -> BOOLEAN]
  BY DEF TypeOK
<1>2. txId[q] \in Int /\ tx \in Int
  BY <1>1, KilnAssumption DEF Txs, NoTx
<1>3. CASE StartTx(p)
  BY <1>1, <1>2, <1>3 DEF StartTx, Begun
<1>4. CASE EndTx(p)
  <2>1. txId' = [txId EXCEPT ![p] = txId[p] + 1] /\ persistent' = [persistent EXCEPT ![p] = FALSE]
    BY <1>4 DEF EndTx
  <2>2. CASE q = p
    <3>1. txId'[q] = txId[q] + 1
      BY <1>1, <2>1, <2>2
    <3>2. tx <= txId[q]
      BY <1>2 DEF Begun
    <3>. QED BY <1>2, <3>1, <3>2 DEF Begun
  <2>3. CASE q # p
    <3>1. txId'[q] = txId[q] /\ persistent'[q] = persistent[q]
      BY <1>1, <2>1, <2>3
    <3>. QED BY <3>1 DEF Begun
  <2>. QED BY <2>2, <2>3
<1>5. CASE txId' = txId /\ persistent' = persistent
  BY <1>5 DEF Begun
<1>6. ~StartTx(p) /\ ~EndTx(p) => txId' = txId /\ persistent' = persistent
  BY DEF Program, RecordMemRead, RecordMemWrite, Access, L1Access, L2Access, NvcAccess,
     L1Hit, L1Miss, L1Evicted, L1Fetched, L2Hit, L2Miss, L2Evicted, L2Fetched,
     NvcHit, NvcMiss, NvcFetched, trax
<1>. QED BY <1>3, <1>4, <1>5, <1>6

\* What tags and requests carry, unless it is new.
LEMMA BegunStays ==
  ASSUME CInv, NEW p \in Procs, Program(p) \/ Access(p), NEW q \in Procs,
         \A i \in L1Slots :
           l1'[q][i].pb # NoLine =>
             \/ l1[q][i].pb # NoLine /\ l1'[q][i].tx = l1[q][i].tx
             \/ Begun(q, l1[q][i].tx)',
         \A i \in L2Slots :
           l2'[q][i].pb # NoLine =>
             \/ l2[q][i].pb # NoLine /\ l2'[q][i].tx = l2[q][i].tx
             \/ Begun(q, l2[q][i].tx)',
         l1call'[q].req.persistent => l1call'[q].req = l1call[q].req \/ Begun(q, l1call[q].req.epoch)',
         l2call'[q].req.persistent => l2call'[q].req = l2call[q].req \/ Begun(q, l2call[q].req.epoch)',
         nvccall'[q].req.persistent => nvccall'[q].req = nvccall[q].req \/ Begun(q, nvccall[q].req.epoch)'
  PROVE  AllBegun(q)'
<1>1. AllBegun(q) /\ TypeOK /\ IInv
  BY DEF CInv, PrivateInv, IInv
<1>2. \A tx \in Txs \cup {NoTx} : Begun(q, tx) => Begun(q, tx)'
  BY <1>1, BegunGrows
<1>3. /\ \A i \in L1Slots : l1[q][i].tx \in Txs \cup {NoTx}
      /\ \A i \in L2Slots : l2[q][i].tx \in Txs \cup {NoTx}
  BY <1>1 DEF TypeOK, PrivateLine
<1>4. /\ l1call[q].req.epoch \in Txs \cup {NoTx}
      /\ l2call[q].req.epoch \in Txs \cup {NoTx}
      /\ nvccall[q].req.epoch \in Txs \cup {NoTx}
  BY <1>1, CallFacts DEF ReqType
<1>5. \A i \in L1Slots : l1'[q][i].pb # NoLine => Begun(q, l1[q][i].tx)'
  <2>1. \A i \in L1Slots : l1[q][i].pb # NoLine => Begun(q, l1[q][i].tx)
    BY <1>1 DEF AllBegun
  <2>. SUFFICES ASSUME NEW i \in L1Slots, l1[q][i].pb # NoLine, l1'[q][i].tx = l1[q][i].tx
       PROVE  Begun(q, l1[q][i].tx)'
    OBVIOUS
  <2>2. PICK tx \in Txs \cup {NoTx} : tx = l1[q][i].tx
    BY <1>3
  <2>3. Begun(q, tx)'
    BY <1>2, <2>1, <2>2
  <2>. QED BY <2>2, <2>3 DEF Begun
<1>6. \A i \in L2Slots : l2'[q][i].pb # NoLine => Begun(q, l2[q][i].tx)'
  <2>1. \A i \in L2Slots : l2[q][i].pb # NoLine => Begun(q, l2[q][i].tx)
    BY <1>1 DEF AllBegun
  <2>. SUFFICES ASSUME NEW i \in L2Slots, l2[q][i].pb # NoLine, l2'[q][i].tx = l2[q][i].tx
       PROVE  Begun(q, l2[q][i].tx)'
    OBVIOUS
  <2>2. PICK tx \in Txs \cup {NoTx} : tx = l2[q][i].tx
    BY <1>3
  <2>3. Begun(q, tx)'
    BY <1>2, <2>1, <2>2
  <2>. QED BY <2>2, <2>3 DEF Begun
<1>8. l1call'[q].req.persistent => Begun(q, l1call[q].req.epoch)'
  <2>. SUFFICES ASSUME l1call'[q].req.persistent, l1call'[q].req = l1call[q].req
       PROVE  Begun(q, l1call[q].req.epoch)'
    OBVIOUS
  <2>1. PICK tx \in Txs \cup {NoTx} : tx = l1call[q].req.epoch
    BY <1>4
  <2>. QED BY <1>1, <1>2, <2>1 DEF AllBegun, Begun
<1>9. l2call'[q].req.persistent => Begun(q, l2call[q].req.epoch)'
  <2>. SUFFICES ASSUME l2call'[q].req.persistent, l2call'[q].req = l2call[q].req
       PROVE  Begun(q, l2call[q].req.epoch)'
    OBVIOUS
  <2>1. PICK tx \in Txs \cup {NoTx} : tx = l2call[q].req.epoch
    BY <1>4
  <2>. QED BY <1>1, <1>2, <2>1 DEF AllBegun, Begun
<1>10. nvccall'[q].req.persistent => Begun(q, nvccall[q].req.epoch)'
  <2>. SUFFICES ASSUME nvccall'[q].req.persistent, nvccall'[q].req = nvccall[q].req
       PROVE  Begun(q, nvccall[q].req.epoch)'
    OBVIOUS
  <2>1. PICK tx \in Txs \cup {NoTx} : tx = nvccall[q].req.epoch
    BY <1>4
  <2>. QED BY <1>1, <1>2, <2>1 DEF AllBegun, Begun
<1>. QED BY <1>5, <1>6, <1>8, <1>9, <1>10 DEF AllBegun

\* A step of p changes nothing that is private to another process.
LEMMA Others ==
  ASSUME CInv, NEW p \in Procs, Program(p) \/ Access(p), NEW q \in Procs, q # p
  PROVE  /\ l1'[q] = l1[q] /\ l2'[q] = l2[q]
         /\ l1call'[q] = l1call[q] /\ l2call'[q] = l2call[q] /\ nvccall'[q] = nvccall[q]
<1>1. /\ l1 = [r \in Procs |-> l1[r]] /\ l2 = [r \in Procs |-> l2[r]]
      /\ l1call = [r \in Procs |-> l1call[r]] /\ l2call = [r \in Procs |-> l2call[r]]
      /\ nvccall = [r \in Procs |-> nvccall[r]]
  BY DEF CInv, IInv, TypeOK
<1>2. CASE Program(p)
  BY <1>1, <1>2 DEF Program, StartTx, EndTx, RecordMemRead, RecordMemWrite, L1Enter, calls
<1>3. CASE L1Access(p)
  BY <1>1, <1>3 DEF L1Access, L1Hit, L1Miss, L1Evicted, L1Fetched, L1Serve
<1>4. CASE L2Access(p)
  BY <1>1, <1>4 DEF L2Access, L2Hit, L2Miss, L2Evicted, L2Fetched, L2Serve
<1>5. CASE NvcAccess(p)
  BY <1>1, <1>5 DEF NvcAccess, NvcHit, NvcMiss, NvcFetched
<1>. QED BY <1>2, <1>3, <1>4, <1>5 DEF Access

LEMMA OthersPrivate ==
  ASSUME CInv, NEW p \in Procs, Program(p) \/ Access(p), NEW q \in Procs, q # p
  PROVE  PrivateInv(q)'
<1>1. /\ l1'[q] = l1[q] /\ l2'[q] = l2[q]
      /\ l1call'[q] = l1call[q] /\ l2call'[q] = l2call[q] /\ nvccall'[q] = nvccall[q]
  BY Others
<1>2. AllBegun(q)'
  BY <1>1, BegunStays
<1>. QED BY <1>1, <1>2, SameParts DEF PrivateInv

-----------------------------------------------------------------------------
(* A private cache serves a request *)

\* Its line is the only one there, and carries what the request carries.
LEMMA L1ServeHome ==
  ASSUME CInv, NEW p \in Procs, NEW req \in ReqType, NEW slot \in L1Slots, L1Serve(p, req, slot),
         slot \in L1Set(req.addr),
         req.addr # 0 => \A j \in L1Lookup(p, req.addr) : j = slot,
         req.persistent => Begun(p, req.epoch)'
  PROVE  /\ AtHome(l1'[p], L1Slots, L1Sets, L1Ways) /\ Distinct(l1'[p], L1Slots)
         /\ \A i \in L1Slots :
              l1'[p][i].pb # NoLine =>
                \/ l1[p][i].pb # NoLine /\ l1'[p][i].tx = l1[p][i].tx
                \/ Begun(p, l1[p][i].tx)'
         /\ l1'[p][slot].addr = req.addr
         /\ l1'[p][slot].state = StateAfter(req.type, l1[p][slot].state)
         /\ l1'[p][slot].tx = IF req.persistent THEN req.epoch ELSE NoTx
<1>. DEFINE tag == Tag(nextAvail[p], req)
            new == Tagged(PostInsert(l1[p], L1Set(req.addr), L1Ways, slot, req), slot, tag)
<1>1. /\ l1 \in [Procs -> [L1Slots -> PrivateLine(L1Ways)]] /\ nextAvail[p] \in PBLines
      /\ l1[p] \in [L1Slots -> PrivateLine(L1Ways)]
      /\ AtHome(l1[p], L1Slots, L1Sets, L1Ways) /\ Distinct(l1[p], L1Slots)
      /\ L1Ways \in Nat
  BY KilnAssumption DEF CInv, IInv, TypeOK, PrivateInv, L1Home
<1>2. /\ tag \in [tx : Txs \cup {NoTx}, pb : PBLines \cup {NoLine}]
      /\ req.persistent => tag.tx = req.epoch
      /\ ~req.persistent => tag.pb = NoLine /\ tag.tx = NoTx
  BY <1>1, TagIn
<1>3. l1'[p] = new
  BY <1>1 DEF L1Serve
<1>. HIDE DEF tag
<1>4. /\ \A j \in L1Slots \ {slot} : /\ new[j].addr = l1[p][j].addr
                                     /\ new[j].tx = l1[p][j].tx
                                     /\ new[j].pb = l1[p][j].pb
      /\ new[slot].addr = req.addr /\ new[slot].tx = tag.tx /\ new[slot].pb = tag.pb
      /\ new[slot].state = StateAfter(req.type, l1[p][slot].state)
  BY <1>1, <1>2, PrivateInsert, ServedState
<1>. HIDE DEF new
<1>5. AtHome(new, L1Slots, L1Sets, L1Ways) /\ Distinct(new, L1Slots)
  <2>1. slot \in SetSlots(new[slot].addr, L1Sets, L1Ways)
    BY <1>4 DEF L1Set
  <2>2. new[slot].addr # 0 =>
          \A j \in Holding(l1[p], SetSlots(new[slot].addr, L1Sets, L1Ways), new[slot].addr) : j = slot
    BY <1>4 DEF L1Set, L1Lookup
  <2>3. \A j \in L1Slots \ {slot} : new[j].addr = l1[p][j].addr
    BY <1>4
  <2>. QED BY <1>1, <2>1, <2>2, <2>3, Placed
<1>6. \A i \in L1Slots :
        new[i].pb # NoLine =>
          \/ l1[p][i].pb # NoLine /\ new[i].tx = l1[p][i].tx
          \/ i = slot /\ req.persistent
  BY <1>2, <1>4
<1>7. req.persistent => Begun(p, l1[p][slot].tx)'
  BY <1>2, <1>3, <1>4 DEF Begun
<1>. QED BY <1>2, <1>3, <1>4, <1>5, <1>6, <1>7

LEMMA L2ServeHome ==
  ASSUME CInv, NEW p \in Procs, NEW req \in ReqType, NEW slot \in L2Slots, L2Serve(p, req, slot),
         slot \in L2Set(req.addr),
         req.addr # 0 => \A j \in L2Lookup(p, req.addr) : j = slot,
         req.persistent => Begun(p, req.epoch)'
  PROVE  /\ AtHome(l2'[p], L2Slots, L2Sets, L2Ways) /\ Distinct(l2'[p], L2Slots)
         /\ \A i \in L2Slots :
              l2'[p][i].pb # NoLine =>
                \/ l2[p][i].pb # NoLine /\ l2'[p][i].tx = l2[p][i].tx
                \/ Begun(p, l2[p][i].tx)'
         /\ l2'[p][slot].addr = req.addr
         /\ l2'[p][slot].state = StateAfter(req.type, l2[p][slot].state)
         /\ l2'[p][slot].tx = IF req.persistent THEN req.epoch ELSE NoTx
<1>. DEFINE tag == Tag(nextAvail[p], req)
            new == Tagged(PostInsert(l2[p], L2Set(req.addr), L2Ways, slot, req), slot, tag)
<1>1. /\ l2 \in [Procs -> [L2Slots -> PrivateLine(L2Ways)]] /\ nextAvail[p] \in PBLines
      /\ l2[p] \in [L2Slots -> PrivateLine(L2Ways)]
      /\ AtHome(l2[p], L2Slots, L2Sets, L2Ways) /\ Distinct(l2[p], L2Slots)
      /\ L2Ways \in Nat
  BY KilnAssumption DEF CInv, IInv, TypeOK, PrivateInv, L2Home
<1>2. /\ tag \in [tx : Txs \cup {NoTx}, pb : PBLines \cup {NoLine}]
      /\ req.persistent => tag.tx = req.epoch
      /\ ~req.persistent => tag.pb = NoLine /\ tag.tx = NoTx
  BY <1>1, TagIn
<1>3. l2'[p] = new
  BY <1>1 DEF L2Serve
<1>. HIDE DEF tag
<1>4. /\ \A j \in L2Slots \ {slot} : /\ new[j].addr = l2[p][j].addr
                                     /\ new[j].tx = l2[p][j].tx
                                     /\ new[j].pb = l2[p][j].pb
      /\ new[slot].addr = req.addr /\ new[slot].tx = tag.tx /\ new[slot].pb = tag.pb
      /\ new[slot].state = StateAfter(req.type, l2[p][slot].state)
  BY <1>1, <1>2, PrivateInsert, ServedState
<1>. HIDE DEF new
<1>5. AtHome(new, L2Slots, L2Sets, L2Ways) /\ Distinct(new, L2Slots)
  <2>1. slot \in SetSlots(new[slot].addr, L2Sets, L2Ways)
    BY <1>4 DEF L2Set
  <2>2. new[slot].addr # 0 =>
          \A j \in Holding(l2[p], SetSlots(new[slot].addr, L2Sets, L2Ways), new[slot].addr) : j = slot
    BY <1>4 DEF L2Set, L2Lookup
  <2>3. \A j \in L2Slots \ {slot} : new[j].addr = l2[p][j].addr
    BY <1>4
  <2>. QED BY <1>1, <2>1, <2>2, <2>3, Placed
<1>6. \A i \in L2Slots :
        new[i].pb # NoLine =>
          \/ l2[p][i].pb # NoLine /\ new[i].tx = l2[p][i].tx
          \/ i = slot /\ req.persistent
  BY <1>2, <1>4
<1>7. req.persistent => Begun(p, l2[p][slot].tx)'
  BY <1>2, <1>3, <1>4 DEF Begun
<1>. QED BY <1>2, <1>3, <1>4, <1>5, <1>6, <1>7

\* The slot a lookup finds is the only one.
LEMMA HitIs ==
  ASSUME NEW cache, NEW S, S \subseteq Nat, NEW slots, slots \subseteq S, NEW addr,
         Holding(cache, slots, addr) # {}, Distinct(cache, S)
  PROVE  LET i == Min(Holding(cache, slots, addr))
         IN  /\ i \in slots /\ i \in S
             /\ addr # 0 => \A j \in Holding(cache, slots, addr) : j = i
<1>. DEFINE H == Holding(cache, slots, addr)
            i == Min(H)
<1>1. H \subseteq S /\ H \subseteq Nat /\ \A j \in H : j \in slots /\ cache[j].addr = addr
  BY DEF Holding
<1>2. i \in H
  BY <1>1, MinIn
<1>. HIDE DEF H, i
<1>3. addr # 0 => \A j \in H : j = i
  BY <1>1, <1>2 DEF Distinct
<1>. QED BY <1>1, <1>2, <1>3 DEF H, i

-----------------------------------------------------------------------------
(* The private parts, action by action *)

\* What is known before l1_access and l2_access go on.
LEMMA PrivateFacts ==
  ASSUME CInv, NEW p \in Procs
  PROVE  /\ l1 \in [Procs -> [L1Slots -> PrivateLine(L1Ways)]]
         /\ l2 \in [Procs -> [L2Slots -> PrivateLine(L2Ways)]]
         /\ l1call \in [Procs -> FrameType(L1Slots)]
         /\ l2call \in [Procs -> FrameType(L2Slots)]
         /\ nvccall \in [Procs -> FrameType(NvcSlots)]
         /\ l1call[p].req \in ReqType /\ l1call[p].slot \in L1Slots
         /\ l2call[p].req \in ReqType /\ l2call[p].slot \in L2Slots
         /\ nvccall[p].req \in ReqType /\ nvccall[p].slot \in NvcSlots
         /\ L1Home(p) /\ L2Home(p) /\ Landing(p) /\ AllBegun(p)
BY CallFacts DEF CInv, IInv, TypeOK, PrivateInv

\* Frames, field by field.
LEMMA FrameIs ==
  /\ Returned.stage = "idle" /\ ~Returned.req.persistent
  /\ \A req : Entered(req).req = req /\ Entered(req).stage = "enter"
  /\ \A req, slot : /\ Evicting(req, slot).req = req /\ Evicting(req, slot).slot = slot
                    /\ Evicting(req, slot).stage = "evicting"
                    /\ Fetching(req, slot).req = req /\ Fetching(req, slot).slot = slot
                    /\ Fetching(req, slot).stage = "fetching"
BY DEF Returned, Volatile, Entered, Evicting, Fetching

LEMMA L1ServedPrivate ==
  ASSUME CInv, NEW p \in Procs, NEW slot \in L1Slots, L1Hit(p) \/ L1Fetched(p),
         L1Serve(p, l1call[p].req, slot),
         slot \in L1Set(l1call[p].req.addr),
         l1call[p].req.addr # 0 => \A j \in L1Lookup(p, l1call[p].req.addr) : j = slot,
         l1call' = [l1call EXCEPT ![p] = Returned],
         UNCHANGED <<l2, l2call, nvccall>>
  PROVE  PrivateInv(p)'
<1>1. PICK req \in ReqType : req = l1call[p].req
  BY PrivateFacts
<1>2. Access(p)
  BY DEF Access, L1Access
<1>3. req.persistent => Begun(p, req.epoch)'
  <2>1. req.persistent => Begun(p, req.epoch)
    BY <1>1, PrivateFacts DEF AllBegun
  <2>2. req.epoch \in Txs \cup {NoTx} /\ TypeOK
    BY DEF ReqType, CInv, IInv
  <2>. QED BY <1>2, <2>1, <2>2, BegunGrows
<1>4. /\ AtHome(l1'[p], L1Slots, L1Sets, L1Ways) /\ Distinct(l1'[p], L1Slots)
      /\ \A i \in L1Slots :
           l1'[p][i].pb # NoLine =>
             \/ l1[p][i].pb # NoLine /\ l1'[p][i].tx = l1[p][i].tx
             \/ Begun(p, l1[p][i].tx)'
  BY <1>1, <1>3, L1ServeHome
<1>5. l1call'[p] = Returned /\ Returned.stage = "idle" /\ ~Returned.req.persistent
  BY PrivateFacts, FrameIs
<1>6. L1Home(p)' /\ Landing(p)'
  BY <1>4, <1>5 DEF L1Home, Landing
<1>7. L2Home(p)'
  BY SameParts
<1>8. AllBegun(p)'
  BY <1>2, <1>4, <1>5, BegunStays
<1>. QED BY <1>6, <1>7, <1>8 DEF PrivateInv

LEMMA L1HitPrivate ==
  ASSUME CInv, NEW p \in Procs, L1Hit(p)
  PROVE  PrivateInv(p)'
<1>. DEFINE addr == l1call[p].req.addr
            slot == Min(L1Lookup(p, addr))
<1>1. L1Set(addr) \subseteq L1Slots /\ L1Slots \subseteq Nat /\ Distinct(l1[p], L1Slots)
  BY PrivateFacts, SetsIn, Geometry DEF L1Home
<1>2. /\ slot \in L1Set(addr) /\ slot \in L1Slots
      /\ addr # 0 => \A j \in L1Lookup(p, addr) : j = slot
  BY <1>1, HitIs DEF L1Hit, L1Lookup
<1>. HIDE DEF slot
<1>3. L1Serve(p, l1call[p].req, slot)
  BY DEF L1Hit, slot
<1>. QED BY <1>2, <1>3, L1ServedPrivate DEF L1Hit

LEMMA L1FetchedPrivate ==
  ASSUME CInv, NEW p \in Procs, L1Fetched(p)
  PROVE  PrivateInv(p)'
<1>1. /\ l1call[p].slot \in L1Slots
      /\ l1call[p].slot \in L1Set(l1call[p].req.addr)
      /\ L1Lookup(p, l1call[p].req.addr) = {}
  BY PrivateFacts DEF L1Fetched, L1Home
<1>. QED BY <1>1, L1ServedPrivate DEF L1Fetched

\* A request travels down as it is, or is the write-back of a private line.
LEMMA WritebackBegun ==
  ASSUME CInv, NEW p \in Procs, Access(p)
  PROVE  /\ \A i \in L1Slots :
              L1Writeback(l1[p][i]).persistent => Begun(p, L1Writeback(l1[p][i]).epoch)
         /\ \A i \in L2Slots :
              L2Writeback(l2[p][i]).persistent => Begun(p, L2Writeback(l2[p][i]).epoch)
         /\ \A i \in L1Slots : L1Writeback(l1[p][i]) \in ReqType
         /\ \A i \in L2Slots : L2Writeback(l2[p][i]) \in ReqType
         /\ \A req \in ReqType :
              (req.persistent => Begun(p, req.epoch)) => (req.persistent => Begun(p, req.epoch)')
<1>1. /\ AllBegun(p) /\ TypeOK
      /\ \A i \in L1Slots : l1[p][i] \in PrivateLine(L1Ways) /\ LineOK(p, l1[p][i])
      /\ \A i \in L2Slots : l2[p][i] \in PrivateLine(L2Ways) /\ LineOK(p, l2[p][i])
  BY DEF CInv, PrivateInv, IInv, TypeOK, TagsAgree
<1>2. \A i \in L1Slots :
        L1Writeback(l1[p][i]).persistent => Begun(p, L1Writeback(l1[p][i]).epoch)
  BY <1>1 DEF AllBegun, L1Writeback, Volatile, Durable
<1>3. \A i \in L2Slots :
        L2Writeback(l2[p][i]).persistent => Begun(p, L2Writeback(l2[p][i]).epoch)
  BY <1>1 DEF AllBegun, L2Writeback, Volatile, Durable
<1>4. /\ \A i \in L1Slots : L1Writeback(l1[p][i]) \in ReqType
      /\ \A i \in L2Slots : L2Writeback(l2[p][i]) \in ReqType
  BY <1>1, WritebackOK
<1>5. ASSUME NEW req \in ReqType, req.persistent, Begun(p, req.epoch)
      PROVE  Begun(p, req.epoch)'
  <2>1. req.epoch \in Txs \cup {NoTx}
    BY DEF ReqType
  <2>. QED BY <1>1, <1>5, <2>1, BegunGrows
<1>. QED BY <1>2, <1>3, <1>4, <1>5

LEMMA L1MissPrivate ==
  ASSUME CInv, NEW p \in Procs, L1Miss(p)
  PROVE  PrivateInv(p)'
<1>1. PICK req \in ReqType : req = l1call[p].req
  BY PrivateFacts
<1>. DEFINE slot == L1Preinsert(p, req.addr)
<1>2. Access(p) /\ UNCHANGED <<l1, l2, nvccall>>
  BY DEF Access, L1Access, L1Miss
<1>3. slot \in L1Slots /\ slot \in L1Set(req.addr) /\ L1Lookup(p, req.addr) = {}
  <2>1. L1Set(req.addr) \subseteq L1Slots /\ L1Set(req.addr) # {} /\ L1Slots \subseteq Nat
    BY SetsIn, Geometry
  <2>2. \A i \in L1Slots : l1[p][i].ts \in Nat
    BY PrivateFacts, KilnAssumption DEF PrivateLine
  <2>3. L1Set(req.addr) \subseteq Nat /\ \A i \in L1Set(req.addr) : l1[p][i].ts \in Nat
    BY <2>1, <2>2
  <2>. QED BY <1>1, <2>1, <2>3, VictimIn DEF L1Preinsert, L1Miss
<1>4. \/ /\ l1call' = [l1call EXCEPT ![p] = Fetching(req, slot)]
         /\ l2call' = [l2call EXCEPT ![p] = Entered(req)]
      \/ /\ l1[p][slot].state # "I"
         /\ l1call' = [l1call EXCEPT ![p] = Evicting(req, slot)]
         /\ l2call' = [l2call EXCEPT ![p] = Entered(L1Writeback(l1[p][slot]))]
  BY <1>1 DEF L1Miss
<1>. HIDE DEF slot
<1>5. \/ l1call'[p] = Fetching(req, slot) /\ l2call'[p] = Entered(req)
      \/ /\ l1[p][slot].state # "I"
         /\ l1call'[p] = Evicting(req, slot)
         /\ l2call'[p] = Entered(L1Writeback(l1[p][slot]))
  BY <1>4, PrivateFacts
<1>6. /\ l1call'[p].req = req /\ l1call'[p].slot = slot
      /\ l1call'[p].stage \in {"evicting", "fetching"}
      /\ l2call'[p].stage = "enter"
      /\ l1call'[p].stage = "evicting" =>
           l1[p][slot].state # "I" /\ l2call'[p].req = L1Writeback(l1[p][slot])
      /\ l2call'[p].req \in {req, L1Writeback(l1[p][slot])}
  BY <1>5, FrameIs
<1>7. L1Home(p)'
  BY <1>2, <1>3, <1>6, PrivateFacts DEF L1Home, L1Lookup, Holding
<1>8. L2Home(p)'
  BY <1>2, <1>6, PrivateFacts DEF L2Home
<1>9. Landing(p)'
  BY <1>2, <1>6 DEF Landing
<1>10. AllBegun(p)'
  <2>1. req.persistent => Begun(p, req.epoch)
    BY <1>1, PrivateFacts DEF AllBegun
  <2>2. l2call'[p].req.persistent => Begun(p, l2call[p].req.epoch)'
    <3>1. PICK down \in ReqType : down = l2call'[p].req /\ (down.persistent => Begun(p, down.epoch))
      BY <1>2, <1>3, <1>6, <2>1, WritebackBegun
    <3>2. down.persistent => Begun(p, down.epoch)'
      BY <1>2, <3>1, WritebackBegun
    <3>. QED BY <3>1, <3>2 DEF Begun
  <2>. QED BY <1>1, <1>2, <1>6, <2>2, BegunStays
<1>. QED BY <1>7, <1>8, <1>9, <1>10 DEF PrivateInv

LEMMA L1EvictedPrivate ==
  ASSUME CInv, NEW p \in Procs, L1Evicted(p)
  PROVE  PrivateInv(p)'
<1>1. PICK req \in ReqType, slot \in L1Slots : req = l1call[p].req /\ slot = l1call[p].slot
  BY PrivateFacts
<1>2. Access(p) /\ UNCHANGED <<l2, nvccall>>
  BY DEF Access, L1Access, L1Evicted
<1>3. slot \in L1Set(req.addr) /\ L1Lookup(p, req.addr) = {}
  BY <1>1, PrivateFacts DEF L1Evicted, L1Home
<1>4. \A j \in L1Slots : /\ l1'[p][j].addr = l1[p][j].addr
                         /\ l1'[p][j].tx = l1[p][j].tx
                         /\ l1'[p][j].pb = l1[p][j].pb
  <2>1. l1'[p] = Invalidated(l1[p], slot) /\ l1[p] \in [L1Slots -> PrivateLine(L1Ways)]
    BY <1>1, PrivateFacts DEF L1Evicted
  <2>. QED BY <2>1, InvalidatedIs
<1>5. l1call'[p] = Fetching(req, slot) /\ l2call'[p] = Entered(req)
  BY <1>1, PrivateFacts DEF L1Evicted
<1>6. /\ l1call'[p].req = req /\ l1call'[p].slot = slot /\ l1call'[p].stage = "fetching"
      /\ l2call'[p].req = req /\ l2call'[p].stage = "enter"
  BY <1>5, FrameIs
<1>7. L1Home(p)'
  <2>1. AtHome(l1'[p], L1Slots, L1Sets, L1Ways) /\ Distinct(l1'[p], L1Slots)
    BY <1>4, PrivateFacts, SamePlaces DEF L1Home
  <2>2. L1Set(req.addr) \subseteq L1Slots
    BY SetsIn
  <2>3. Holding(l1'[p], L1Set(req.addr), req.addr) = {}
    BY <1>3, <1>4, <2>2 DEF L1Lookup, Holding
  <2>. QED BY <1>3, <1>6, <2>1, <2>3 DEF L1Home, L1Lookup
<1>8. L2Home(p)'
  BY <1>2, <1>6, PrivateFacts DEF L2Home
<1>9. Landing(p)'
  BY <1>6 DEF Landing
<1>10. AllBegun(p)'
  <2>1. req.persistent => Begun(p, req.epoch)
    BY <1>1, PrivateFacts DEF AllBegun
  <2>2. req.persistent => Begun(p, req.epoch)'
    BY <1>2, <2>1, WritebackBegun
  <2>3. l2call'[p].req.persistent => Begun(p, l2call[p].req.epoch)'
    BY <1>6, <2>2 DEF Begun
  <2>. QED BY <1>1, <1>2, <1>4, <1>6, <2>3, BegunStays
<1>. QED BY <1>7, <1>8, <1>9, <1>10 DEF PrivateInv

-----------------------------------------------------------------------------
(* L2 *)

\* What L2 serves while L1 evicts is the write-back of the victim.
LEMMA L2ServedPrivate ==
  ASSUME CInv, NEW p \in Procs, NEW slot \in L2Slots, L2Hit(p) \/ L2Fetched(p),
         L2Serve(p, l2call[p].req, slot),
         slot \in L2Set(l2call[p].req.addr),
         l2call[p].req.addr # 0 => \A j \in L2Lookup(p, l2call[p].req.addr) : j = slot,
         l2call' = [l2call EXCEPT ![p] = Returned], l2call[p].stage # "idle",
         UNCHANGED <<l1, l1call, nvccall>>
  PROVE  PrivateInv(p)'
<1>1. PICK req \in ReqType : req = l2call[p].req
  BY PrivateFacts
<1>2. Access(p)
  BY DEF Access, L2Access
<1>3. req.persistent => Begun(p, req.epoch)'
  <2>1. req.persistent => Begun(p, req.epoch)
    BY <1>1, PrivateFacts DEF AllBegun
  <2>. QED BY <1>2, <2>1, WritebackBegun
<1>4. /\ AtHome(l2'[p], L2Slots, L2Sets, L2Ways) /\ Distinct(l2'[p], L2Slots)
      /\ \A i \in L2Slots :
           l2'[p][i].pb # NoLine =>
             \/ l2[p][i].pb # NoLine /\ l2'[p][i].tx = l2[p][i].tx
             \/ Begun(p, l2[p][i].tx)'
      /\ l2'[p][slot].addr = req.addr
      /\ l2'[p][slot].state = StateAfter(req.type, l2[p][slot].state)
      /\ l2'[p][slot].tx = IF req.persistent THEN req.epoch ELSE NoTx
  BY <1>1, <1>3, L2ServeHome
<1>5. l2call'[p].stage = "idle" /\ ~l2call'[p].req.persistent
  BY PrivateFacts, FrameIs
<1>6. L2Home(p)'
  BY <1>4, <1>5 DEF L2Home
<1>7. L1Home(p)'
  BY SameParts
<1>8. Landing(p)'
  <2>. SUFFICES ASSUME l1call[p].stage = "evicting"
       PROVE  /\ l1[p][l1call[p].slot].state # "I"
              /\ Landed(p, l1[p][l1call[p].slot])'
    BY <1>5 DEF Landing
  <2>1. PICK line \in PrivateLine(L1Ways) : line = l1[p][l1call[p].slot]
    BY PrivateFacts
  <2>2. line.state # "I" /\ req = L1Writeback(line)
    BY <1>1, <2>1, PrivateFacts DEF Landing
  <2>3. line.pb = NoLine => line.tx = NoTx
    BY <2>1, PrivateFacts DEF CInv, IInv, TagsAgree, LineOK
  <2>4. /\ req.addr = line.addr
        /\ req.type = WritebackType(line.state)
        /\ line.tx = IF req.persistent THEN req.epoch ELSE NoTx
    BY <2>2, <2>3 DEF L1Writeback, Volatile, Durable
  <2>5. l2'[p][slot].state # "I" /\ (line.state = "M" => l2'[p][slot].state = "M")
    BY <1>4, <2>4 DEF WritebackType, StateAfter
  <2>6. slot \in Holding(l2'[p], L2Set(line.addr), line.addr)
    BY <1>1, <1>4, <2>4 DEF Holding
  <2>7. Landed(p, line)'
    BY <1>4, <2>4, <2>5, <2>6 DEF Landed, L2Lookup
  <2>. QED BY <2>1, <2>2, <2>7 DEF Landed, L2Lookup
<1>9. AllBegun(p)'
  BY <1>2, <1>4, <1>5, BegunStays
<1>. QED BY <1>6, <1>7, <1>8, <1>9 DEF PrivateInv

LEMMA L2HitPrivate ==
  ASSUME CInv, NEW p \in Procs, L2Hit(p)
  PROVE  PrivateInv(p)'
<1>. DEFINE addr == l2call[p].req.addr
            slot == Min(L2Lookup(p, addr))
<1>1. L2Set(addr) \subseteq L2Slots /\ L2Slots \subseteq Nat /\ Distinct(l2[p], L2Slots)
  BY PrivateFacts, SetsIn, Geometry DEF L2Home
<1>2. /\ slot \in L2Set(addr) /\ slot \in L2Slots
      /\ addr # 0 => \A j \in L2Lookup(p, addr) : j = slot
  BY <1>1, HitIs DEF L2Hit, L2Lookup
<1>. HIDE DEF slot
<1>3. L2Serve(p, l2call[p].req, slot)
  BY DEF L2Hit, slot
<1>. QED BY <1>2, <1>3, L2ServedPrivate DEF L2Hit

LEMMA L2FetchedPrivate ==
  ASSUME CInv, NEW p \in Procs, L2Fetched(p)
  PROVE  PrivateInv(p)'
<1>1. /\ l2call[p].slot \in L2Slots
      /\ l2call[p].slot \in L2Set(l2call[p].req.addr)
      /\ L2Lookup(p, l2call[p].req.addr) = {}
  BY PrivateFacts DEF L2Fetched, L2Home
<1>. QED BY <1>1, L2ServedPrivate DEF L2Fetched

LEMMA L2MissPrivate ==
  ASSUME CInv, NEW p \in Procs, L2Miss(p)
  PROVE  PrivateInv(p)'
<1>1. PICK req \in ReqType : req = l2call[p].req
  BY PrivateFacts
<1>. DEFINE slot == L2Preinsert(p, req.addr)
<1>2. Access(p) /\ UNCHANGED <<l2, l1, l1call>>
  BY DEF Access, L2Access, L2Miss
<1>3. slot \in L2Slots /\ slot \in L2Set(req.addr) /\ L2Lookup(p, req.addr) = {}
  <2>1. L2Set(req.addr) \subseteq L2Slots /\ L2Set(req.addr) # {} /\ L2Slots \subseteq Nat
    BY SetsIn, Geometry
  <2>2. \A i \in L2Slots : l2[p][i].ts \in Nat
    BY PrivateFacts, KilnAssumption DEF PrivateLine
  <2>3. L2Set(req.addr) \subseteq Nat /\ \A i \in L2Set(req.addr) : l2[p][i].ts \in Nat
    BY <2>1, <2>2
  <2>. QED BY <1>1, <2>1, <2>3, VictimIn DEF L2Preinsert, L2Miss
<1>4. \/ /\ l2call' = [l2call EXCEPT ![p] = Fetching(req, slot)]
         /\ nvccall' = [nvccall EXCEPT ![p] = Entered(req)]
      \/ /\ l2[p][slot].state # "I"
         /\ l2call' = [l2call EXCEPT ![p] = Evicting(req, slot)]
         /\ nvccall' = [nvccall EXCEPT ![p] = Entered(L2Writeback(l2[p][slot]))]
  BY <1>1 DEF L2Miss
<1>. HIDE DEF slot
<1>5. \/ l2call'[p] = Fetching(req, slot) /\ nvccall'[p] = Entered(req)
      \/ /\ l2[p][slot].state # "I"
         /\ l2call'[p] = Evicting(req, slot)
         /\ nvccall'[p] = Entered(L2Writeback(l2[p][slot]))
  BY <1>4, PrivateFacts
<1>6. /\ l2call'[p].req = req /\ l2call'[p].slot = slot
      /\ l2call'[p].stage \in {"evicting", "fetching"}
      /\ nvccall'[p].stage = "enter"
      /\ nvccall'[p].req \in {req, L2Writeback(l2[p][slot])}
  BY <1>5, FrameIs
<1>7. L2Home(p)'
  BY <1>2, <1>3, <1>6, PrivateFacts DEF L2Home, L2Lookup, Holding
<1>8. L1Home(p)'
  BY <1>2, SameParts
<1>9. Landing(p)'
  BY <1>1, <1>2, <1>6, PrivateFacts DEF Landing, L2Miss
<1>10. AllBegun(p)'
  <2>1. req.persistent => Begun(p, req.epoch)
    BY <1>1, PrivateFacts DEF AllBegun
  <2>2. nvccall'[p].req.persistent => Begun(p, nvccall[p].req.epoch)'
    <3>1. PICK down \in ReqType : down = nvccall'[p].req /\ (down.persistent => Begun(p, down.epoch))
      BY <1>2, <1>3, <1>6, <2>1, WritebackBegun
    <3>2. down.persistent => Begun(p, down.epoch)'
      BY <1>2, <3>1, WritebackBegun
    <3>. QED BY <3>1, <3>2 DEF Begun
  <2>. QED BY <1>1, <1>2, <1>6, <2>2, BegunStays
<1>. QED BY <1>7, <1>8, <1>9, <1>10 DEF PrivateInv

LEMMA L2EvictedPrivate ==
  ASSUME CInv, NEW p \in Procs, L2Evicted(p)
  PROVE  PrivateInv(p)'
<1>1. PICK req \in ReqType, slot \in L2Slots : req = l2call[p].req /\ slot = l2call[p].slot
  BY PrivateFacts
<1>2. Access(p) /\ UNCHANGED <<l1, l1call>>
  BY DEF Access, L2Access, L2Evicted
<1>3. slot \in L2Set(req.addr) /\ L2Lookup(p, req.addr) = {}
  BY <1>1, PrivateFacts DEF L2Evicted, L2Home
<1>4. \A j \in L2Slots : /\ l2'[p][j].addr = l2[p][j].addr
                         /\ l2'[p][j].tx = l2[p][j].tx
                         /\ l2'[p][j].pb = l2[p][j].pb
  <2>1. l2'[p] = Invalidated(l2[p], slot) /\ l2[p] \in [L2Slots -> PrivateLine(L2Ways)]
    BY <1>1, PrivateFacts DEF L2Evicted
  <2>. QED BY <2>1, InvalidatedIs
<1>5. l2call'[p] = Fetching(req, slot) /\ nvccall'[p] = Entered(req)
  BY <1>1, PrivateFacts DEF L2Evicted
<1>6. /\ l2call'[p].req = req /\ l2call'[p].slot = slot /\ l2call'[p].stage = "fetching"
      /\ nvccall'[p].req = req /\ nvccall'[p].stage = "enter"
  BY <1>5, FrameIs
<1>7. L2Home(p)'
  <2>1. AtHome(l2'[p], L2Slots, L2Sets, L2Ways) /\ Distinct(l2'[p], L2Slots)
    BY <1>4, PrivateFacts, SamePlaces DEF L2Home
  <2>2. L2Set(req.addr) \subseteq L2Slots
    BY SetsIn
  <2>3. Holding(l2'[p], L2Set(req.addr), req.addr) = {}
    BY <1>3, <1>4, <2>2 DEF L2Lookup, Holding
  <2>. QED BY <1>3, <1>6, <2>1, <2>3 DEF L2Home, L2Lookup
<1>8. L1Home(p)'
  BY <1>2, SameParts
<1>9. Landing(p)'
  BY <1>1, <1>2, <1>6, PrivateFacts DEF Landing, L2Evicted
<1>10. AllBegun(p)'
  <2>1. req.persistent => Begun(p, req.epoch)
    BY <1>1, PrivateFacts DEF AllBegun
  <2>2. req.persistent => Begun(p, req.epoch)'
    BY <1>2, <2>1, WritebackBegun
  <2>3. nvccall'[p].req.persistent => Begun(p, nvccall[p].req.epoch)'
    BY <1>6, <2>2 DEF Begun
  <2>. QED BY <1>1, <1>2, <1>4, <1>6, <2>3, BegunStays
<1>. QED BY <1>7, <1>8, <1>9, <1>10 DEF PrivateInv

-----------------------------------------------------------------------------
(* The other steps leave the private caches alone *)

LEMMA NvcPrivate ==
  ASSUME CInv, NEW p \in Procs, NvcAccess(p)
  PROVE  PrivateInv(p)'
<1>1. Access(p) /\ UNCHANGED <<l1, l2, l1call, l2call>>
  BY DEF Access, NvcAccess, NvcHit, NvcMiss, NvcFetched
<1>2. nvccall'[p].req.persistent => nvccall'[p].req = nvccall[p].req
  <2>1. nvccall'[p] = Returned \/ \E slot : nvccall'[p] = Fetching(nvccall[p].req, slot)
    BY PrivateFacts DEF NvcAccess, NvcHit, NvcMiss, NvcFetched
  <2>. QED BY <2>1, FrameIs
<1>3. AllBegun(p)'
  BY <1>1, <1>2, BegunStays
<1>. QED BY <1>1, <1>3, SameParts DEF PrivateInv

LEMMA ProgramPrivate ==
  ASSUME CInv, NEW p \in Procs, Program(p)
  PROVE  PrivateInv(p)'
<1>1. UNCHANGED <<l1, l2, l2call, nvccall>>
  BY DEF Program, StartTx, EndTx, RecordMemRead, RecordMemWrite, calls
<1>2. CASE l1call' = l1call
  <2>1. AllBegun(p)'
    BY <1>1, <1>2, BegunStays
  <2>. QED BY <1>1, <1>2, <2>1, SameParts DEF PrivateInv
<1>3. CASE l1call' # l1call
  <2>1. PICK req :
          /\ l1call' = [l1call EXCEPT ![p] = Entered(req)]
          /\ req.persistent => req.epoch = txId[p] /\ persistent[p]
          /\ UNCHANGED <<txId, persistent>>
    <3>1. PICK asked :
            /\ L1Enter(p, asked)
            /\ asked.persistent => asked.epoch = txId[p] /\ persistent[p]
            /\ UNCHANGED <<txId, persistent>>
      BY <1>3 DEF Program, StartTx, EndTx, RecordMemRead, RecordMemWrite, calls,
         StoreReq, PersistentStore, Volatile, Durable
    <3>2. ~Volatile(asked.addr, asked.type).persistent
      BY DEF Volatile
    <3>. QED BY <3>1, <3>2 DEF L1Enter
  <2>2. l1call'[p].req = req /\ l1call'[p].stage = "enter"
    BY <2>1, PrivateFacts, FrameIs
  <2>3. L1Home(p)' /\ Landing(p)'
    BY <1>1, <2>2, PrivateFacts DEF L1Home, Landing
  <2>4. L2Home(p)'
    BY <1>1, SameParts
  <2>5. AllBegun(p)'
    <3>1. l1call'[p].req.persistent => Begun(p, l1call[p].req.epoch)'
      BY <2>1, <2>2 DEF Begun
    <3>. QED BY <1>1, <3>1, BegunStays
  <2>. QED BY <2>3, <2>4, <2>5 DEF PrivateInv
<1>. QED BY <1>2, <1>3

LEMMA EveryPrivate ==
  ASSUME CInv, NEW p \in Procs, Program(p) \/ Access(p)
  PROVE  \A q \in Procs : PrivateInv(q)'
<1>1. PrivateInv(p)'
  BY ProgramPrivate, NvcPrivate, L1HitPrivate, L1MissPrivate, L1EvictedPrivate, L1FetchedPrivate,
     L2HitPrivate, L2MissPrivate, L2EvictedPrivate, L2FetchedPrivate DEF Access, L1Access, L2Access
<1>. QED BY <1>1, OthersPrivate

-----------------------------------------------------------------------------
(* The shared caches *)

\* The lines of the NVC after an access and after an eviction.
LEMMA NvcServedIs ==
  ASSUME TypeOK, NEW i \in NvcSlots, NEW req \in ReqType, NEW p \in Procs
  PROVE  LET new == NvcServed(p, req, i)
         IN  /\ \A j \in NvcSlots \ {i} :
                  /\ new[j].addr = nvc[j].addr /\ new[j].proc = nvc[j].proc
                  /\ new[j].tx = nvc[j].tx
             /\ new[i].addr = req.addr /\ new[i].proc = p
             /\ new[i].tx = IF req.persistent THEN req.epoch ELSE NoTx
<1>. DEFINE tx    == IF req.persistent THEN req.epoch ELSE NoTx
            slots == NvcSet(req.addr)
            ins   == PostInsert(nvc, slots, NvcWays, i, req)
            line  == [ins[i] EXCEPT !.proc = p, !.tx = tx]
            rank(j) == RankAfter(nvc, slots, NvcWays, i, j)
            st == StateAfter(req.type, nvc[i].state)
<1>1. nvc \in [NvcSlots -> NvcLine]
  BY DEF TypeOK
<1>2. ins = [j \in NvcSlots |-> IF j = i
                         THEN [nvc[j] EXCEPT !.addr  = req.addr,
                                             !.state = StateAfter(req.type, @),
                                             !.ts    = rank(j)]
                         ELSE [nvc[j] EXCEPT !.ts = rank(j)]]
  BY <1>1 DEF PostInsert
<1>3. NvcServed(p, req, i) = [ins EXCEPT ![i] = line]
  BY <1>1, <1>2 DEF NvcServed
<1>4. ins[i] = [nvc[i] EXCEPT !.addr = req.addr, !.state = st, !.ts = rank(i)]
  BY <1>1, <1>2 DEF NvcLine
<1>5. \A j \in NvcSlots \ {i} : ins[j] = [nvc[j] EXCEPT !.ts = rank(j)]
  BY <1>2
<1>6. i \in DOMAIN ins
  BY <1>2
<1>. HIDE DEF rank, tx, st, ins
<1>7. line.proc = p
  BY <1>1, <1>4 DEF NvcLine
<1>8. \A j \in NvcSlots \ {i} : ins[j].proc = nvc[j].proc
  BY <1>1, <1>5 DEF NvcLine
<1>. HIDE DEF line
<1>9. [ins EXCEPT ![i] = line][i] = line /\ \A j \in NvcSlots \ {i} : [ins EXCEPT ![i] = line][j] = ins[j]
  BY <1>6
<1>10. /\ \A j \in NvcSlots \ {i} :
           NvcServed(p, req, i)[j].addr = nvc[j].addr /\ NvcServed(p, req, i)[j].tx = nvc[j].tx
      /\ NvcServed(p, req, i)[i].addr = req.addr
      /\ NvcServed(p, req, i)[i].tx = tx
  BY <1>1, NvcInsert DEF tx
<1>. QED BY <1>3, <1>7, <1>8, <1>9, <1>10 DEF tx

LEMMA NvcInvalidatedIs ==
  ASSUME TypeOK, NEW i \in NvcSlots
  PROVE  /\ \A j \in NvcSlots : /\ Invalidated(nvc, i)[j].addr = nvc[j].addr
                                /\ Invalidated(nvc, i)[j].proc = nvc[j].proc
                                /\ Invalidated(nvc, i)[j].tx = nvc[j].tx
         /\ Invalidated(nvc, i)[i].state = "I"
<1>. DEFINE line == [nvc[i] EXCEPT !.state = "I"]
<1>1. nvc \in [NvcSlots -> NvcLine]
  BY DEF TypeOK
<1>2. Invalidated(nvc, i) = [nvc EXCEPT ![i] = line]
  BY <1>1 DEF Invalidated
<1>3. line.addr = nvc[i].addr /\ line.proc = nvc[i].proc /\ line.tx = nvc[i].tx /\ line.state = "I"
  BY <1>1 DEF NvcLine
<1>. HIDE DEF line
<1>. QED BY <1>1, <1>2, <1>3

\* The lines of the DRAM after an access.
LEMMA DramInsertedIs ==
  ASSUME NEW slots, NEW i \in DramSlots, NEW req \in ReqType, NEW p \in Procs,
         NEW cache \in [DramSlots -> DramLine]
  PROVE  LET new == [PostInsert(cache, slots, DramWays, i, req) EXCEPT ![i].proc = p]
         IN  /\ \A j \in DramSlots \ {i} : new[j].addr = cache[j].addr /\ new[j].proc = cache[j].proc
             /\ new[i].addr = req.addr /\ new[i].proc = p
<1>. DEFINE ins == PostInsert(cache, slots, DramWays, i, req)
            line == [ins[i] EXCEPT !.proc = p]
            rank(j) == RankAfter(cache, slots, DramWays, i, j)
            st == StateAfter(req.type, cache[i].state)
<1>1. ins = [j \in DramSlots |-> IF j = i
                         THEN [cache[j] EXCEPT !.addr  = req.addr,
                                               !.state = StateAfter(req.type, @),
                                               !.ts    = rank(j)]
                         ELSE [cache[j] EXCEPT !.ts = rank(j)]]
  BY DEF PostInsert
<1>2. [ins EXCEPT ![i].proc = p] = [ins EXCEPT ![i] = line]
  BY <1>1
<1>3. ins[i] = [cache[i] EXCEPT !.addr = req.addr, !.state = st, !.ts = rank(i)]
  BY <1>1 DEF DramLine
<1>4. \A j \in DramSlots \ {i} : ins[j] = [cache[j] EXCEPT !.ts = rank(j)]
  BY <1>1
<1>5. i \in DOMAIN ins
  BY <1>1
<1>. HIDE DEF rank, st, ins
<1>6. line.proc = p /\ line.addr = req.addr
  BY <1>3 DEF DramLine
<1>7. \A j \in DramSlots \ {i} : ins[j].proc = cache[j].proc /\ ins[j].addr = cache[j].addr
  BY <1>4 DEF DramLine
<1>. HIDE DEF line
<1>8. [ins EXCEPT ![i] = line][i] = line /\ \A j \in DramSlots \ {i} : [ins EXCEPT ![i] = line][j] = ins[j]
  BY <1>5
<1>. QED BY <1>2, <1>6, <1>7, <1>8 DEF ins

\* dram_access keeps the DRAM cache in order, evictions included.
LEMMA DramServedHome ==
  ASSUME CInv, NEW p \in Procs, NEW req \in ReqType
  PROVE  LET new == DramServed(p, req)
         IN  AtHome(new, DramSlots, DramSets, DramWays) /\ DistinctOwned(new, DramSlots)
<1>. DEFINE cache == DramEvicted(p, req.addr)
            set   == DramSet(req.addr)
            slot  == DramSlot(p, req.addr)
            found == DramLookup(p, req.addr)
            new   == DramServed(p, req)
<1>1. /\ dram \in [DramSlots -> DramLine]
      /\ AtHome(dram, DramSlots, DramSets, DramWays) /\ DistinctOwned(dram, DramSlots)
      /\ set \subseteq DramSlots /\ set # {} /\ DramSlots \subseteq Nat /\ DramWays \in Nat
  BY SetsIn, Geometry, KilnAssumption DEF CInv, IInv, TypeOK, DramHome
<1>2. DramPreinsert(req.addr) \in set
  <2>1. \A i \in DramSlots : dram[i].ts \in Nat
    BY <1>1 DEF DramLine
  <2>2. set \subseteq Nat /\ \A i \in set : dram[i].ts \in Nat
    BY <1>1, <2>1
  <2>. QED BY <1>1, <2>2, VictimIn DEF DramPreinsert
<1>3. found # {} => slot \in found
  <2>1. found \subseteq Nat
    BY <1>1 DEF DramLookup, Holding
  <2>. QED BY <2>1, MinIn DEF DramSlot
<1>4. slot \in set /\ slot \in DramSlots
  BY <1>1, <1>2, <1>3 DEF DramSlot, DramLookup, Holding
<1>5. /\ cache \in [DramSlots -> DramLine]
      /\ \A j \in DramSlots : cache[j].addr = dram[j].addr /\ cache[j].proc = dram[j].proc
  <2>. DEFINE k == DramPreinsert(req.addr)
              line == [dram[k] EXCEPT !.state = "I"]
  <2>1. k \in DramSlots
    BY <1>1, <1>2
  <2>. HIDE DEF k
  <2>2. Invalidated(dram, k) = [dram EXCEPT ![k] = line]
    BY <1>1, <2>1 DEF Invalidated
  <2>3. line \in DramLine /\ line.addr = dram[k].addr /\ line.proc = dram[k].proc
    BY <1>1, <2>1 DEF DramLine, MESI
  <2>. HIDE DEF line
  <2>4. /\ Invalidated(dram, k) \in [DramSlots -> DramLine]
        /\ \A j \in DramSlots : /\ Invalidated(dram, k)[j].addr = dram[j].addr
                                /\ Invalidated(dram, k)[j].proc = dram[j].proc
    BY <1>1, <2>1, <2>2, <2>3
  <2>. QED BY <1>1, <2>4 DEF DramEvicted, k
<1>6. new = [PostInsert(cache, set, DramWays, slot, req) EXCEPT ![slot].proc = p]
  BY DEF DramServed
<1>. HIDE DEF cache, slot, set
<1>7. /\ \A j \in DramSlots \ {slot} : new[j].addr = cache[j].addr /\ new[j].proc = cache[j].proc
      /\ new[slot].addr = req.addr /\ new[slot].proc = p
  <2>. DEFINE put == [PostInsert(cache, set, DramWays, slot, req) EXCEPT ![slot].proc = p]
  <2>1. cache \in [DramSlots -> DramLine] /\ set \subseteq DramSlots /\ slot \in DramSlots
    BY <1>1, <1>4, <1>5
  <2>2. /\ \A j \in DramSlots \ {slot} : put[j].addr = cache[j].addr /\ put[j].proc = cache[j].proc
        /\ put[slot].addr = req.addr /\ put[slot].proc = p
    BY <2>1, DramInsertedIs
  <2>. HIDE DEF put, new
  <2>3. new = put
    BY <1>6 DEF put
  <2>. QED BY <2>2, <2>3
<1>. HIDE DEF new
<1>8. \A j \in DramSlots \ {slot} : new[j].addr = dram[j].addr /\ new[j].proc = dram[j].proc
  BY <1>5, <1>7
<1>9. ASSUME new[slot].addr # 0,
             NEW j \in Holding(dram, SetSlots(new[slot].addr, DramSets, DramWays), new[slot].addr),
             dram[j].proc = new[slot].proc
      PROVE  j = slot
  <2>1. j \in found /\ found # {} /\ j \in DramSlots /\ dram[j].addr = req.addr /\ dram[j].proc = p
    BY <1>1, <1>7, <1>9 DEF DramLookup, DramSet, Holding, set
  <2>2. dram[slot].addr = req.addr /\ dram[slot].proc = p
    BY <1>3, <2>1 DEF DramLookup, Holding
  <2>. QED BY <1>1, <1>4, <1>7, <1>9, <2>1, <2>2 DEF DistinctOwned
<1>10. slot \in SetSlots(new[slot].addr, DramSets, DramWays)
  BY <1>4, <1>7 DEF DramSet, set
<1>11. AtHome(new, DramSlots, DramSets, DramWays) /\ DistinctOwned(new, DramSlots)
  BY <1>1, <1>4, <1>8, <1>9, <1>10, PlacedOwned
<1>. QED BY <1>11 DEF new

SharedInv == NvcHome /\ DramHome /\ NvcCritical /\ NvcTagOfOwner

\* A tag of the NVC stays one of its owner's.
LEMMA TagsStayOwned ==
  ASSUME CInv, NEW p \in Procs, Program(p) \/ Access(p),
         \A i \in NvcSlots :
           nvc'[i].tx # NoTx =>
             \/ nvc'[i].tx = nvc[i].tx /\ nvc'[i].proc = nvc[i].proc
             \/ nvc'[i].proc = p /\ Begun(p, nvc[i].tx)'
  PROVE  NvcTagOfOwner'
<1>. SUFFICES ASSUME NEW i \in NvcSlots, nvc'[i].tx # NoTx
     PROVE  nvc'[i].proc \in Procs /\ Begun(nvc[i].proc, nvc[i].tx)'
  BY DEF NvcTagOfOwner
<1>1. CASE nvc'[i].proc = p /\ Begun(p, nvc[i].tx)'
  BY <1>1 DEF Begun
<1>2. CASE nvc'[i].tx = nvc[i].tx /\ nvc'[i].proc = nvc[i].proc
  <2>1. PICK q \in Procs, tx \in Txs \cup {NoTx} :
          q = nvc[i].proc /\ tx = nvc[i].tx /\ Begun(q, tx)
    BY <1>2 DEF CInv, IInv, TypeOK, NvcLine, NvcTagOfOwner
  <2>2. Begun(q, tx)'
    BY <2>1, BegunGrows DEF CInv, IInv
  <2>. QED BY <1>2, <2>1, <2>2 DEF Begun
<1>. QED BY <1>1, <1>2

\* Steps that leave the shared caches and nvc_lock alone.
LEMMA QuietShared ==
  ASSUME CInv, NEW p \in Procs, Program(p) \/ Access(p), UNCHANGED <<nvc, dram, nvcLock>>,
         nvccall'[p] = nvccall[p] \/ nvccall'[p].stage # "fetching"
  PROVE  SharedInv'
<1>1. \A q \in Procs : nvccall'[q] = nvccall[q] \/ nvccall'[q].stage # "fetching"
  BY Others
<1>2. NvcHome' /\ DramHome'
  BY <1>1 DEF CInv, NvcHome, DramHome
<1>3. NvcCritical'
  BY <1>1 DEF CInv, NvcCritical, NvcLookup, Holding
<1>4. NvcTagOfOwner'
  BY TagsStayOwned
<1>. QED BY <1>2, <1>3, <1>4 DEF SharedInv

\* While nvc_lock is free, nobody fetches; while p fetches, nobody else does.
LEMMA OneFetches ==
  ASSUME CInv
  PROVE  /\ NvcUnlocked => \A q \in Procs : nvccall[q].stage # "fetching"
         /\ \A p, q \in Procs :
              nvccall[p].stage = "fetching" /\ nvccall[q].stage = "fetching" => p = q
BY KilnAssumption DEF CInv, NvcCritical, NvcUnlocked

\* What nvc_access leaves behind.
LEMMA NvcServedShared ==
  ASSUME CInv, NEW p \in Procs, NvcHit(p) \/ NvcFetched(p), NEW slot \in NvcSlots,
         nvc' = NvcServed(p, nvccall[p].req, slot),
         slot \in NvcSet(nvccall[p].req.addr),
         nvccall[p].req.addr # 0 => \A j \in NvcLookup(p, nvccall[p].req.addr) : j = slot,
         nvccall' = [nvccall EXCEPT ![p] = Returned],
         \A q \in Procs \ {p} : nvccall[q].stage # "fetching",
         DramHome'
  PROVE  SharedInv'
<1>1. PICK req \in ReqType : req = nvccall[p].req
  BY PrivateFacts
<1>2. Access(p) /\ TypeOK
  BY DEF Access, NvcAccess, CInv, IInv
<1>3. /\ \A j \in NvcSlots \ {slot} :
           nvc'[j].addr = nvc[j].addr /\ nvc'[j].proc = nvc[j].proc /\ nvc'[j].tx = nvc[j].tx
      /\ nvc'[slot].addr = req.addr /\ nvc'[slot].proc = p
      /\ nvc'[slot].tx = IF req.persistent THEN req.epoch ELSE NoTx
  BY <1>1, <1>2, NvcServedIs
<1>4. \A q \in Procs : nvccall'[q].stage # "fetching"
  <2>1. nvccall'[p].stage = "idle"
    BY PrivateFacts, FrameIs
  <2>. QED BY <1>2, <2>1, Others
<1>5. AtHome(nvc', NvcSlots, NvcSets, NvcWays) /\ DistinctOwned(nvc', NvcSlots)
  <2>1. AtHome(nvc, NvcSlots, NvcSets, NvcWays) /\ DistinctOwned(nvc, NvcSlots)
    BY DEF CInv, NvcHome
  <2>2. slot \in SetSlots(nvc'[slot].addr, NvcSets, NvcWays)
    BY <1>1, <1>3 DEF NvcSet
  <2>3. nvc'[slot].addr # 0 =>
          \A j \in Holding(nvc, SetSlots(nvc'[slot].addr, NvcSets, NvcWays), nvc'[slot].addr) :
            nvc[j].proc = nvc'[slot].proc => j = slot
    BY <1>1, <1>3 DEF NvcSet, NvcLookup
  <2>4. \A j \in NvcSlots \ {slot} : nvc'[j].addr = nvc[j].addr /\ nvc'[j].proc = nvc[j].proc
    BY <1>3
  <2>. QED BY <2>1, <2>2, <2>3, <2>4, PlacedOwned
<1>6. NvcHome'
  BY <1>4, <1>5 DEF NvcHome
<1>7. NvcCritical'
  BY <1>4 DEF NvcCritical
<1>8. NvcTagOfOwner'
  <2>1. req.persistent => Begun(p, req.epoch)
    BY <1>1, PrivateFacts DEF AllBegun
  <2>2. req.persistent => Begun(p, req.epoch)'
    BY <1>2, <2>1, WritebackBegun
  <2>3. nvc'[slot].tx # NoTx => Begun(p, nvc[slot].tx)'
    BY <1>3, <2>2 DEF Begun
  <2>. QED BY <1>2, <1>3, <2>3, TagsStayOwned
<1>. QED BY <1>6, <1>7, <1>8 DEF SharedInv

LEMMA NvcHitShared ==
  ASSUME CInv, NEW p \in Procs, NvcHit(p)
  PROVE  SharedInv'
<1>. DEFINE addr == nvccall[p].req.addr
            found == NvcLookup(p, addr)
            slot == Min(found)
<1>1. NvcSet(addr) \subseteq NvcSlots /\ NvcSlots \subseteq Nat /\ DistinctOwned(nvc, NvcSlots)
  BY PrivateFacts, SetsIn, Geometry DEF CInv, NvcHome
<1>2. slot \in found
  <2>1. found \subseteq Nat /\ found # {}
    BY <1>1 DEF NvcHit, NvcLookup, Holding
  <2>. QED BY <2>1, MinIn
<1>3. nvc' = NvcServed(p, nvccall[p].req, slot) /\ UNCHANGED dram
  BY DEF NvcHit
<1>. HIDE DEF slot
<1>4. /\ slot \in NvcSet(addr) /\ slot \in NvcSlots
      /\ addr # 0 => \A j \in found : j = slot
  BY <1>1, <1>2 DEF NvcLookup, Holding, DistinctOwned
<1>5. DramHome'
  BY <1>3 DEF CInv, DramHome
<1>6. \A q \in Procs \ {p} : nvccall[q].stage # "fetching"
  BY OneFetches DEF NvcHit
<1>. QED BY <1>3, <1>4, <1>5, <1>6, NvcServedShared DEF NvcHit

LEMMA NvcFetchedShared ==
  ASSUME CInv, NEW p \in Procs, NvcFetched(p)
  PROVE  SharedInv'
<1>1. /\ nvccall[p].slot \in NvcSlots /\ nvccall[p].req \in ReqType
      /\ nvccall[p].slot \in NvcSet(nvccall[p].req.addr)
      /\ NvcLookup(p, nvccall[p].req.addr) = {}
  BY PrivateFacts DEF NvcFetched, CInv, NvcHome, NvcCritical
<1>2. dram' = DramServed(p, nvccall[p].req)
  BY DEF NvcFetched
<1>3. DramHome'
  BY <1>1, <1>2, DramServedHome DEF DramHome
<1>4. \A q \in Procs \ {p} : nvccall[q].stage # "fetching"
  BY OneFetches DEF NvcFetched
<1>. QED BY <1>1, <1>3, <1>4, NvcServedShared DEF NvcFetched

\* A miss takes the lock and empties a slot of the set; its line stays away.
LEMMA NvcMissShared ==
  ASSUME CInv, NEW p \in Procs, NvcMiss(p)
  PROVE  SharedInv'
<1>1. PICK req \in ReqType : req = nvccall[p].req
  BY PrivateFacts
<1>. DEFINE slot == NvcPreinsert(req.addr)
            wb   == Volatile(nvc[slot].addr, WritebackType(nvc[slot].state))
<1>2. Access(p) /\ TypeOK /\ nvc \in [NvcSlots -> NvcLine]
  BY DEF Access, NvcAccess, CInv, IInv, TypeOK
<1>3. NvcSet(req.addr) \subseteq NvcSlots /\ slot \in NvcSet(req.addr) /\ slot \in NvcSlots
  <2>1. NvcSet(req.addr) \subseteq NvcSlots /\ NvcSet(req.addr) # {} /\ NvcSlots \subseteq Nat
    BY SetsIn, Geometry
  <2>2. \A i \in NvcSlots : nvc[i].ts \in Nat
    BY <1>2, KilnAssumption DEF NvcLine
  <2>3. NvcSet(req.addr) \subseteq Nat /\ \A i \in NvcSet(req.addr) : nvc[i].ts \in Nat
    BY <2>1, <2>2
  <2>. QED BY <2>1, <2>3, VictimIn DEF NvcPreinsert
<1>4. wb \in ReqType
  BY <1>2, <1>3, VolatileOK, WritebackTypeIn DEF NvcLine
<1>5. /\ dram' = DramServed(p, wb) \/ dram' = dram
      /\ nvc' = Invalidated(nvc, slot) /\ nvcLock' = p
      /\ nvccall' = [nvccall EXCEPT ![p] = Fetching(req, slot)]
      /\ NvcLookup(p, req.addr) = {} /\ NvcUnlocked
  BY <1>1 DEF NvcMiss
<1>. HIDE DEF slot, wb
<1>6. DramHome'
  BY <1>4, <1>5, DramServedHome DEF DramHome, CInv
<1>7. /\ \A j \in NvcSlots : /\ nvc'[j].addr = nvc[j].addr
                             /\ nvc'[j].proc = nvc[j].proc
                             /\ nvc'[j].tx = nvc[j].tx
      /\ nvc'[slot].state = "I"
  BY <1>2, <1>3, <1>5, NvcInvalidatedIs
<1>8. /\ nvccall'[p].req = req /\ nvccall'[p].slot = slot
      /\ \A q \in Procs \ {p} : nvccall'[q].stage # "fetching"
  <2>1. nvccall'[p] = Fetching(req, slot)
    BY <1>5, PrivateFacts
  <2>2. \A q \in Procs \ {p} : nvccall'[q].stage # "fetching"
    BY <1>2, <1>5, OneFetches, Others
  <2>. QED BY <2>1, <2>2, FrameIs
<1>9. NvcHome'
  <2>1. AtHome(nvc', NvcSlots, NvcSets, NvcWays) /\ DistinctOwned(nvc', NvcSlots)
    <3>1. AtHome(nvc, NvcSlots, NvcSets, NvcWays) /\ DistinctOwned(nvc, NvcSlots)
      BY DEF CInv, NvcHome
    <3>2. \A j \in NvcSlots : nvc'[j].addr = nvc[j].addr /\ nvc'[j].proc = nvc[j].proc
      BY <1>7
    <3>3. AtHome(nvc', NvcSlots, NvcSets, NvcWays)
      BY <3>1, <3>2, SamePlaces
    <3>4. DistinctOwned(nvc', NvcSlots)
      BY <3>1, <3>2 DEF DistinctOwned
    <3>. QED BY <3>3, <3>4
  <2>. QED BY <1>3, <1>8, <2>1 DEF NvcHome
<1>10. NvcCritical'
  <2>1. NvcLookup(p, req.addr)' = {}
    BY <1>3, <1>5, <1>7 DEF NvcLookup, Holding
  <2>. QED BY <1>5, <1>7, <1>8, <2>1 DEF NvcCritical, NvcLookup, Holding
<1>11. NvcTagOfOwner'
  BY <1>2, <1>7, TagsStayOwned
<1>. QED BY <1>6, <1>9, <1>10, <1>11 DEF SharedInv

LEMMA EveryShared ==
  ASSUME CInv, NEW p \in Procs, Program(p) \/ Access(p)
  PROVE  SharedInv'
<1>1. CASE NvcAccess(p)
  BY <1>1, NvcHitShared, NvcMissShared, NvcFetchedShared DEF NvcAccess
<1>2. CASE Program(p)
  <2>1. UNCHANGED <<nvc, dram, nvcLock, nvccall>>
    BY <1>2 DEF Program, StartTx, EndTx, RecordMemRead, RecordMemWrite, calls
  <2>. QED BY <2>1, QuietShared
<1>3. CASE L1Access(p)
  <2>1. UNCHANGED <<nvc, dram, nvcLock, nvccall>>
    BY <1>3 DEF L1Access, L1Hit, L1Miss, L1Evicted, L1Fetched
  <2>. QED BY <2>1, QuietShared
<1>4. CASE L2Access(p)
  <2>1. UNCHANGED <<nvc, dram, nvcLock>>
    BY <1>4 DEF L2Access, L2Hit, L2Miss, L2Evicted, L2Fetched
  <2>2. nvccall'[p] = nvccall[p] \/ \E req : nvccall'[p] = Entered(req)
    BY <1>4, PrivateFacts DEF L2Access, L2Hit, L2Miss, L2Evicted, L2Fetched
  <2>3. nvccall'[p] = nvccall[p] \/ nvccall'[p].stage # "fetching"
    BY <2>2, FrameIs
  <2>. QED BY <2>1, <2>3, QuietShared
<1>. QED BY <1>1, <1>2, <1>3, <1>4 DEF Access

-----------------------------------------------------------------------------
(* The theorems *)

LEMMA InitCInv == Init => CInv
<1>. SUFFICES ASSUME Init PROVE CInv
  OBVIOUS
<1>1. IInv
  BY InitIInv
<1>2. ASSUME NEW q \in Procs
      PROVE  PrivateInv(q)
  <2>1. /\ \A i \in L1Slots : l1[q][i].addr = 0 /\ l1[q][i].pb = NoLine
        /\ \A i \in L2Slots : l2[q][i].addr = 0 /\ l2[q][i].pb = NoLine
    BY DEF Init, EmptyLine
  <2>2. /\ l1call[q].stage = "idle" /\ ~l1call[q].req.persistent
        /\ l2call[q].stage = "idle" /\ ~l2call[q].req.persistent
        /\ ~nvccall[q].req.persistent
    BY DEF Init, Returned, Volatile
  <2>3. L1Home(q)
    BY <2>1, <2>2 DEF L1Home, AtHome, Distinct
  <2>4. L2Home(q)
    BY <2>1, <2>2 DEF L2Home, AtHome, Distinct
  <2>5. Landing(q) /\ AllBegun(q)
    BY <2>1, <2>2 DEF Landing, AllBegun
  <2>. QED BY <2>3, <2>4, <2>5 DEF PrivateInv
<1>3. /\ \A i \in NvcSlots : nvc[i].addr = 0 /\ nvc[i].tx = NoTx
      /\ \A i \in DramSlots : dram[i].addr = 0
      /\ \A q \in Procs : nvccall[q].stage = "idle"
  BY DEF Init, EmptyNvcLine, EmptyDramLine, Returned
<1>4. NvcHome
  BY <1>3 DEF NvcHome, AtHome, DistinctOwned
<1>5. DramHome
  BY <1>3 DEF DramHome, AtHome, DistinctOwned
<1>6. NvcCritical /\ NvcTagOfOwner
  BY <1>3 DEF NvcCritical, NvcTagOfOwner
<1>. QED BY <1>1, <1>2, <1>4, <1>5, <1>6 DEF CInv

LEMMA NextCInv == CInv /\ [Next]_vars => CInv'
<1>. SUFFICES ASSUME CInv, [Next]_vars PROVE CInv'
  OBVIOUS
<1>1. IInv'
  BY NextIInv DEF CInv
<1>2. CASE Next
  <2>1. PICK p \in Procs : Program(p) \/ Access(p)
    BY <1>2 DEF Next
  <2>2. \A q \in Procs : PrivateInv(q)'
    BY <2>1, EveryPrivate
  <2>3. SharedInv'
    BY <2>1, EveryShared
  <2>. QED BY <1>1, <2>2, <2>3 DEF CInv, SharedInv
<1>3. CASE UNCHANGED vars
  <2>. USE <1>3 DEF vars, buffers, calls, trax
  <2>1. ASSUME NEW q \in Procs
        PROVE  PrivateInv(q)'
    <3>1. L1Home(q)' /\ L2Home(q)' /\ Landing(q)'
      BY SameParts
    <3>2. AllBegun(q)'
      BY DEF CInv, PrivateInv, AllBegun, Begun
    <3>. QED BY <3>1, <3>2 DEF PrivateInv
  <2>2. NvcHome' /\ DramHome'
    BY DEF CInv, NvcHome, DramHome
  <2>3. NvcCritical' /\ NvcTagOfOwner'
    BY DEF CInv, NvcCritical, NvcTagOfOwner, NvcLookup, Holding, Begun
  <2>. QED BY <1>1, <2>1, <2>2, <2>3 DEF CInv
<1>. QED BY <1>2, <1>3

LEMMA CacheInvariance == Spec => []CInv
BY InitCInv, NextCInv, PTL DEF Spec

\* No cache of the simulator ever has a line of a process in two places: what
\* a lookup of l1_access, l2_access, nvc_access or dram_access does not find is
\* not there, whatever evictions and write-backs came between the miss and the
\* insertion.
THEOREM CachesUniqueHolds == Spec => []CachesUnique
BY CacheInvariance, CInvImplies, PTL

\* When the l2_access that l1_evict calls returns, L2 has the victim, with its
\* modification and its transaction, however that access evicted and fetched,
\* and only then is the L1 slot given away.
THEOREM WritebackLandsHolds == Spec => []WritebackLands
BY CacheInvariance, CInvImplies, PTL

\* What nvc_access decided before its fetch still holds after it: it has
\* nvc_lock, its slot is empty and nobody else has brought the line in.
THEOREM NvcCriticalHolds == Spec => []NvcCritical
BY CacheInvariance, CInvImplies, PTL

\* The tag by which nvc_evict sends a line to the NVM is one of the process
\* that owns the line, and of a transaction that process has begun.
THEOREM NvcTagOfOwnerHolds == Spec => []NvcTagOfOwner
BY CacheInvariance, CInvImplies, PTL

-----------------------------------------------------------------------------
(* The persist buffers implement Ledger *)

RecordsIn(buf) == {buf[i] : i \in PBLines} \ {NoEntry}

\* What an insertion that is not refused makes of a buffer.
InsertedAt(buf, entry, slot, new) ==
  /\ \A i \in PBLines : buf[i].addr = entry.addr => i = slot
  /\ \A i \in PBLines : new[i] =
       IF i = slot THEN entry
       ELSE IF buf[slot].tx \notin {entry.tx, NoTx} /\ buf[i].tx <= entry.tx
            THEN NoEntry ELSE buf[i]

\* What may be inserted into a well-formed buffer, and where it stands.
Insertion(buf, oldest, last, entry) ==
  /\ buf \in BufferType /\ BufferOK(buf, oldest, last)
  /\ oldest \in Txs /\ last \in Txs
  /\ entry \in EntryType /\ entry.tx <= last
  /\ entry.addr # NoLine /\ entry.addr < StackBase

\* The transaction of what is inserted is a real one.
LEMMA InsertionTx ==
  ASSUME NEW buf, NEW oldest, NEW last, NEW entry, Insertion(buf, oldest, last, entry)
  PROVE  entry.tx \in Txs /\ entry.tx # NoTx /\ entry # NoEntry
<1>1. entry.tx \in Txs \cup {NoTx} /\ last \in Txs /\ entry.tx <= last /\ entry.addr # NoLine
  BY DEF EntryType, Insertion
<1>2. NoTx \in Int /\ ~(NoTx <= last) /\ NoTx \notin Txs
  BY <1>1, NoEntryIn, KilnAssumption DEF Txs, NoTx
<1>3. NoEntry.addr = NoLine
  BY DEF NoEntry
<1>. QED BY <1>1, <1>2, <1>3

\* insert_PB either refuses or writes one line of the buffer, the one that has
\* the address if there is one.
LEMMA InsertIs ==
  ASSUME NEW buf, NEW oldest, NEW last, NEW entry, Insertion(buf, oldest, last, entry),
         NEW next \in PBLines, NEW want \in PBLines
  PROVE  LET new == InsertPB(buf, next, oldest, want, entry).pb
         IN  IF entry.tx < oldest THEN new = buf
             ELSE \E slot \in PBLines : InsertedAt(buf, entry, slot, new)
<1>. DEFINE slot == PBSlot(buf, want, entry.addr)
            full == buf[slot].tx # entry.tx /\ buf[slot].tx # NoTx
            kept == IF full THEN OverflowFlush(buf, entry.tx) ELSE buf
            new  == InsertPB(buf, next, oldest, want, entry).pb
<1>1. CASE entry.tx < oldest
  BY <1>1 DEF InsertPB
<1>2. CASE ~(entry.tx < oldest)
  <2>1. /\ slot \in PBLines
        /\ \A i \in PBLines : buf[i].addr = entry.addr => i = slot
    <3>. DEFINE same == {i \in PBLines : buf[i].addr = entry.addr}
    <3>1. CASE same = {}
      BY <3>1 DEF PBSlot
    <3>2. CASE same # {}
      <4>1. slot \in same
        BY <3>2, KilnAssumption, MaxIn DEF PBSlot, PBLines
      <4>. QED BY <4>1 DEF BufferOK, Insertion
    <3>. QED BY <3>1, <3>2
  <2>2. new = [kept EXCEPT ![slot] = entry]
    BY <1>2 DEF InsertPB
  <2>. HIDE DEF slot, new
  <2>3. /\ DOMAIN kept = PBLines
        /\ \A i \in PBLines :
             kept[i] = IF full /\ buf[i].tx <= entry.tx THEN NoEntry ELSE buf[i]
    BY DEF OverflowFlush, Flush, BufferType, Insertion
  <2>. HIDE DEF kept
  <2>4. \A i \in PBLines : new[i] = IF i = slot THEN entry ELSE kept[i]
    BY <2>1, <2>2, <2>3
  <2>5. InsertedAt(buf, entry, slot, new)
    BY <2>1, <2>3, <2>4 DEF InsertedAt
  <2>. QED BY <1>2, <2>1, <2>5 DEF new
<1>. QED BY <1>1, <1>2

\* A change of a set of records that Ledger allows an entry to make.
Entry(old, new, entry) ==
  \/ (\A d \in old : d.addr # entry.addr) /\ new = old \cup {entry}
  \/ \E d \in old :
       /\ d.addr = entry.addr \/ \A e \in old : e.addr # entry.addr
       /\ new = ((IF d.tx = entry.tx THEN old ELSE {e \in old : e.tx > entry.tx}) \ {d})
                  \cup {entry}

\* On the records, an insertion is an entry of Ledger.
LEMMA InsertedRecords ==
  ASSUME NEW buf, NEW oldest, NEW last, NEW entry, Insertion(buf, oldest, last, entry),
         NEW slot \in PBLines, NEW new, InsertedAt(buf, entry, slot, new)
  PROVE  Entry(RecordsIn(buf), RecordsIn(new), entry)
<1>. DEFINE over == buf[slot].tx # entry.tx /\ buf[slot].tx # NoTx
<1>1. entry.tx \in Txs /\ entry # NoEntry
  BY InsertionTx
<1>2. \A i \in PBLines : /\ buf[i].tx \in Txs \cup {NoTx}
                         /\ buf[i] = NoEntry <=> buf[i].tx = NoTx
                         /\ buf[i].tx = NoTx <=> buf[i].addr = NoLine
  BY DEF Insertion, BufferOK, BufferType, EntryType, NoEntry
<1>3. \A i \in PBLines : buf[i] = buf[slot] /\ buf[slot] # NoEntry => i = slot
  BY <1>2 DEF Insertion, BufferOK
<1>4. \A i \in PBLines : buf[i].addr = entry.addr => i = slot
  BY DEF InsertedAt
<1>5. \A i \in PBLines : new[i] =
        IF i = slot THEN entry
        ELSE IF over /\ buf[i].tx <= entry.tx THEN NoEntry ELSE buf[i]
  BY DEF InsertedAt
<1>6. \A i \in PBLines : ~(buf[i].tx <= entry.tx) <=> buf[i].tx > entry.tx
  BY <1>1, <1>2, KilnAssumption DEF Txs, NoTx
<1>7. CASE buf[slot] = NoEntry
  <2>1. \A d \in RecordsIn(buf) : d.addr # entry.addr
    BY <1>4, <1>7 DEF RecordsIn
  <2>2. ~over
    BY <1>2, <1>7
  <2>3. \A i \in PBLines : new[i] = IF i = slot THEN entry ELSE buf[i]
    BY <1>5, <2>2
  <2>4. RecordsIn(new) = RecordsIn(buf) \cup {entry}
    BY <1>1, <1>7, <2>3 DEF RecordsIn
  <2>. QED BY <2>1, <2>4 DEF Entry
<1>8. CASE buf[slot] # NoEntry
  <2>. DEFINE d == buf[slot]
  <2>1. d \in RecordsIn(buf)
    BY <1>8 DEF RecordsIn
  <2>2. d.addr = entry.addr \/ \A e \in RecordsIn(buf) : e.addr # entry.addr
    BY <1>4 DEF RecordsIn
  <2>3. RecordsIn(new) =
          ((IF d.tx = entry.tx THEN RecordsIn(buf)
            ELSE {e \in RecordsIn(buf) : e.tx > entry.tx}) \ {d}) \cup {entry}
    <3>1. CASE d.tx = entry.tx
      <4>1. \A i \in PBLines : new[i] = IF i = slot THEN entry ELSE buf[i]
        BY <1>5, <3>1
      <4>2. RecordsIn(new) = (RecordsIn(buf) \ {d}) \cup {entry}
        BY <1>1, <1>3, <1>8, <4>1 DEF RecordsIn
      <4>. QED BY <3>1, <4>2
    <3>2. CASE d.tx # entry.tx
      <4>1. \A i \in PBLines : new[i] =
              IF i = slot THEN entry ELSE IF buf[i].tx > entry.tx THEN buf[i] ELSE NoEntry
        BY <1>2, <1>5, <1>6, <1>8, <3>2
      <4>2. RecordsIn(new) = ({e \in RecordsIn(buf) : e.tx > entry.tx} \ {d}) \cup {entry}
        BY <1>1, <1>3, <1>8, <4>1 DEF RecordsIn
      <4>. QED BY <3>2, <4>2
    <3>. QED BY <3>1, <3>2
  <2>. QED BY <2>1, <2>2, <2>3 DEF Entry
<1>. QED BY <1>7, <1>8

\* What one served request does to the records of its process.
Serving(old, new, oldest, last, addrs) ==
  \/ new = old
  \/ \E tx \in oldest .. last, addr \in addrs : Entry(old, new, [tx |-> tx, addr |-> addr])

\* The arguments of Buffered that the steps use.
Served(buf, next, oldest, last, req) ==
  /\ buf \in BufferType /\ BufferOK(buf, oldest, last)
  /\ next \in PBLines /\ oldest \in Txs /\ last \in Txs
  /\ req \in ReqType
  /\ req.persistent => req.epoch <= last /\ req.addr \in Heap

\* A served request, persistent or not, makes an entry or none.
LEMMA BufferedRecords ==
  ASSUME NEW buf, NEW next, NEW oldest, NEW last, NEW req,
         Served(buf, next, oldest, last, req)
  PROVE  Serving(RecordsIn(buf), RecordsIn(Buffered(buf, next, oldest, req).pb),
                 oldest, last, Heap)
<1>. DEFINE new   == Buffered(buf, next, oldest, req).pb
            want  == Tag(next, req).pb
            entry == [tx |-> req.epoch, addr |-> req.addr]
<1>1. CASE ~req.persistent
  BY <1>1 DEF Buffered, Serving
<1>2. CASE req.persistent
  <2>1. want \in PBLines
    BY <1>2, TagIn DEF Served
  <2>2. Insertion(buf, oldest, last, entry)
    BY <1>2, KilnAssumption DEF Insertion, Served, EntryType, ReqType, NoLine, Heap
  <2>3. new = InsertPB(buf, next, oldest, want, entry).pb
    BY <1>2 DEF Buffered
  <2>4. entry.tx \in Txs /\ oldest \in Txs /\ last \in Txs /\ entry.tx <= last /\ entry.addr \in Heap
    BY <1>2, <2>2, InsertionTx DEF Served
  <2>. HIDE DEF new, want
  <2>5. CASE entry.tx < oldest
    <3>. HIDE DEF entry
    <3>1. new = buf
      BY <2>1, <2>2, <2>3, <2>5, InsertIs DEF Served
    <3>. QED BY <3>1 DEF new, Serving
  <2>6. CASE ~(entry.tx < oldest)
    <3>1. PICK slot \in PBLines : InsertedAt(buf, entry, slot, new)
      BY <2>1, <2>2, <2>3, <2>6, InsertIs DEF Served
    <3>2. Entry(RecordsIn(buf), RecordsIn(new), entry)
      BY <2>2, <3>1, InsertedRecords
    <3>3. req.epoch \in oldest .. last /\ req.addr \in Heap
      BY <2>4, <2>6 DEF Txs
    <3>4. Serving(RecordsIn(buf), RecordsIn(new), oldest, last, Heap)
      BY <3>2, <3>3 DEF Serving
    <3>. QED BY <3>4 DEF new
  <2>. QED BY <2>5, <2>6 DEF new
<1>. QED BY <1>1, <1>2

\* nvc_access inserts a line it has fetched twice: the second time changes nothing.
LEMMA BufferedTwice ==
  ASSUME NEW buf, NEW next, NEW oldest, NEW last, NEW req,
         Served(buf, next, oldest, last, req)
  PROVE  LET b == Buffered(buf, next, oldest, req)
         IN  RecordsIn(Buffered(b.pb, b.next, oldest, req).pb) = RecordsIn(b.pb)
<1>. DEFINE b     == Buffered(buf, next, oldest, req)
            entry == [tx |-> req.epoch, addr |-> req.addr]
            want  == Tag(next, req).pb
            again == Tag(b.next, req).pb
            new   == Buffered(b.pb, b.next, oldest, req).pb
<1>1. CASE ~req.persistent
  BY <1>1 DEF Buffered
<1>2. CASE req.persistent
  <2>1. want \in PBLines
    BY <1>2, TagIn DEF Served
  <2>2. Insertion(buf, oldest, last, entry)
    BY <1>2, KilnAssumption DEF Insertion, Served, EntryType, ReqType, NoLine, Heap
  <2>3. b.pb = InsertPB(buf, next, oldest, want, entry).pb
    BY <1>2 DEF Buffered
  <2>4. b.pb \in BufferType /\ b.next \in PBLines /\ BufferOK(b.pb, oldest, last)
    BY BufferedOK DEF Served
  <2>. HIDE DEF b
  <2>5. again \in PBLines
    BY <1>2, <2>4, TagIn DEF Served
  <2>6. Insertion(b.pb, oldest, last, entry)
    BY <2>2, <2>4 DEF Insertion
  <2>7. new = InsertPB(b.pb, b.next, oldest, again, entry).pb
    BY <1>2 DEF Buffered
  <2>. HIDE DEF new, want, again
  <2>8. CASE entry.tx < oldest
    <3>. HIDE DEF entry
    <3>1. new = b.pb
      BY <2>4, <2>5, <2>6, <2>7, <2>8, InsertIs
    <3>. QED BY <3>1 DEF new, b
  <2>9. CASE ~(entry.tx < oldest)
    <3>1. PICK slot \in PBLines : InsertedAt(buf, entry, slot, b.pb)
      BY <2>1, <2>2, <2>3, <2>9, InsertIs DEF Served
    <3>2. PICK same \in PBLines : InsertedAt(b.pb, entry, same, new)
      BY <2>4, <2>5, <2>6, <2>7, <2>9, InsertIs
    <3>. HIDE DEF entry
    <3>3. b.pb[slot] = entry
      BY <3>1 DEF InsertedAt
    <3>4. same = slot
      BY <3>2, <3>3 DEF InsertedAt
    <3>5. \A i \in PBLines : new[i] = b.pb[i]
      BY <3>2, <3>3, <3>4 DEF InsertedAt
    <3>. QED BY <3>5 DEF RecordsIn, new, b
  <2>. QED BY <2>8, <2>9 DEF new, b
<1>. QED BY <1>1, <1>2

\* The ledger the buffers stand for, and the state that Ledger sees.
Books == [q \in Procs |-> Records(q)]
Book  == <<Books, nextPersist, txId>>

\* A step that changes the buffer of one process changes its records only.
LEMMA OneBook ==
  ASSUME IInv, NEW p \in Procs, NEW new, pb' = [pb EXCEPT ![p] = new]
  PROVE  /\ Books' = [Books EXCEPT ![p] = RecordsIn(new)]
         /\ Books[p] = RecordsIn(pb[p])
<1>1. pb \in [Procs -> BufferType]
  BY DEF IInv, TypeOK, BufferType
<1>2. \A q \in Procs : pb'[q] = IF q = p THEN new ELSE pb[q]
  BY <1>1
<1>3. \A q \in Procs : Records(q) = RecordsIn(pb[q]) /\ Records(q)' = RecordsIn(pb'[q])
  BY DEF Records, RecordsIn
<1>4. \A q \in Procs : Records(q)' = IF q = p THEN RecordsIn(new) ELSE Records(q)
  BY <1>2, <1>3
<1>5. Books' = [q \in Procs |-> IF q = p THEN RecordsIn(new) ELSE Records(q)]
  BY <1>4 DEF Books
<1>6. Books[p] = RecordsIn(pb[p])
  BY <1>3 DEF Books
<1>. QED BY <1>5, <1>6 DEF Books

\* An entry, on the ledger, is an Enter of Ledger.
LEMMA EntryEnters ==
  ASSUME NEW p \in Procs, NEW new, NEW tx \in nextPersist[p] .. txId[p], NEW addr \in Heap,
         Books' = [Books EXCEPT ![p] = new],
         Entry(Books[p], new, [tx |-> tx, addr |-> addr]),
         nextPersist[p] \in Nat, txId[p] \in Nat, UNCHANGED <<nextPersist, txId>>
  PROVE  Buffers!Enter(p, [tx |-> tx, addr |-> addr])
<1>. DEFINE entry == [tx |-> tx, addr |-> addr]
<1>1. entry.tx = tx /\ nextPersist[p] <= entry.tx /\ entry.tx <= txId[p]
  OBVIOUS
<1>. HIDE DEF entry
<1>2. CASE (\A d \in Books[p] : d.addr # entry.addr) /\ new = Books[p] \cup {entry}
  <2>1. Buffers!Add(p, entry)
    BY <1>2 DEF Buffers!Add, Books
  <2>. QED BY <1>1, <2>1 DEF Buffers!Enter, entry
<1>3. CASE \E d \in Books[p] :
             /\ d.addr = entry.addr \/ \A e \in Books[p] : e.addr # entry.addr
             /\ new = ((IF d.tx = entry.tx THEN Books[p]
                        ELSE {e \in Books[p] : e.tx > entry.tx}) \ {d}) \cup {entry}
  <2>1. PICK d \in Books[p] :
          /\ d.addr = entry.addr \/ \A e \in Books[p] : e.addr # entry.addr
          /\ new = ((IF d.tx = entry.tx THEN Books[p]
                     ELSE {e \in Books[p] : e.tx > entry.tx}) \ {d}) \cup {entry}
    BY <1>3
  <2>2. d \in Buffers!Rivals(p, entry)
    BY <2>1 DEF Buffers!Rivals, Books
  <2>3. Buffers!Replace(p, entry, d)
    BY <2>1 DEF Buffers!Replace, Buffers!Flushed, Books
  <2>. QED BY <1>1, <2>2, <2>3 DEF Buffers!Enter, entry
<1>4. Entry(Books[p], new, entry)
  BY DEF entry
<1>. QED BY <1>2, <1>3, <1>4 DEF Entry, entry

\* A served request is an Enter or a stutter.
LEMMA ServingImplements ==
  ASSUME IInv, NEW p \in Procs, NEW new, pb' = [pb EXCEPT ![p] = new],
         Serving(RecordsIn(pb[p]), RecordsIn(new), nextPersist[p], txId[p], Heap),
         UNCHANGED trax
  PROVE  Buffers!Next \/ UNCHANGED Book
<1>1. nextPersist[p] \in Nat /\ txId[p] \in Nat
  BY DEF IInv, TypeOK, Txs
<1>2. Books' = [Books EXCEPT ![p] = RecordsIn(new)] /\ Books[p] = RecordsIn(pb[p])
  BY OneBook
<1>3. nextPersist' = nextPersist /\ txId' = txId
  BY DEF trax
<1>4. CASE RecordsIn(new) = RecordsIn(pb[p])
  BY <1>2, <1>3, <1>4 DEF Book, Books
<1>5. ASSUME NEW tx \in nextPersist[p] .. txId[p], NEW addr \in Heap,
             Entry(RecordsIn(pb[p]), RecordsIn(new), [tx |-> tx, addr |-> addr])
      PROVE  Buffers!Next
  <2>1. Buffers!Enter(p, [tx |-> tx, addr |-> addr])
    BY <1>1, <1>2, <1>3, <1>5, EntryEnters
  <2>. QED BY <2>1 DEF Buffers!Next
<1>. QED BY <1>4, <1>5 DEF Serving

\* The end of an access of L1 or L2, and a hit in the NVC.
LEMMA BufferImplements ==
  ASSUME IInv, NEW p \in Procs, NEW req \in ReqType, RequestOK(p, req),
         Buffer(p, req), UNCHANGED trax
  PROVE  Buffers!Next \/ UNCHANGED Book
<1>. DEFINE b == Buffered(pb[p], nextAvail[p], nextPersist[p], req)
<1>1. Served(pb[p], nextAvail[p], nextPersist[p], txId[p], req)
  BY DEF Served, IInv, TypeOK, BufferType, BuffersOK, RequestOK
<1>2. Serving(RecordsIn(pb[p]), RecordsIn(b.pb), nextPersist[p], txId[p], Heap)
  BY <1>1, BufferedRecords
<1>3. pb' = [pb EXCEPT ![p] = b.pb]
  BY DEF Buffer
<1>. HIDE DEF b
<1>. QED BY <1>2, <1>3, ServingImplements

\* The end of a miss in the NVC, which inserts twice.
LEMMA NvcFetchedImplements ==
  ASSUME IInv, NEW p \in Procs, NvcFetched(p)
  PROVE  Buffers!Next \/ UNCHANGED Book
<1>. DEFINE req == nvccall[p].req
            b4  == Buffered(pb[p], nextAvail[p], nextPersist[p], req)
            b3  == Buffered(b4.pb, b4.next, nextPersist[p], req)
<1>1. req \in ReqType /\ RequestOK(p, req)
  BY CallFacts
<1>2. Served(pb[p], nextAvail[p], nextPersist[p], txId[p], req)
  BY <1>1 DEF Served, IInv, TypeOK, BufferType, BuffersOK, RequestOK
<1>3. pb' = [pb EXCEPT ![p] = b3.pb] /\ UNCHANGED trax
  BY DEF NvcFetched
<1>4. Serving(RecordsIn(pb[p]), RecordsIn(b4.pb), nextPersist[p], txId[p], Heap)
  BY <1>2, BufferedRecords
<1>5. RecordsIn(b3.pb) = RecordsIn(b4.pb)
  BY <1>2, BufferedTwice
<1>. HIDE DEF b4, b3
<1>. QED BY <1>3, <1>4, <1>5, ServingImplements

\* The entry of l1_access is an Advance, if it is anything.
LEMMA EnterImplements ==
  ASSUME IInv, NEW p \in Procs, NEW req \in ReqType, RequestOK(p, req), L1Enter(p, req),
         txId' = txId
  PROVE  Buffers!Next \/ UNCHANGED Book
<1>. DEFINE newTrax == req.persistent /\ req.epoch > nextPersist[p]
            flushed == Flush(pb[p], nextPersist[p])
<1>1. CASE ~newTrax
  BY <1>1 DEF L1Enter, Book, Books, Records
<1>2. CASE newTrax
  <2>1. pb \in [Procs -> BufferType] /\ nextPersist[p] \in Txs /\ txId[p] \in Txs
        /\ nextPersist \in [Procs -> Txs]
    BY DEF IInv, TypeOK, BufferType
  <2>2. /\ pb' = [pb EXCEPT ![p] = flushed]
        /\ nextPersist' = [nextPersist EXCEPT ![p] = nextPersist[p] + 1]
    BY <1>2 DEF L1Enter
  <2>3. nextPersist[p] < txId[p]
    <3>1. req.epoch \in Int /\ req.epoch <= txId[p]
      BY <1>2, KilnAssumption DEF ReqType, RequestOK, Txs, NoTx
    <3>. QED BY <1>2, <2>1, <3>1 DEF Txs
  <2>4. RecordsIn(flushed) = {d \in RecordsIn(pb[p]) : d.tx > nextPersist[p]}
    <3>1. \A i \in PBLines : flushed[i] =
            IF pb[p][i].tx <= nextPersist[p] THEN NoEntry ELSE pb[p][i]
      BY <2>1 DEF Flush, BufferType
    <3>2. \A i \in PBLines : pb[p][i].tx \in Int
      BY <2>1, KilnAssumption DEF BufferType, EntryType, Txs, NoTx
    <3>3. \A i \in PBLines : ~(pb[p][i].tx <= nextPersist[p]) <=> pb[p][i].tx > nextPersist[p]
      BY <2>1, <3>2 DEF Txs
    <3>. HIDE DEF flushed
    <3>. QED BY <3>1, <3>3 DEF RecordsIn
  <2>. HIDE DEF flushed
  <2>5. /\ Books' = [Books EXCEPT ![p] = {d \in Books[p] : d.tx > nextPersist[p]}]
        /\ nextPersist' = [nextPersist EXCEPT ![p] = nextPersist[p] + 1]
    BY <2>2, <2>4, OneBook
  <2>6. Buffers!Advance(p)
    BY <2>3, <2>5 DEF Buffers!Advance, Buffers!Flushed, Books
  <2>. QED BY <2>6 DEF Buffers!Next
<1>. QED BY <1>1, <1>2

\* Every step of the simulator is one of Ledger or changes nothing it sees.
LEMMA StepImplements ==
  ASSUME IInv, [Next]_vars
  PROVE  Buffers!Next \/ UNCHANGED Book
<1>1. ASSUME UNCHANGED <<pb, nextPersist, txId>> PROVE UNCHANGED Book
  BY <1>1 DEF Book, Books, Records
<1>2. ASSUME NEW p \in Procs, Program(p) PROVE Buffers!Next \/ UNCHANGED Book
  <2>1. CASE StartTx(p)
    BY <1>1, <2>1 DEF StartTx, buffers
  <2>2. CASE EndTx(p)
    <3>1. Books' = Books
      BY <2>2 DEF EndTx, buffers, Books, Records
    <3>2. Buffers!End(p)
      BY <2>2, <3>1 DEF EndTx, Buffers!End, Books
    <3>. QED BY <3>2 DEF Buffers!Next
  <2>3. ASSUME NEW addr \in Addrs, RecordMemRead(p, addr)
        PROVE  Buffers!Next \/ UNCHANGED Book
    <3>1. Volatile(addr, "GETS") \in ReqType /\ RequestOK(p, Volatile(addr, "GETS"))
      BY VolatileOK DEF AccessTypes
    <3>2. L1Enter(p, Volatile(addr, "GETS")) /\ txId' = txId
      BY <2>3 DEF RecordMemRead
    <3>. QED BY <3>1, <3>2, EnterImplements
  <2>4. ASSUME NEW addr \in Addrs, RecordMemWrite(p, addr)
        PROVE  Buffers!Next \/ UNCHANGED Book
    <3>1. StoreReq(p, addr) \in ReqType /\ RequestOK(p, StoreReq(p, addr))
      BY StoreOK
    <3>2. L1Enter(p, StoreReq(p, addr)) /\ txId' = txId
      BY <2>4 DEF RecordMemWrite
    <3>. QED BY <3>1, <3>2, EnterImplements
  <2>. QED BY <1>2, <2>1, <2>2, <2>3, <2>4 DEF Program
<1>3. ASSUME NEW p \in Procs, L1Access(p) PROVE Buffers!Next \/ UNCHANGED Book
  <2>1. CASE L1Hit(p) \/ L1Fetched(p)
    <3>1. Buffer(p, l1call[p].req) /\ UNCHANGED trax
      BY <2>1 DEF L1Hit, L1Fetched, L1Serve
    <3>. QED BY <3>1, CallFacts, BufferImplements
  <2>2. CASE L1Miss(p) \/ L1Evicted(p)
    BY <1>1, <2>2 DEF L1Miss, L1Evicted, buffers, trax
  <2>. QED BY <1>3, <2>1, <2>2 DEF L1Access
<1>4. ASSUME NEW p \in Procs, L2Access(p) PROVE Buffers!Next \/ UNCHANGED Book
  <2>1. CASE L2Hit(p) \/ L2Fetched(p)
    <3>1. Buffer(p, l2call[p].req) /\ UNCHANGED trax
      BY <2>1 DEF L2Hit, L2Fetched, L2Serve
    <3>. QED BY <3>1, CallFacts, BufferImplements
  <2>2. CASE L2Miss(p) \/ L2Evicted(p)
    BY <1>1, <2>2 DEF L2Miss, L2Evicted, buffers, trax
  <2>. QED BY <1>4, <2>1, <2>2 DEF L2Access
<1>5. ASSUME NEW p \in Procs, NvcAccess(p) PROVE Buffers!Next \/ UNCHANGED Book
  <2>1. CASE NvcHit(p)
    <3>1. Buffer(p, nvccall[p].req) /\ UNCHANGED trax
      BY <2>1 DEF NvcHit
    <3>. QED BY <3>1, CallFacts, BufferImplements
  <2>2. CASE NvcMiss(p)
    BY <1>1, <2>2 DEF NvcMiss, buffers, trax
  <2>3. CASE NvcFetched(p)
    BY <2>3, NvcFetchedImplements
  <2>. QED BY <1>5, <2>1, <2>2, <2>3 DEF NvcAccess
<1>6. CASE UNCHANGED vars
  BY <1>1, <1>6 DEF vars, buffers, trax
<1>. QED BY <1>2, <1>3, <1>4, <1>5, <1>6 DEF Next, Access

\* The persist buffers implement Ledger, whatever their size and however the
\* accesses of the processes nest and interleave.
THEOREM Refinement == Spec => ImplementsLedger
<1>1. Init => Buffers!Init
  <2>. SUFFICES ASSUME Init PROVE Buffers!Init
    OBVIOUS
  <2>1. \A p \in Procs : Records(p) = {}
    BY DEF Init, Records
  <2>. QED BY <2>1 DEF Init, Buffers!Init
<1>2. IInv /\ [Next]_vars => [Buffers!Next]_<<[p \in Procs |-> Records(p)], nextPersist, txId>>
  BY StepImplements DEF Book, Books
<1>. QED BY <1>1, <1>2, Invariance, PTL DEF Spec, ImplementsLedger, Buffers!Spec
=============================================================================
