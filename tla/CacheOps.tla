------------------------------ MODULE CacheOps ------------------------------
(***************************************************************************)
(* The part of a set-associative cache that every level and every          *)
(* architecture of the simulator repeats: where a line may live, whether   *)
(* it is there, which line gives way, and what an insertion leaves behind. *)
(*                                                                         *)
(* A cache is a function from slots to lines; a line is a record with at   *)
(* least the fields addr, state and ts.  The code stamps a line with a     *)
(* global timestamp that every insertion increments.  Only the order of    *)
(* the stamps inside one set is ever read, so ts is the rank of the line   *)
(* in its set: 0 if never used, the number of ways if used last.           *)
(***************************************************************************)
EXTENDS Integers, FiniteSetsExt

\* MESIState and AccessType of libsim.h (S is declared and tested, never set).
MESI == {"I", "S", "E", "M"}
AccessTypes == {"GETS", "GETX", "PUTS", "PUTX"}

\* (uint64_t)(-1) in a field that names a persist-buffer line or an address.
NoLine == -1

\* The slots of the set that addr maps to.
SetSlots(addr, sets, ways) ==
  LET start == (addr % sets) * ways
  IN  start .. start + ways - 1

\* The slots of a set in which addr is found.  The state is not consulted.
Holding(cache, slots, addr) == {i \in slots : cache[i].addr = addr}

\* preinsert: the first invalid slot, else the first least recently used one.
Victim(cache, slots) ==
  LET free   == {i \in slots : cache[i].state = "I"}
      oldest == {i \in slots : \A j \in slots : cache[i].ts <= cache[j].ts}
  IN  IF free # {} THEN Min(free) ELSE Min(oldest)

\* The request that writes a victim back to the level below.
WritebackType(state) == IF state = "M" THEN "PUTX" ELSE "PUTS"

\* The state postinsert leaves in a slot that was in state st.
StateAfter(type, st) ==
  IF type \in {"GETX", "PUTX"} \/ (type = "GETS" /\ st = "M")
  THEN "M" ELSE "E"

\* The rank of slot j of a set once slot i of it has been used.
RankAfter(cache, slots, ways, i, j) ==
  IF j = i THEN ways
  ELSE IF j \in slots /\ cache[j].ts > cache[i].ts
       THEN cache[j].ts - 1
       ELSE cache[j].ts

\* postinsert: the line of req occupies slot i of its set.
PostInsert(cache, slots, ways, i, req) ==
  [j \in DOMAIN cache |->
     LET rank == RankAfter(cache, slots, ways, i, j)
     IN  IF j = i
         THEN [cache[j] EXCEPT !.addr  = req.addr,
                               !.state = StateAfter(req.type, @),
                               !.ts    = rank]
         ELSE [cache[j] EXCEPT !.ts = rank]]

\* The state change that ends every evict handler.
Invalidated(cache, i) == [cache EXCEPT ![i].state = "I"]
=============================================================================
