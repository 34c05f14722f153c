----------------------------- MODULE CacheProofs -----------------------------
(***************************************************************************)
(* Facts about the operators of CacheOps, for every cache and geometry:    *)
(* what the proofs about Kiln, Native and Epb have in common.              *)
(***************************************************************************)
EXTENDS CacheOps, WellFoundedInduction, TLAPS

-----------------------------------------------------------------------------
(* Smallest and largest elements, sets of slots, victims *)

\* A non-empty set of naturals has a smallest element.
LEMMA MinExists ==
  ASSUME NEW S, S \subseteq Nat, S # {}
  PROVE  \E x \in S : \A y \in S : x <= y
<1>1. \E x \in S : \A y \in S : ~ (<<y, x>> \in OpToRel(<, Nat))
  BY NatLessThanWellFounded, WFMin
<1>2. PICK x \in S : \A y \in S : ~ (<<y, x>> \in OpToRel(<, Nat))
  BY <1>1
<1>3. ASSUME NEW y \in S PROVE x <= y
  <2>1. ~ (<<y, x>> \in {ss \in Nat \X Nat : ss[1] < ss[2]})
    BY <1>2 DEF OpToRel
  <2>2. <<y, x>> \in Nat \X Nat
    OBVIOUS
  <2>3. ~ (y < x)
    BY <2>1, <2>2
  <2>. QED BY <2>3
<1>. QED BY <1>3

\* Min of a non-empty set of naturals is one of its elements.
LEMMA MinIn ==
  ASSUME NEW S, S \subseteq Nat, S # {}
  PROVE  Min(S) \in S
<1>1. \E x \in S : \A y \in S : x <= y
  BY MinExists
<1>. QED BY <1>1 DEF Min

\* Max of a non-empty set of bounded naturals is one of them.
LEMMA MaxIn ==
  ASSUME NEW n \in Nat, NEW S, S \subseteq 0 .. n, S # {}
  PROVE  Max(S) \in S
<1>. DEFINE T == {n - x : x \in S}
<1>1. T \subseteq Nat /\ T # {}
  <2>1. ASSUME NEW x \in S PROVE n - x \in Nat
    <3>1. x \in Int /\ x <= n
      OBVIOUS
    <3>. QED BY <3>1
  <2>. QED BY <2>1
<1>2. PICK t \in T : \A u \in T : t <= u
  BY <1>1, MinExists
<1>3. PICK x \in S : t = n - x
  BY <1>2
<1>4. \A y \in S : x >= y
  <2>. TAKE y \in S
  <2>1. n - y \in T
    OBVIOUS
  <2>2. n - x <= n - y
    BY <1>2, <1>3, <2>1
  <2>. QED BY <2>2
<1>. QED BY <1>4 DEF Max

\* The set an address maps to lies inside the cache and is not empty.
LEMMA SetSlotsIn ==
  ASSUME NEW addr \in Nat, NEW sets \in Nat \ {0}, NEW ways \in Nat \ {0}
  PROVE  /\ SetSlots(addr, sets, ways) \subseteq 0 .. sets * ways - 1
         /\ SetSlots(addr, sets, ways) # {}
<1>. DEFINE m == addr % sets
            k == sets - (m + 1)
<1>1. m \in Nat /\ m + 1 <= sets
  OBVIOUS
<1>. HIDE DEF m
<1>2. k \in Nat /\ sets = m + 1 + k
  BY <1>1
<1>. HIDE DEF k
<1>3. /\ m * ways \in Nat
      /\ k * ways \in Nat
      /\ sets * ways = m * ways + ways + k * ways
  BY <1>1, <1>2
<1>4. /\ m * ways .. m * ways + ways - 1 \subseteq 0 .. sets * ways - 1
      /\ m * ways \in m * ways .. m * ways + ways - 1
  BY <1>3
<1>. QED BY <1>4 DEF SetSlots, m

\* The victim of a set is a slot of the set.
LEMMA VictimIn ==
  ASSUME NEW cache, NEW slots, slots \subseteq Nat, slots # {},
         \A i \in slots : cache[i].ts \in Nat
  PROVE  Victim(cache, slots) \in slots
<1>. DEFINE free   == {i \in slots : cache[i].state = "I"}
            oldest == {i \in slots : \A j \in slots : cache[i].ts <= cache[j].ts}
            ranks  == {cache[i].ts : i \in slots}
<1>1. PICK r \in ranks : \A s \in ranks : r <= s
  BY MinExists
<1>2. PICK i \in slots : r = cache[i].ts
  BY <1>1
<1>3. i \in oldest
  BY <1>1, <1>2
<1>4. Min(oldest) \in slots
  BY <1>3, MinIn
<1>5. ASSUME free # {}
      PROVE  Min(free) \in slots
  BY <1>5, MinIn
<1>. QED BY <1>4, <1>5 DEF Victim

-----------------------------------------------------------------------------
(* What an insertion does to a cache *)

\* The rank of every slot stays between 0 and the number of ways.
LEMMA RankIn ==
  ASSUME NEW cache, NEW S, NEW slots, NEW ways \in Nat, NEW i \in S, NEW j \in S,
         \A s \in S : cache[s].ts \in 0 .. ways
  PROVE  RankAfter(cache, slots, ways, i, j) \in 0 .. ways
BY DEF RankAfter

\* postinsert leaves a MESI state.
LEMMA StateAfterIn ==
  ASSUME NEW type, NEW st
  PROVE  StateAfter(type, st) \in MESI
BY DEF StateAfter, MESI

-----------------------------------------------------------------------------
(* Where the lines of one cache are *)

\* Lines are in the set their address maps to.
AtHome(cache, S, sets, ways) ==
  \A i \in S : cache[i].addr # 0 => i \in SetSlots(cache[i].addr, sets, ways)

\* No line is there twice; in a shared cache, no line of one process.
Distinct(cache, S) ==
  \A i, j \in S : cache[i].addr = cache[j].addr /\ i # j => cache[i].addr = 0

DistinctOwned(cache, S) ==
  \A i, j \in S :
    cache[i].addr = cache[j].addr /\ cache[i].proc = cache[j].proc /\ i # j => cache[i].addr = 0

\* A line put into its set, where nobody else has it.
LEMMA Placed ==
  ASSUME NEW S, NEW cache, NEW new, NEW i \in S, NEW sets, NEW ways,
         AtHome(cache, S, sets, ways), Distinct(cache, S),
         \A j \in S \ {i} : new[j].addr = cache[j].addr,
         i \in SetSlots(new[i].addr, sets, ways),
         new[i].addr # 0 =>
           \A j \in Holding(cache, SetSlots(new[i].addr, sets, ways), new[i].addr) : j = i
  PROVE  AtHome(new, S, sets, ways) /\ Distinct(new, S)
<1>1. AtHome(new, S, sets, ways)
  BY DEF AtHome
<1>2. ASSUME NEW j \in S, j # i, new[j].addr = new[i].addr
      PROVE  new[i].addr = 0
  <2>1. SUFFICES ASSUME new[i].addr # 0 PROVE FALSE
    OBVIOUS
  <2>2. j \in Holding(cache, SetSlots(new[i].addr, sets, ways), new[i].addr)
    BY <1>2, <2>1 DEF AtHome, Holding
  <2>. QED BY <1>2, <2>1, <2>2
<1>3. Distinct(new, S)
  BY <1>2 DEF Distinct
<1>. QED BY <1>1, <1>3

\* Likewise with owners.
LEMMA PlacedOwned ==
  ASSUME NEW S, NEW cache, NEW new, NEW i \in S, NEW sets, NEW ways,
         AtHome(cache, S, sets, ways), DistinctOwned(cache, S),
         \A j \in S \ {i} : new[j].addr = cache[j].addr /\ new[j].proc = cache[j].proc,
         i \in SetSlots(new[i].addr, sets, ways),
         new[i].addr # 0 =>
           \A j \in Holding(cache, SetSlots(new[i].addr, sets, ways), new[i].addr) :
             cache[j].proc = new[i].proc => j = i
  PROVE  AtHome(new, S, sets, ways) /\ DistinctOwned(new, S)
<1>1. AtHome(new, S, sets, ways)
  BY DEF AtHome
<1>2. ASSUME NEW j \in S, j # i, new[j].addr = new[i].addr, new[j].proc = new[i].proc
      PROVE  new[i].addr = 0
  <2>1. SUFFICES ASSUME new[i].addr # 0 PROVE FALSE
    OBVIOUS
  <2>2. j \in Holding(cache, SetSlots(new[i].addr, sets, ways), new[i].addr)
    BY <1>2, <2>1 DEF AtHome, Holding
  <2>. QED BY <1>2, <2>1, <2>2
<1>3. DistinctOwned(new, S)
  BY <1>2 DEF DistinctOwned
<1>. QED BY <1>1, <1>3

\* What moves no line keeps a cache in order.
LEMMA SamePlaces ==
  ASSUME NEW S, NEW cache, NEW new, NEW sets, NEW ways,
         \A j \in S : new[j].addr = cache[j].addr
  PROVE  /\ AtHome(cache, S, sets, ways) => AtHome(new, S, sets, ways)
         /\ Distinct(cache, S) => Distinct(new, S)
BY DEF AtHome, Distinct
=============================================================================
