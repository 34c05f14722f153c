------------------------------- MODULE Ledger -------------------------------
(***************************************************************************)
(* What the persist buffers of KILN promise, without lines, pointers and   *)
(* levels: for each process a set of records, each of a line and of the    *)
(* transaction that last stored to it, that are not durable yet.  Records  *)
(* enter for transactions between the oldest that may not be durable and   *)
(* the running one, in any order, as write-backs bring them.               *)
(***************************************************************************)
EXTENDS Integers

CONSTANTS
  Procs,        \* the processes
  Heap          \* the lines that may be persistent

VARIABLES
  ledger,       \* [Procs -> set of records]
  oldest,       \* [Procs -> Nat]: all transactions before it are durable
  newest        \* [Procs -> Nat]: the running transaction, or the next one

Init ==
  /\ ledger = [p \in Procs |-> {}]
  /\ oldest = [p \in Procs |-> 0]
  /\ newest = [p \in Procs |-> 0]

\* What is left of some records once a transaction has become durable, and
\* with it all before it.
Flushed(records, tx) == {d \in records : d.tx > tx}

\* A transaction ends.
End(p) ==
  /\ newest' = [newest EXCEPT ![p] = @ + 1]
  /\ UNCHANGED <<ledger, oldest>>

\* The oldest transaction becomes durable; never the running one.
Advance(p) ==
  /\ oldest[p] < newest[p]
  /\ ledger' = [ledger EXCEPT ![p] = Flushed(@, oldest[p])]
  /\ oldest' = [oldest EXCEPT ![p] = @ + 1]
  /\ UNCHANGED newest

\* Where there is room, a new record goes beside the others.
Add(p, new) ==
  /\ \A d \in ledger[p] : d.addr # new.addr
  /\ ledger' = [ledger EXCEPT ![p] = @ \cup {new}]

\* Else it takes the place of one that is there: the one of its line, if any.
\* If that is of another transaction, all up to the new one is made durable
\* first.  If not, a record of another line is lost.
Rivals(p, new) ==
  LET same == {d \in ledger[p] : d.addr = new.addr}
  IN  IF same # {} THEN same ELSE ledger[p]

Replace(p, new, old) ==
  ledger' = [ledger EXCEPT ![p] =
    ((IF old.tx = new.tx THEN @ ELSE Flushed(@, new.tx)) \ {old}) \cup {new}]

Enter(p, new) ==
  /\ oldest[p] <= new.tx /\ new.tx <= newest[p]
  /\ Add(p, new) \/ \E old \in Rivals(p, new) : Replace(p, new, old)
  /\ UNCHANGED <<oldest, newest>>

Next ==
  \E p \in Procs :
    \/ End(p)
    \/ Advance(p)
    \/ \E tx \in oldest[p] .. newest[p], addr \in Heap : Enter(p, [tx |-> tx, addr |-> addr])

Spec == Init /\ [][Next]_<<ledger, oldest, newest>>
=============================================================================
