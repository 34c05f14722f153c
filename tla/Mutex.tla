------------------------------- MODULE Mutex -------------------------------
(***************************************************************************)
(* What every lock of src/locks.h promises to its callers: at most one     *)
(* thread holds it, and only its holder gives it back.                     *)
(***************************************************************************)
CONSTANTS Threads, NoThread

VARIABLE holder

Init == holder = NoThread

Acquire(t) == holder = NoThread /\ holder' = t

Release(t) == holder = t /\ holder' = NoThread

Next == \E t \in Threads : Acquire(t) \/ Release(t)

Spec == Init /\ [][Next]_holder
=============================================================================
