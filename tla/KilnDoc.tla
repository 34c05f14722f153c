------------------------------ MODULE KilnDoc ------------------------------
(***************************************************************************)
(* What a comment of src/kiln.h says about the KILN memory system, stated  *)
(* as a property of Kiln.  The code does not have it.                      *)
(***************************************************************************)
EXTENDS Kiln

Lines(p) == {d.addr : d \in Records(p)}

\* "a new entry", says insert_PB where it moves nextAvailablePBLine: when a line
\* enters the buffer that was not in it, nextAvailablePBLine moves on.
NewEntryMovesOn ==
  [][\A p \in Procs :
       ~ Lines(p)' \subseteq Lines(p) => nextAvail'[p] = NextPBLine(nextAvail[p])]_vars
=============================================================================
