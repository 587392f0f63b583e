------------------------------ MODULE FileRing ------------------------------
(***************************************************************************)
(* What the media list of ffplay.c promises: the files of one directory in *)
(* a ring, one of them selected.  Selecting moves one file forward or      *)
(* backward around the ring; a list made anew starts at its first file.    *)
(***************************************************************************)
EXTENDS Integers

VARIABLES count,      \* files in the ring
          selected,   \* number of the selected one, from 0
          browsing    \* is the list in use

Init == count = 0 /\ selected = 0 /\ browsing = FALSE

Load == /\ ~browsing
        /\ count' \in Nat /\ selected' = 0
        /\ browsing' = (count' > 0)

Forward == selected' = IF selected = count - 1 THEN 0 ELSE selected + 1
Backward == selected' = IF selected = 0 THEN count - 1 ELSE selected - 1

Move == /\ browsing /\ count > 0
        /\ Forward \/ Backward
        /\ UNCHANGED count /\ browsing' \in BOOLEAN

Leave == browsing /\ ~browsing' /\ UNCHANGED <<count, selected>>

Next == Load \/ Move \/ Leave

Spec == Init /\ [][Next]_<<count, selected, browsing>>
=============================================================================
