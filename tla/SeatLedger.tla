------------------------------- MODULE SeatLedger -------------------------------
(***************************************************************************)
(* What the booking system promises about the seats of a journey: a holder  *)
(* gets a lot (a set of cells, each a seat on one leg) in one step, only    *)
(* when every cell of it is free; no holder ever loses a cell to another,   *)
(* cells only come free by being released with all the others of the lot.   *)
(***************************************************************************)
CONSTANTS Holders,
          Lots        \* the sets of cells that may be asked for

VARIABLE owned        \* the cells of each holder

Init == owned = [h \in Holders |-> {}]

Free(C) == \A h \in Holders : owned[h] \intersect C = {}

Claim(h, C) ==
  /\ owned[h] = {}
  /\ Free(C)
  /\ owned' = [owned EXCEPT ![h] = C]

\* Some holders lose their lots: a cancellation, or time passing.
Release(H) == owned' = [h \in Holders |-> IF h \in H THEN {} ELSE owned[h]]

Next ==
  \/ \E h \in Holders, C \in Lots : Claim(h, C)
  \/ \E H \in SUBSET Holders : Release(H)

Spec == Init /\ [][Next]_owned

\* No cell has two owners.
Exclusive ==
  \A g, h \in Holders : g # h => owned[g] \intersect owned[h] = {}

===============================================================================
