----------------------------- MODULE MCFilters -----------------------------
(***************************************************************************)
(* The HX711 driver with its filters, and moving_average.c under any       *)
(* sequence of calls, of which the driver makes only some.  The two share  *)
(* nothing but the code: a behaviour is of one of them, and the other      *)
(* stays as it was set up.                                                 *)
(***************************************************************************)
EXTENDS Hx711Driver, MovingAverageCalls

FiltersInit == Init /\ MAInit

FiltersNext ==
  \/ Next /\ MAInit /\ UNCHANGED maVars
  \/ MANext /\ Init /\ UNCHANGED vars

\* The fairness is the driver's.
FiltersSpec ==
  FiltersInit /\ [][FiltersNext]_<<vars, maVars>> /\ \A t \in Tasks : WF_vars(Holding(t))
=============================================================================
