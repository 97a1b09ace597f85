---------------------------- MODULE MCBoundaryLink ---------------------------
(***************************************************************************)
(* BoundaryLink with two conditions of three rows, two results and two      *)
(* tables.  The conditions start at minutes from a simulation's first to    *)
(* days after its 32nd, where a float32 gets coarser, and have steps of a   *)
(* minute, an hour or a day, so that the rows of a condition see every      *)
(* remainder that decides about the rounding.                               *)
(***************************************************************************)
EXTENDS BoundaryLink

Grid(start, step) == [i \in 1 .. 3 |-> start + (i - 1) * step]
Rows(times) == [i \in DOMAIN times |-> [time |-> times[i], value |-> Old]]
TableRows(name, times) ==
  [i \in DOMAIN times |-> [time |-> times[i], value |-> Value(name, i, 2)]]

Scene(start, step) ==
  [sources |-> [long |-> [times |-> Grid(start, step), names |-> <<"up", "down", "up">>],
                late |-> [times |-> Tail(Grid(start, step)), names |-> <<"down">>]],
   tables  |-> [same |-> TableRows("same", Grid(start, step)),
                other |-> TableRows("other", Grid(start + 1, step))],
   dest    |-> [inflow |-> Rows(Grid(start, step)),
                outflow |-> Rows(Tail(Grid(start, step)))]]

\* Where a simulation starts, and the days at which float32s get coarser.
FirstMinutes == {-1, 0, 1, 7, 59}
Edges == {Days(n) + m : n \in {1, 2, 4, 8, 16, 31, 32, 33}, m \in {-3, -1, 0, 1, 20, 40, 61}}

MCScenes ==
  {Scene(start, step) : start \in FirstMinutes \cup Edges, step \in {1, 60, 1440}}

=============================================================================
