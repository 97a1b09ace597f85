--------------------------- MODULE MCBreachRecord ----------------------------
(***************************************************************************)
(* BreachRecord with files of five steps: an area without connections, then *)
(* one with connections without breach data, one with any velocities, breach *)
(* time and order of columns, and one that never breached; and files of two *)
(* areas with a dam of the same name, with columns that cannot be read.     *)
(* Times are in tenths of a step: a breach time, a float32, lies on a step, *)
(* is rounded a little off it, or falls between two.                        *)
(***************************************************************************)
EXTENDS BreachRecord

Steps == <<0, 10, 20, 30, 40>>
BreachTimes == {NaN, 0, 1, 9, 10, 11, 25, 40, 41}
Velocities == [1 .. 5 -> {NaN, 14, 15, 16}]

\* Stages fall at every step; flow and width follow the velocity.
Variable(name, v) ==
  CASE name = "Stage HW" -> <<105, 104, 103, 102, 101>>
    [] name = "Stage TW" -> <<51, 52, 53, 54, 55>>
    [] name = "Bottom-Width" -> [i \in 1 .. 5 |-> IF v[i] = NaN THEN NaN ELSE v[i] - 14]
    [] name = "Breach Flow" -> [i \in 1 .. 5 |-> IF v[i] = NaN THEN NaN ELSE 10 * v[i]]
    [] OTHER -> v

\* The order of the documents, another one, and one without the tailwater.
Orders == {
  <<"Stage HW", "Stage TW", "Bottom-Width", "Breach Flow", "Breach Velocity">>,
  <<"Breach Velocity", "Stage TW", "Stage HW", "Breach Flow", "Bottom-Width">>,
  <<"Stage HW", "Bottom-Width", "Breach Flow", "Breach Velocity">>}

Breach(name, fields, v, at, broken) ==
  [name |-> name, readable |-> TRUE, at |-> at, fields |-> fields, broken |-> broken,
   data |-> [i \in DOMAIN fields |-> Variable(fields[i], v)]]

Without(name) ==
  [name |-> name, readable |-> FALSE, at |-> Absent, fields |-> <<>>, broken |-> {}, data |-> <<>>]

DocOrder == CHOOSE order \in Orders : Len(order) = 5 /\ order[1] = "Stage HW"
Never == [i \in 1 .. 5 |-> NaN]
Dam(name, broken, at) == Breach(name, DocOrder, Never, at, broken)

Area(name, connections) == [name |-> name, opens |-> TRUE, connections |-> connections]
NoConnections(name) == [name |-> name, opens |-> FALSE, connections |-> <<>>]
File(times, areas) == [opens |-> TRUE, times |-> times, areas |-> areas]

MCFiles ==
  {File(Steps, <<NoConnections("upper"),
                 Area("lower", <<Without(""), Without("levee"), Breach("dam", fields, v, at, {}),
                                 Dam("weir", {}, NaN)>>)>>) :
     fields \in Orders, v \in Velocities, at \in BreachTimes}
  \cup
  {File(times, <<Area("upper", <<Dam("dam", b1, at)>>),
                 Area("lower", <<Dam("dam", b2, NaN), Without("levee")>>)>>) :
     times \in {Steps, <<>>}, at \in {NaN, Absent, 11},
     b1 \in SUBSET {1, 2, 5}, b2 \in SUBSET {1, 5}}
  \cup {File(Steps, <<>>), [opens |-> FALSE, times |-> Steps, areas |-> <<>>]}

=============================================================================
