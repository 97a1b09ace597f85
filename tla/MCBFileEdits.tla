----------------------------- MODULE MCBFileEdits ----------------------------
(***************************************************************************)
(* BFileEdits on small b-files.  Layouts are the shapes two structures can  *)
(* have, with counts of ordinates on both sides of a full row, and the      *)
(* lengths an outlet series can have around one; Histories are files with   *)
(* structures and outlets that every kind of edit can meet.                 *)
(*                                                                          *)
(* Cells: 9 is a number that rewriting changes, once, as it does some of    *)
(* those in the b-files under testData; 7 is one it changes every time, as  *)
(* it may a float32 that is cut off; the others are settled.                *)
(***************************************************************************)
EXTENDS BFileEdits

CONSTANTS Dam, Levee, Ghost,     \* names of structures; Ghost is not in the file
          Unknown,               \* one the geometry does not have
          Outlet, OutletEast     \* names of outlets; the first is part of the second

Digits == 0 .. 9
Settling == [c \in Digits |-> IF c \in {6, 7, 9} THEN c - 1 ELSE c]

AllNames == {Dam, Levee, Ghost, Unknown, Outlet, OutletEast}

Struct(snet, wasting, method1, prog, down) ==
  [snet |-> snet, wasting |-> wasting, method1 |-> method1,
   prog |-> prog, down |-> down, elev |-> 1]

\* A structure without the second method has no count of downcutting ordinates.
Structs(snet) ==
  {Struct(snet, w, TRUE, p, d) : w \in BOOLEAN, p \in {0, 5, 6}, d \in {0, 6}}
    \cup {Struct(snet, w, FALSE, p, 0) : w \in BOOLEAN, p \in {0, 5, 6}}

\* A structure after which another must be found, and one that must be found.
Neighbours(snet) == {Struct(snet, TRUE, TRUE, 1, 4), Struct(snet, FALSE, FALSE, 1, 0)}

Series(n) == [p \in 1 .. n |-> <<1, IF p = n THEN 7 ELSE 2>>]
OutletOf(name, n) == [name |-> name, series |-> Series(n)]

Layouts ==
  {[structs |-> <<s, t>>, outlets |-> <<OutletOf(Outlet, 1)>>] :
     s \in Structs(3), t \in Neighbours(4)}
    \cup {[structs |-> <<s, t>>, outlets |-> <<OutletOf(Outlet, 1)>>] :
            s \in Neighbours(3), t \in Structs(4)}
    \cup {[structs |-> <<>>, outlets |-> <<OutletOf(Outlet, m), OutletOf(OutletEast, n)>>] :
            m \in {0, 1, 5, 6, 11}, n \in {0, 1, 5, 6, 11}}

Histories ==
  {[structs |-> <<Struct(3, TRUE, TRUE, 6, 5), Struct(4, FALSE, FALSE, 1, 0)>>,
    outlets |-> <<OutletOf(OutletEast, 5), OutletOf(Outlet, 2)>>],
   [structs |-> <<Struct(4, FALSE, TRUE, 0, 1)>>,
    outlets |-> <<OutletOf(Outlet, 1), OutletOf(OutletEast, 2)>>],
   [structs |-> <<>>, outlets |-> <<OutletOf(OutletEast, 0)>>]}

Structure(connection, id) == [connection |-> connection, id |-> id]

\* Two rows have one name.
Table == <<Structure(Dam, 4), Structure(Ghost, 6), Structure(Dam, 3), Structure(Levee, 4)>>

Result(name, elev) == [name |-> name, elev |-> elev]
SomeCurves ==
  {<<>>, <<Result(Dam, 2), Result(Unknown, 5)>>, <<Result(Ghost, 2), Result(Levee, 3)>>,
   <<Result(Dam, 3), Result(Levee, 2), Result(Dam, 4)>>}

AllPatterns == {Outlet, OutletEast}
Within == Outlet :> {Outlet, OutletEast} @@ OutletEast :> {OutletEast}

Hydrographs == {<<>>, <<9>>, <<7>>, <<3, 2>>, <<3, 2, 9, 2, 3>>}

Files == Layouts \cup Histories
Edits == 3

=============================================================================
