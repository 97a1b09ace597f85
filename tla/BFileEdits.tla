------------------------------ MODULE BFileEdits -----------------------------
(***************************************************************************)
(* The three link actions that edit the b-file of a model in place, in any  *)
(* order a manifest may call them (actions/link/update-breach-data.go,      *)
(* update-outletts-data.go and update-bfile-skip-dss.go).  The first two    *)
(* parse the whole file and write it again; the third appends to its text.  *)
(*                                                                          *)
(* "want" is a ghost: what the file should say, kept as data and never      *)
(* parsed.  Render lays it out as RAS does, which is the reference the      *)
(* reader and the writer of BFile are held against.                         *)
(*                                                                          *)
(* The names of the specification differ from those of BoundaryLink, the    *)
(* other component of the package, so that one module can prove about both. *)
(***************************************************************************)
EXTENDS BFile

CONSTANTS
  Labels,       \* names of structures and of outlets
  Contents,    \* what b-files say at the start: records of structs and outlets
  Structures,  \* the table of structures in the geometry: [connection, id]
  Curves,      \* the fragility results: sequences of [name, elev]
  Patterns,    \* values of the attribute outletTS
  NamesWith,   \* the outlet names a pattern is contained in
  Flows,       \* columns of flows read from the observed HDF
  MaxEdits     \* bound: the edits of one manifest

ASSUME MaxEditsAssumption == MaxEdits \in Nat

\* RAS numbers structures from one.
ASSUME ContentsAssumption ==
  Contents \subseteq
    [structs : Seq([snet : Nat \ {0}, wasting : BOOLEAN, method1 : BOOLEAN,
                    prog : Nat, down : Nat, elev : Cells]),
     outlets : Seq([name : Labels, series : Seq(Cells \X Cells)])]

ASSUME InputsAssumption ==
  /\ Structures \in Seq([connection : Labels, id : Nat \ {0}])
  /\ Curves \subseteq Seq([name : Labels, elev : Cells])
  /\ Flows \subseteq Seq(Cells)

VARIABLES
  file,         \* the rows of the b-file
  terminated,   \* its last row ends in a newline
  outcome,      \* "ok", "error" or "panic": a failed action ends the manifest
  edits,        \* edits made
  want          \* ghost: what the file should say

editsVars == <<file, terminated, outcome, edits, want>>

-----------------------------------------------------------------------------
(* The layout RAS gives a b-file. *)

\* A row of pairs or of ordinates whose cells nothing looks at.
Ordinates == Row(<<1, 0, 0>>)

StructRows(s) ==
  <<Row(<<s.snet, IF s.method1 THEN 1 ELSE 0, IF s.wasting THEN 1 ELSE 0>>)>>
    \o (IF s.wasting THEN <<Ordinates>> ELSE <<>>)
    \o <<Ordinates, Row(<<s.elev, 0, 0>>), Row(<<s.prog, 0, 0>>)>>
    \o [i \in 1 .. (s.prog + 4) \div 5 |-> Ordinates]
    \o (IF s.method1
        THEN <<Row(<<s.down, 0, 0>>)>> \o [i \in 1 .. (s.down + 4) \div 5 |-> Ordinates]
        ELSE <<>>)

OutletRows(o) ==
  LET n == Len(o.series)
      FiveFrom(r) == FlattenSeq(SubSeq(o.series, 5 * r - 4, IF 5 * r < n THEN 5 * r ELSE n))
  IN  <<Header("outlet", o.name), Row(<<n>>)>>
        \o [r \in 1 .. (n + 4) \div 5 |-> Row(FiveFrom(r))]
        \o (IF o.emptyLine THEN <<Blank>> ELSE <<>>)
        \o <<EndOfFlow, Ordinates>>

SkipDssRows == <<Header("extra", ""), Row(<<1>>), Header("skip", "")>>

Render(w) ==
  <<Header("version", ""), Ordinates, Header("breach", ""), Row(<<Len(w.structs)>>)>>
    \o FlattenSeq([i \in DOMAIN w.structs |-> StructRows(w.structs[i])])
    \o FlattenSeq([i \in DOMAIN w.outlets |-> OutletRows(w.outlets[i])])
    \o (CASE w.skip = "no" -> <<>>
          [] w.skip = "next row" -> SkipDssRows
          [] w.skip = "after an empty line" -> <<Blank>> \o SkipDssRows)

\* An outlet once its file has been written again: the cells of its series are
\* reformatted, and an empty series leaves an empty line.
Again(o) ==
  [name |-> o.name, series |-> Reformatted(o.series),
   emptyLine |-> o.emptyLine \/ o.series = <<>>]

\* What a file should say once it has been written again.
Rewritten(w) ==
  [structs |-> w.structs, skip |-> w.skip,
   outlets |-> [i \in DOMAIN w.outlets |-> Again(w.outlets[i])]]

\* The elevation of the first structure with an id becomes elev.
WithElevation(w, snet, elev) ==
  LET at == {i \in DOMAIN w.structs : w.structs[i].snet = snet}
  IN  [w EXCEPT !.structs = [i \in DOMAIN w.structs |->
         IF i \in at /\ \A j \in at : i <= j
         THEN [w.structs[i] EXCEPT !.elev = elev] ELSE w.structs[i]]]

\* A fragility result asks for its elevation at the structure it names, if the
\* geometry has one.
WithResult(w, r) ==
  LET named == {i \in DOMAIN Structures : Structures[i].connection = r.name}
      last == CHOOSE i \in named : \A j \in named : j <= i
  IN  IF named = {} THEN w ELSE WithElevation(w, Structures[last].id, r.elev)

-----------------------------------------------------------------------------
\* Type invariant.  Of the cells of a row, those that are modelled are no more than
\* a full row of pairs; the others of a structure's first row are left out.
EditsTypeOK ==
  /\ \A i \in DOMAIN file :
       /\ file[i].k \in {"header", "row", "blank", "end"}
       /\ file[i].k = "row" => Len(file[i].cells) \in 1 .. 2 * PerRow
  /\ terminated \in BOOLEAN
  /\ outcome \in {"ok", "error", "panic"}
  /\ edits \in 0 .. MaxEdits
  /\ want.skip \in {"no", "next row", "after an empty line"}

EditsInit ==
  /\ \E c \in Contents :
       want = [structs |-> c.structs, skip |-> "no",
               outlets |-> [i \in DOMAIN c.outlets |->
                              [name |-> c.outlets[i].name, series |-> c.outlets[i].series,
                               emptyLine |-> FALSE]]]
  /\ file = Render(want)
  /\ terminated \in BOOLEAN
  /\ outcome = "ok"
  /\ edits = 0

MayEdit ==
  /\ outcome = "ok"
  /\ edits < MaxEdits

Stops(how) ==
  /\ outcome' = how
  /\ edits' = edits + 1
  /\ UNCHANGED <<file, terminated, want>>

\* os.WriteFile of what the blocks are written to.
Writes(blocks) ==
  /\ file' = Write(blocks)
  /\ terminated' = TRUE
  /\ edits' = edits + 1
  /\ UNCHANGED outcome

\* InitBFile does not return on a file with an empty line.
ReaderPanics ==
  /\ MayEdit
  /\ ReadPanics(file)
  /\ Stops("panic")

\* An attribute or one of the other files of the action is missing.
InputMissing ==
  /\ MayEdit
  /\ ~ReadPanics(file)
  /\ Stops("error")

\* SNETidToStructName: of structures with one name the last counts, and a name
\* that is not there has id 0, which no structure has.
IdOf(name) ==
  LET i == SelectLastInSeq(Structures, LAMBDA s : s.connection = name)
  IN  IF i = 0 THEN 0 ELSE Structures[i].id

\* Every result in turn; one whose structure is not in the file is logged only.
AmendAll(blocks, results) ==
  FoldLeft(LAMBDA done, r : Amended(done, IdOf(r.name), r.elev), blocks, results)

\* UpdateBfileAction.Run
UpdateBreach(results) ==
  /\ MayEdit
  /\ ~ReadPanics(file)
  /\ Writes(AmendAll(Read(file), results))
  /\ want' = Rewritten(FoldLeft(WithResult, want, results))

\* The first outlet whose name contains the pattern; 0 is none.
OutletFor(blocks, pattern) ==
  SelectInSeq(blocks, LAMBDA b : b.k = "outlet" /\ b.name \in NamesWith[pattern])

UpdatedOutlet(blocks, i, flows) ==
  [blocks EXCEPT ![i].series = WithFlows(@, flows)]

\* UpdateOutletTSAction.Run
UpdateOutlet(pattern, flows) ==
  LET blocks == Read(file)
      i == OutletFor(blocks, pattern)
  IN  /\ MayEdit
      /\ ~ReadPanics(file)
      /\ i # 0
      /\ Len(flows) = Len(blocks[i].series)
      /\ Writes(UpdatedOutlet(blocks, i, flows))
      /\ LET o == SelectInSeq(want.outlets, LAMBDA x : x.name \in NamesWith[pattern])
         IN  want' = Rewritten([want EXCEPT !.outlets[o].series = WithFlows(@, flows)])

\* No outlet is found, or the column has another length.
OutletNotUpdated(pattern, flows) ==
  LET blocks == Read(file)
      i == OutletFor(blocks, pattern)
  IN  /\ MayEdit
      /\ ~ReadPanics(file)
      /\ i # 0 => Len(flows) # Len(blocks[i].series)
      /\ Stops("error")

Holds(rows, part) ==
  \E i \in 1 .. Len(rows) - Len(part) + 1 : SubSeq(rows, i, i + Len(part) - 1) = part

HasSkipDss(rows) == Holds(rows, SkipDssRows)

\* UpdateBfileSkipDSSAction.Run: a newline and the commands, which have none at
\* their end.
SkipDss ==
  /\ MayEdit
  /\ edits' = edits + 1
  /\ UNCHANGED outcome
  /\ IF HasSkipDss(file)
     THEN UNCHANGED <<file, terminated, want>>
     ELSE /\ file' = file \o (IF terminated THEN <<Blank>> ELSE <<>>) \o SkipDssRows
          /\ terminated' = FALSE
          /\ want' = [want EXCEPT !.skip =
                        IF terminated THEN "after an empty line" ELSE "next row"]

EditsNext ==
  \/ ReaderPanics
  \/ InputMissing
  \/ \E results \in Curves : UpdateBreach(results)
  \/ \E pattern \in Patterns, flows \in Flows :
       UpdateOutlet(pattern, flows) \/ OutletNotUpdated(pattern, flows)
  \/ SkipDss

EditsSpec == EditsInit /\ [][EditsNext]_editsVars

-----------------------------------------------------------------------------
(* Properties. *)

\* After any sequence of edits the file is, row by row, what RAS would have laid
\* out for the edited data: every structure was cut at the right row, its
\* elevation found below mass wasting or without it, a result for a structure the
\* geometry or the file does not have changed nothing, and nothing that was not
\* edited was lost, moved or repeated (SplitIntoBreachDataArray, InitOutletTS,
\* ToBytes, AmmendBreachElevations, the contains test of skip-dss).
FileSaysWhatWasAsked == file = Render(want)

\* A manifest whose reader panics has only itself to blame for one of two things:
\* it asked for skip-dss on a file that ends in a newline, or it rewrote an
\* outlet series without values (rowIsNotAHeader, OutletTS.ToBytes).
PanicHasACause ==
  outcome = "panic" =>
    \/ want.skip = "after an empty line"
    \/ \E i \in DOMAIN want.outlets : want.outlets[i].emptyLine

Breached(rows, results) == Write(AmendAll(Read(rows), results))
WithOutlet(rows, pattern, flows) ==
  LET blocks == Read(rows)
  IN  Write(UpdatedOutlet(blocks, OutletFor(blocks, pattern), flows))

\* The order of the two rewriting actions in a manifest does not matter, and
\* neither leaves a file the other cannot read, as long as no series is empty and
\* reformatting the flows twice is reformatting them once: the last action rewrites
\* the flows once more when they are put in first.
EditsCommute ==
  \A results \in Curves, pattern \in Patterns, flows \in Flows :
    LET blocks == Read(file)
        i == OutletFor(blocks, pattern)
    IN  (/\ Blank \notin {file[j] : j \in DOMAIN file}
         /\ i # 0
         /\ flows # <<>>
         /\ \A p \in DOMAIN flows : Reformat[Reformat[flows[p]]] = Reformat[flows[p]]
         /\ Len(flows) = Len(blocks[i].series)
         /\ \A j \in DOMAIN want.outlets : want.outlets[j].series # <<>>)
        => LET breachFirst == Breached(file, results)
               outletFirst == WithOutlet(file, pattern, flows)
           IN  /\ ~ReadPanics(breachFirst)
               /\ ~ReadPanics(outletFirst)
               /\ WithOutlet(breachFirst, pattern, flows) = Breached(outletFirst, results)

=============================================================================
