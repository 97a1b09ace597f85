------------------------------- MODULE Outbox -------------------------------
(***************************************************************************)
(* What extraction with an accumulator promises.  Records wait under their  *)
(* block until a document of all that waits is stored; what such a document *)
(* does not keep waiting is never seen again.  A new record waits beside    *)
(* the others; a list may take the place of all those of its block.  A step *)
(* may fail, whatever it has done by then, and then nothing more happens.   *)
(***************************************************************************)
EXTENDS Naturals, Sequences

CONSTANTS
  Records,   \* each with its block
  Lists      \* those that take the place of their block

VARIABLES
  waiting,    \* the records collected and not dismissed
  documents,  \* what was stored, in order: its records, and whether they are kept
  broken      \* a step has failed

vars == <<waiting, documents, broken>>

Sent == UNION {documents[i].records : i \in DOMAIN documents}

Init ==
  /\ waiting = {}
  /\ documents = <<>>
  /\ broken = FALSE

\* The records waiting, when r is put in the place of those of its block.
InPlaceOf(r) == {q \in waiting : q.block # r.block} \cup {r}

\* All that waits after a step collected new records, that is none that has been sent.
Collected(all) ==
  /\ all \in SUBSET Records
  /\ all \cap Sent \subseteq waiting
  /\ waiting \subseteq all \/ \E r \in Lists \ waiting : all = InPlaceOf(r)

Collect == Collected(waiting') /\ UNCHANGED documents

\* A document of all that waits now is stored, and keeps it waiting or not.
Store ==
  LET n == Len(documents) + 1
  IN  /\ Len(documents') = n
      /\ documents' = Append(documents, documents'[n])
      /\ Collected(documents'[n].records)
      /\ waiting' = IF documents'[n].keeps THEN documents'[n].records ELSE {}

\* A step that fails may also lose what waits.
Lose == waiting' = {} /\ UNCHANGED documents

Next ==
  /\ ~broken
  /\ \/ (Collect \/ Store) /\ UNCHANGED broken
     \/ (Collect \/ Store \/ Lose) /\ broken' = TRUE

Spec == Init /\ [][Next]_vars

=============================================================================
