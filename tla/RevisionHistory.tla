--------------------------- MODULE RevisionHistory ---------------------------
(***************************************************************************)
(* What `configs establish` and `configs revise` promise together: a list  *)
(* of immutable revisions, in which one that supersedes another names an   *)
(* earlier revision of the same configuration, and none is superseded      *)
(* twice -- unless a lock wait outlasted its timeout (late), after which   *)
(* only the last of these is lost.                                         *)
(***************************************************************************)
EXTENDS Integers, Sequences

CONSTANTS Ids, Names, NoId

VARIABLES history, late
histVars == <<history, late>>

Stored(id, h)     == \E i \in DOMAIN h : h[i].id = id
Superseded(id, h) == \E i \in DOMAIN h : h[i].sup = id
Supersedable(id, name, h) ==
  \E i \in DOMAIN h : h[i].id = id /\ h[i].name = name

\* The revisions of a database from before `configs revise`.
HistInit ==
  /\ history \in {<<>>} \cup
       {<<[id |-> id, name |-> name, sup |-> NoId]>> : id \in Ids, name \in Names}
  /\ late = FALSE

Publish(id, name, sup) ==
  /\ ~Stored(id, history)
  /\ sup # NoId => /\ Supersedable(sup, name, history)
                   /\ late \/ ~Superseded(sup, history)
  /\ history' = Append(history, [id |-> id, name |-> name, sup |-> sup])
  /\ late' = late

Delay == late' = TRUE /\ UNCHANGED history

HistNext ==
  \/ Delay
  \/ \E id \in Ids, name \in Names, sup \in Ids \cup {NoId} :
       Publish(id, name, sup)

HistSpec == HistInit /\ [][HistNext]_histVars
=============================================================================
