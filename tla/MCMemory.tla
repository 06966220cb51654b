------------------------------ MODULE MCMemory ------------------------------
(* Memory for TLC. *)
EXTENDS Memory

CONSTANTS c1, c2, p1, p2

\* Conversations and persons are interchangeable, so the first turn can be any
\* one's.  SYMMETRY would not do, NothingHangs being a liveness property.
FirstTurn == turns # <<>> => turns[1].conversation = c1 /\ turns[1].author = p1

=============================================================================
