----------------------------- MODULE MCIdentity -----------------------------
(* Identity for TLC, with display names without commas. *)
EXTENDS Identity

CONSTANTS c1, c2

MCNames == {<<"ann">>, <<"bob">>}

\* Channels and names are interchangeable, so the first event can be in either
\* channel and of either name.  SYMMETRY would not do, PromiseKept being a
\* liveness property.
FirstEvent == \A h \in handlers : h.n = 1 => h.channel = c1 /\ h.name = <<"ann">>

=============================================================================
