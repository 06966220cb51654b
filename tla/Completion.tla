----------------------------- MODULE Completion -----------------------------
(***************************************************************************)
(* What a provider promises the agent for one request, whichever API it    *)
(* speaks: the agent hears the tokens of the answer in the order the server *)
(* said them, none twice and none skipped; a call the server opened is      *)
(* given to it at most once; and after the result nothing comes.            *)
(***************************************************************************)
EXTENDS Integers, Sequences, SequencesExt

VARIABLES
    said,    \* the number of tokens the server said
    heard,   \* the numbers of the tokens in the agent's response
    opened,  \* the calls the server opened
    given,   \* the calls the agent holds
    result   \* "none", "ok" or "error"

vars == <<said, heard, opened, given, result>>

Init ==
    /\ said = 0
    /\ heard = <<>>
    /\ opened = {}
    /\ given = <<>>
    /\ result = "none"

Say ==
    /\ said' = said + 1
    /\ UNCHANGED <<heard, opened, given, result>>

Open ==
    /\ \E c \in opened' : opened' = opened \cup {c}
    /\ UNCHANGED <<said, heard, given, result>>

Hear ==
    /\ result = "none"
    /\ Len(heard) < said
    /\ heard' = Append(heard, Len(heard) + 1)
    /\ UNCHANGED <<said, opened, given, result>>

\* Several calls may come together, in any order.
Give ==
    /\ result = "none"
    /\ \E S \in SUBSET (opened \ ToSet(given)) :
          \E s \in SetToSeqs(S) : given' = given \o s
    /\ UNCHANGED <<said, heard, opened, result>>

End ==
    /\ result = "none"
    /\ result' \in {"ok", "error"}
    /\ UNCHANGED <<said, heard, opened, given>>

Next == Say \/ Open \/ Hear \/ Give \/ End

Spec == Init /\ [][Next]_vars

=============================================================================
