------------------------------- MODULE MCTools -------------------------------
(* The lines and results of the instance that is checked.                  *)
EXTENDS Tools

MCLines == {<<>>, <<" ">>, <<"a">>, <<" ", "a">>, <<"a", " ", "a">>, <<"wide", " ">>}

=============================================================================
