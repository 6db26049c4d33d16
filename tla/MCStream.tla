------------------------------ MODULE MCStream -------------------------------
(* Two calls, and a token that overlaps with itself.                        *)
EXTENDS ExecutionStream

MCSecret == <<"a", "a">>
=============================================================================
