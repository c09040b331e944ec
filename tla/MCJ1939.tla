------------------------------ MODULE MCJ1939 ------------------------------
(* J1939Transport with the pairs interchangeable. *)
EXTENDS J1939Transport, TLC

Interchangeable == Permutations(Pairs)
=============================================================================
