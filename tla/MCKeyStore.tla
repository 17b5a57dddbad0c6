----------------------------- MODULE MCKeyStore -----------------------------
(* KeyStore with a table of two entries, and symmetric keys of up to two. *)
EXTENDS KeyStore, TLC

MCMaxLen == [kind \in Kinds |-> IF kind = "aes" THEN 2 ELSE 1]

\* Neither the identifiers nor the values of the blocks mean anything.
Symmetry == Permutations(Ids) \cup Permutations(Vals)
=============================================================================
