---------------------------- MODULE MCSssObjects ----------------------------
(* Two clients on one identifier, with one curve of each sort.             *)
EXTENDS SssObjects, TLC

CONSTANTS c1, c2, k1, k2, P256, X25519, Ed25519

(* Persistent keys of two sorts, a file and transient keys of two sorts;   *)
(* every sort of key or file is one of EC, RSA, symmetric or file to the   *)
(* code.                                                                   *)
MCKinds ==
    {<<"EC", "Pair", 1>>, <<"RSA", "Pair", 1>>, <<"Binary", "Default", 1>>,
     <<"RSA", "Public", 2>>, <<"HMAC", "Default", 2>>}
MCSymmetry == Permutations({k1, k2}) \cup Permutations({c1, c2})
=============================================================================
