------------------------------ MODULE MCT1oI2C ------------------------------
(* T1oI2C against an arbitrary SE, with small limits in place of the code's. *)
EXTENDS T1oI2C

CONSTANTS c1, u

MCInfs == {<< >>, <<u>>}
=============================================================================
