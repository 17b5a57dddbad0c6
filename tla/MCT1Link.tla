------------------------------ MODULE MCT1Link ------------------------------
(* T1Link with two commands, answered by one and by two I-frames. *)
EXTENDS T1Link

MCAnswer(cmd) == [i \in 1..(IF cmd % 2 = 1 THEN MaxRsp ELSE 1) |-> <<cmd, i>>]
MCUnits == (Cmds \cup {NoCmd}) \X (1..MaxRsp)
MCInfs == {<< >>} \cup {<<d>> : d \in MCUnits}
=============================================================================
