------------------------------ MODULE MCScp03 ------------------------------
(* Instances of Scp03 for TLC. *)
EXTENDS Scp03

\* Answers are told apart by the command they answer.
MCAnswer(c) == <<c>>

\* The platform channel of older applets counts alike on both sides only for commands
\* with data that is not 8 bytes long; every length goes on the other channels.
MCLens(ch) == IF ch[1] = "SCP03" THEN {5} ELSE {0, 5, 8}

============================================================================
