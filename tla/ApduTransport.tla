--------------------------- MODULE ApduTransport ---------------------------
(***************************************************************************)
(* What phNxpEse_Transceive promises to the layers above it: commands go   *)
(* to the SE one at a time, each is executed at most once and in the order *)
(* they were issued, and a call that succeeds returns bytes of the answer  *)
(* to its own command, which the SE then has executed.                     *)
(*                                                                         *)
(* It does not promise that a command whose call failed was not executed,  *)
(* nor will not be later on, nor that the answer is complete: README.md    *)
(* says where the code falls short of that.                                *)
(***************************************************************************)
EXTENDS Naturals, Sequences

CONSTANTS
    NumCmds,      \* how many commands are issued, numbered in that order
    Answer(_)     \* the bytes that answer a command

VARIABLES
    issued,       \* the number of the last command issued
    pending,      \* whether its call is still running
    executed,     \* the commands executed, in order
    outcome       \* how the running call is about to return, or NotYet

apduVars == <<issued, pending, executed, outcome>>

\* The outcomes of a call.
NotYet == [is |-> "not yet"]
Failed == [is |-> "failed"]
Bytes(ans) == [is |-> "bytes", bytes |-> ans]

Prefixes(s) == {SubSeq(s, 1, n) : n \in 0..Len(s)}

ApduInit == issued = 0 /\ pending = FALSE /\ executed = << >> /\ outcome = NotYet

Issue ==
    /\ ~pending /\ issued < NumCmds
    /\ issued' = issued + 1 /\ pending' = TRUE
    /\ UNCHANGED <<executed, outcome>>

\* The SE executes the last command issued, unless it has; its call may be over.
Execute ==
    /\ \A i \in DOMAIN executed : executed[i] < issued
    /\ issued > 0
    /\ executed' = Append(executed, issued)
    /\ UNCHANGED <<issued, pending, outcome>>

Succeed ==
    /\ pending /\ outcome = NotYet
    /\ \E ans \in Prefixes(Answer(issued)) :
         /\ ans # << >> => \E i \in DOMAIN executed : executed[i] = issued
         /\ outcome' = Bytes(ans)
    /\ UNCHANGED <<issued, pending, executed>>

Fail ==
    /\ pending /\ outcome = NotYet
    /\ outcome' = Failed
    /\ UNCHANGED <<issued, pending, executed>>

\* The call returns, or its process dies.
EndCall ==
    /\ pending
    /\ pending' = FALSE /\ outcome' = NotYet
    /\ UNCHANGED <<issued, executed>>

ApduNext == Issue \/ Execute \/ Succeed \/ Fail \/ EndCall

ApduSpec == ApduInit /\ [][ApduNext]_apduVars

-----------------------------------------------------------------------------
\* No command is executed twice, and none before one issued earlier.
InOrderOnce ==
    \A i, j \in DOMAIN executed : i < j => executed[i] < executed[j]

\* Bytes handed to the caller come from a command that was executed.
BytesOfExecuted ==
    outcome \notin {NotYet, Failed, Bytes(<< >>)} =>
        \E i \in DOMAIN executed : executed[i] = issued
=============================================================================
