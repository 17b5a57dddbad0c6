------------------------------ MODULE Commands ------------------------------
(* A call of the SE's API: its arguments become a command, the command goes  *)
(* to the SE in the session and over the channel there are, and the answer   *)
(* becomes the call's result. CommandTable has the API, Tlv the encoding.    *)
(*                                                                           *)
(* The SE is external: it takes a command apart by ISO 7816-4 and answers    *)
(* what its state and the data allow, which here is any answer.              *)
EXTENDS CommandTable, FiniteSetsExt

CONSTANTS
    Table,           \* the commands to look at
    Givens(_),       \* the arguments a command is called with: a length or a number each
    Scps,            \* whether the channel is SCP03's
    CallerBuffer,    \* the room a caller gives for a field of the answer
    AnswerSizes(_)   \* bound: the sizes of such fields in an answer to what a call was given

ASSUME CommandsAssumption ==
    /\ Scps \subseteq BOOLEAN
    /\ MaxCmd \in Nat /\ CallerBuffer \in Nat
    /\ \A c \in Table : \A given \in Givens(c) :
         DOMAIN given = DOMAIN c.args /\ AnswerSizes(given) \subseteq Nat

\* What the functions of the API read: an exact size is never the caller's, and a
\* check that must succeed is never left out.
ASSUME TableAssumption ==
    \A c \in Table :
        /\ c.gets \in Seq([tag : Nat, most : Nat \cup {Caller}, exact : BOOLEAN,
                           optional : BOOLEAN, success : BOOLEAN, needs : Nat])
        /\ \A i \in DOMAIN c.gets :
             /\ c.gets[i].exact => c.gets[i].most # Caller
             /\ c.gets[i].success => ~c.gets[i].optional

\* What they write: every command has a header of its own, every field a tag and, but
\* for buffers, a size; the T4T applet takes payload without tags.
WellFormed(c) ==
    /\ c.cla \in {0, 128} /\ c.ins \in 0..255 \ {INS.PROCESS}
    /\ c.p1 \in 0..255 /\ c.p2 \in 0..255 /\ c.hasle \in BOOLEAN
    /\ c.args \in Seq([tag : 0..255, size : Nat \cup {Buffer}, optional : BOOLEAN,
                       even : BOOLEAN, needs : SUBSET Nat, atMost : Nat])
    /\ \A i \in DOMAIN c.args :
         /\ c.refused \/ c.args[i].size # 0
         /\ IF c.applet = "T4T" THEN c.args[i].tag = 0 /\ ~c.args[i].even
            ELSE c.args[i].tag # 0

\* The buffer is far below what two bytes of length can say.
ASSUME EncodingAssumption ==
    /\ MaxCmd < 65000
    /\ \A c \in Table :
         WellFormed(c) /\ \A given \in Givens(c) : given \in [DOMAIN c.args -> Nat]

VARIABLES
    session,     \* hasSession of Se05xSession_t
    scp,         \* whether its fp_Transform is the one of SCP03
    call,        \* the command of the call in progress and its arguments
    sent,        \* what the SE gets, and whether it is still to be answered
    answer,      \* what the SE answered: fields and a status word
    result,      \* retStatus
    reader,      \* rspIndex, retStatus so far and the fields read
    seSession    \* the SE's own idea of the session

vars == <<session, scp, call, sent, answer, result, reader, seSession>>

NoCall == <<>>

NoAnswer == [fields |-> <<>>, sw |-> "none"]

Init ==
    /\ session \in BOOLEAN /\ scp \in Scps
    /\ seSession = session
    /\ call = NoCall /\ sent = <<>> /\ answer = NoAnswer
    /\ result = "none" /\ reader = Reader

-----------------------------------------------------------------------------
(* Sending.                                                                   *)

Header(c) == <<Byte(c.cla), Byte(c.ins), Byte(c.p1), Byte(c.p2)>>

(* What makes a function give up before it sends: CloseSession has no session, *)
(* a size it does not support, no key to generate, an argument without room.   *)
GivesUp(c, given) ==
    \/ c.refused
    \/ c.session /\ ~session
    \/ c.oneOf # {} /\ \A i \in c.oneOf : given[i] = 0
    \/ ~Fits(c.args, given)
    \/ Bytes(Fields(c.args, given)) > c.maxData

ToSend(c, given) == Sent(Header(c), Fields(c.args, given), c.hasle, session, scp)

Call(c, given) ==
    /\ call = NoCall
    /\ call' = [c |-> c, given |-> given]
    /\ IF GivesUp(c, given)
       THEN sent' = <<>> /\ result' = "NOT_OK"
       ELSE sent' = ToSend(c, given) /\ result' = "none"
    /\ UNCHANGED <<session, scp, answer, reader, seSession>>

-----------------------------------------------------------------------------
(* The SE.                                                                    *)

Deciphered(apdu) ==
    LET cipher == Only(apdu.data, {x \in Range(apdu.data) : "cipher" \in DOMAIN x})
    IN  [apdu EXCEPT !.hdr[1].byte = @ - 4, !.data = IF cipher = <<>> THEN <<>> ELSE cipher[1].cipher]

(* A command in a session is the second field of the session's own command. *)
Understood(items) ==
    LET outer == smApduGetTxRxCase(items)
        inner == IF outer.hdr = PROCESS /\ WholeFields(outer.data) /\ Len(FieldsIn(outer.data)) = 2
                 THEN smApduGetTxRxCase(FieldsIn(outer.data)[2].value) ELSE outer
    IN  IF scp /\ inner.ok THEN Deciphered(inner) ELSE inner

(* The fields the function looks for, by the arguments it was given. *)
Looks(get) == get.needs = 0 \/ call.given[get.needs] # 0

Looked == {i \in DOMAIN call.c.gets : Looks(call.c.gets[i])}

WantsFields == call.c.gets # StatusOnly

FieldOf(get, n) ==
    [tag |-> get.tag, size |-> IF get.most = Caller \/ (~get.exact /\ n > get.most) THEN n ELSE get.most,
     success |-> TRUE]

(* The place in a whole answer of the field that get i looks for. *)
Place(i) == Cardinality({j \in Looked : j <= i})

Whole(n) ==
    [k \in 1..Cardinality(Looked) |-> FieldOf(call.c.gets[CHOOSE i \in Looked : Place(i) = k], n)]

ExtraField == [tag |-> TAG_TIMESTAMP, size |-> 1, success |-> TRUE]

(* An answer the call expects, and answers it may get instead. *)
Expected == IF WantsFields THEN {Whole(n) : n \in AnswerSizes(call.given)} ELSE {<<>>}

Unexpected ==
    {Append(fields, ExtraField) : fields \in Expected}
      \cup (IF WantsFields /\ Looked # {}
            THEN {Front(fields) : fields \in Expected} \cup {Tail(fields) : fields \in Expected}
                   \cup {[fields EXCEPT ![i].success = FALSE] : fields \in Expected, i \in 1..Cardinality(Looked)}
            ELSE {})

(* A session the SE has closed is no session: an error, whatever the command. *)
SeAnswers ==
    /\ sent # <<>> /\ answer = NoAnswer /\ result = "none"
    /\ \/ /\ session => seSession
          /\ \E fields \in Expected \cup Unexpected : answer' = [fields |-> fields, sw |-> "OK"]
       \/ answer' = [fields |-> <<>>, sw |-> "error"]
       \/ answer' = [fields |-> <<>>, sw |-> "lost"]
    /\ seSession' = (seSession /\ ~(call.c.session /\ answer'.sw # "error"))
    /\ UNCHANGED <<session, scp, call, sent, result, reader>>

-----------------------------------------------------------------------------
(* Reading and returning.                                                     *)

ToRead == answer.sw = "OK" /\ WantsFields /\ reader.ok /\ reader.gets < Len(call.c.gets)

(* One tlvGet after the other, until one fails. *)
TlvGet ==
    /\ result = "none" /\ ToRead
    /\ LET get == call.c.gets[reader.gets + 1]
       IN  reader' = IF Looks(get) THEN TakeField(reader, get, answer.fields, CallerBuffer)
                     ELSE [reader EXCEPT !.gets = @ + 1]
    /\ UNCHANGED <<session, scp, call, sent, answer, result, seSession>>

StatusOf ==
    CASE answer.sw = "error"               -> "error"
      [] answer.sw = "lost"                -> "NOT_OK"
      [] answer.sw = "OK" /\ ~WantsFields  -> "OK"
      [] answer.sw = "OK" /\ WantsFields   -> IF ReadWhole(reader, answer.fields) THEN "OK" ELSE "NOT_OK"

\* Mutant: CloseSession forgets the session whatever its status.
Return_Forgets ==
    /\ answer # NoAnswer /\ result = "none" /\ ~ToRead
    /\ result' = StatusOf
    /\ session' = (session /\ ~call.c.session)
    /\ UNCHANGED <<scp, call, sent, answer, reader, seSession>>
Return ==
    /\ answer # NoAnswer /\ result = "none" /\ ~ToRead
    /\ result' = StatusOf
    /\ session' = (session /\ ~(call.c.session /\ result' = "OK"))
    /\ UNCHANGED <<scp, call, sent, answer, reader, seSession>>

Done ==
    /\ call # NoCall /\ result # "none"
    /\ call' = NoCall /\ sent' = <<>> /\ answer' = NoAnswer /\ result' = "none" /\ reader' = Reader
    /\ UNCHANGED <<session, scp, seSession>>

Next ==
    \/ \E c \in Table : \E given \in Givens(c) : Call(c, given)
    \/ SeAnswers
    \/ TlvGet
    \/ Return
    \/ Done

Spec == Init /\ [][Next]_vars

-----------------------------------------------------------------------------

(* What of its arguments a call must tell the SE: what is not empty, and      *)
(* numbers that have no default. An update that generates a key has no policy *)
(* to check (se05x_04_xx_APDU_impl.h:1510).                                   *)
Meant(c, given) ==
    Only([i \in DOMAIN c.args |-> i],
         {i \in DOMAIN c.args :
            /\ given[i] # 0 \/ (c.args[i].size # Buffer /\ ~c.args[i].optional)
            /\ c.args[i].needs # {} => \E j \in c.args[i].needs : given[j] # 0})

Told(arg, i, given, value) ==
    /\ value # <<>> /\ Last(value) = Value(i, given, IF arg.size = Buffer THEN given ELSE arg.size)
    /\ Bytes(value) = Last(value).size + (IF arg.even THEN Last(value).size % 2 ELSE 0)

(* The SE takes a command apart into the very header and arguments of the     *)
(* call, each with its own tag, whole and in order, nothing else between them *)
(* but empty ones, whatever their lengths, with or without a session and      *)
(* SCP03: no length byte, Lc or wrapping says anything else than what follows. *)
SentAsGiven ==
    sent # <<>> /\ answer = NoAnswer =>
      LET apdu   == Understood(sent)
          c      == call.c
          meant  == Meant(c, call.given)
          all    == FieldsIn(apdu.data)
          fields == Only(all, {f \in Range(all) : f.value # <<>>})
          raw    == c.applet = "T4T"
      IN  /\ apdu.ok /\ apdu.hdr = Header(c)
          /\ raw \/ WholeFields(apdu.data)
          /\ IF raw THEN Len(apdu.data) = Len(meant) ELSE Len(fields) = Len(meant)
          /\ \A k \in DOMAIN meant :
               LET i == meant[k]
               IN  /\ raw \/ fields[k].tag = c.args[i].tag
                   /\ Told(c.args[i], i, call.given[i],
                           IF raw THEN <<apdu.data[k]>> ELSE fields[k].value)

(* A call that says OK has the SE's OK, and has given its caller every field  *)
(* of the answer it must, each within the buffer it goes to, and left none     *)
(* unread; where the SE says whether a check succeeded, it did.                *)
OkIsWhole ==
    result = "OK" =>
      /\ answer.sw = "OK"
      /\ WantsFields =>
           LET got == reader.got
               For(i, j) == got[j].tag = call.c.gets[i].tag
           IN  /\ got = answer.fields
               /\ \A j \in DOMAIN got : \E i \in Looked :
                    For(i, j) /\ got[j].size <= Most(call.c.gets[i], CallerBuffer)
               /\ \A i \in Looked : call.c.gets[i].optional \/ \E j \in DOMAIN got : For(i, j)
               /\ \A i \in Looked :
                    call.c.gets[i].success => \E j \in DOMAIN got : For(i, j) /\ got[j].success

(* An answer the SE's manual promises, which the caller has room for, is      *)
(* never turned into a failure.                                               *)
TakesGoodAnswer ==
    /\ result # "none" /\ answer.sw = "OK"
    /\ answer.fields \in Expected
    /\ WantsFields => \A i \in Looked :
         answer.fields[Place(i)].size <= Most(call.c.gets[i], CallerBuffer)
    => result = "OK"

(* The middleware takes the session for closed only when the SE has closed it: *)
(* no command goes outside a session that the SE still keeps.                  *)
ClosedForReal == ~session => ~seSession

=============================================================================
