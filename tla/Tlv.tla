-------------------------------- MODULE Tlv --------------------------------
(* Type, length and value: how se05x_tlv.c writes the arguments of an API    *)
(* call into a command, how fsl_sss_se05x_apis.c frames the command, and how *)
(* the answer is taken apart again.                                          *)
(*                                                                           *)
(* A command is a sequence of items. An item is a byte whose value matters   *)
(* (a tag, a length, a header byte) or a whole value, of which only its size *)
(* and the argument it came from matter. An answer is a sequence of fields.  *)
EXTENDS Integers, Sequences, SequencesExt

CONSTANT MaxCmd          \* SE05X_MAX_BUF_SIZE_CMD

Byte(n) == [byte |-> n % 256]

Value(i, given, n) == [value |-> i, given |-> given, size |-> n]

Size(item) == IF "byte" \in DOMAIN item THEN 1 ELSE item.size

(* FoldLeft, as a function that TLC evaluates in one pass. *)
Pass(op(_, _), base, s) ==
  LET after[i \in 0 .. Len(s)] == IF i = 0 THEN base ELSE op(after[i - 1], s[i])
  IN  after[Len(s)]

(* What of s is in T, in the order of s: SelectSeq, likewise. *)
Only(s, T) == Pass(LAMBDA got, x : IF x \in T THEN Append(got, x) ELSE got, <<>>, s)

Bytes(items) == Pass(LAMBDA n, x : n + Size(x), 0, items)

----------------------------------------------------------------------------
(* The arguments of a call. An argument has a tag and, unless it is a buffer, *)
(* a size; "optional" ones are left out when they are empty or zero; needs is *)
(* the set of arguments one of which must be given for this one to be sent.   *)

Arg(tag, size) == [tag |-> tag, size |-> size, optional |-> FALSE, even |-> FALSE,
                   needs |-> {}, atMost |-> 65535]

Optional(arg) == [arg EXCEPT !.optional = TRUE]

WithAny(arg, others) == [arg EXCEPT !.needs = others]

AtMost(arg, n) == [arg EXCEPT !.atMost = n]

Buffer == -1

U8(tag) == Arg(tag, 1)

U16(tag) == Arg(tag, 2)

U32(tag) == Arg(tag, 4)

U64Size(tag, size) == Arg(tag, size)

U8buf(tag) == Arg(tag, Buffer)

U16Optional(tag) == Optional(U16(tag))

KeyID(tag) == Optional(U32(tag))

MaxAttemps(tag) == Optional(U16(tag))

ECCurve(tag) == Optional(U8(tag))

Se05xPolicy(tag) == Optional(U8buf(tag))

U8bufOptional(tag) == Optional(U8buf(tag))

ByteShift(tag) == [Optional(U8buf(tag)) EXCEPT !.even = TRUE]

Features(tag, extended) == Arg(tag, IF extended THEN 32 ELSE 2)

(* A payload that is not in a field of its own, as the T4T applet takes it. *)
Raw == Optional(U8buf(0))

----------------------------------------------------------------------------
(* Writing: given[i] is the length of a buffer or the value of a number.     *)

\* Mutant: 128 still in one byte.
LengthBytes_128(n) ==
  IF n <= 128 THEN <<Byte(n)>>
  ELSE IF n <= 255 THEN <<Byte(129), Byte(n)>>
  ELSE <<Byte(130), Byte(n \div 256), Byte(n)>>
LengthBytes(n) ==
  IF n <= 127 THEN <<Byte(n)>>
  ELSE IF n <= 255 THEN <<Byte(129), Byte(n)>>
  ELSE <<Byte(130), Byte(n \div 256), Byte(n)>>

Present(arg, i, given) ==
  /\ arg.optional => given[i] # 0
  /\ arg.needs # {} => \E j \in arg.needs : given[j] # 0

SizeOf(arg, given) == IF arg.size = Buffer THEN given ELSE arg.size

(* A key component of odd length gets a leading zero. *)
Content(arg, i, given) ==
  LET n == SizeOf(arg, given)
  IN  IF n = 0 THEN <<>>
      ELSE (IF arg.even /\ n % 2 = 1 THEN <<Byte(0)>> ELSE <<>>) \o <<Value(i, given, n)>>

Field(arg, i, given) ==
  IF ~Present(arg, i, given) THEN <<>>
  ELSE LET content == Content(arg, i, given[i])
       IN  IF arg.tag = 0 THEN content
           ELSE <<Byte(arg.tag)>> \o LengthBytes(Bytes(content)) \o content

Fields(args, given) == FlattenSeq([i \in DOMAIN args |-> Field(args[i], i, given)])

(* A setter fails when the field does not fit behind what is there already. *)
Fits(args, given) ==
  /\ Bytes(Fields(args, given)) <= MaxCmd
  /\ \A i \in DOMAIN args : args[i].size = Buffer => given[i] <= args[i].atMost
  /\ \A i \in DOMAIN args : args[i].even /\ given[i] % 2 = 1 => given[i] + 1 < MaxCmd

----------------------------------------------------------------------------
(* Framing: the header, Lc, the data and Le.                                 *)

Lc(n, hasle) ==
  IF n < 255 /\ ~hasle THEN <<Byte(n)>> ELSE <<Byte(0), Byte(n \div 256), Byte(n)>>

Le(hasle) == IF hasle THEN <<Byte(0), Byte(0)>> ELSE <<>>

Frame(hdr, data, hasle) ==
  hdr \o (IF data = <<>> THEN <<Byte(0)>> ELSE Lc(Bytes(data), hasle) \o data) \o Le(hasle)

(* The applet session wraps the whole command but its Le into a field. *)
SessionId == [session |-> "id", size |-> 8]

PROCESS == <<Byte(128), Byte(5), Byte(0), Byte(0)>>

InSession(command) ==
  <<Byte(16), Byte(8), SessionId, Byte(65)>> \o LengthBytes(Bytes(command)) \o command

Inner(hdr, data, hasle) ==
  hdr \o (IF data = <<>> THEN <<>> ELSE Lc(Bytes(data), hasle)) \o data

(* SCP03 pads to the next block, enciphers, and appends eight bytes of MAC. *)
Enciphered(data) ==
  IF data = <<>> THEN <<>>
  ELSE <<[cipher |-> data, size |-> 16 * (Bytes(data) \div 16 + 1)]>>

Mac == [mac |-> "MAC", size |-> 8]

Secured(hdr, data, hasle) ==
  LET cipher == Enciphered(data)
  IN  <<Byte(hdr[1].byte + 4)>> \o Tail(hdr) \o Lc(Bytes(cipher) + 8, hasle)
        \o cipher \o <<Mac>>

(* What sss_se05x_TXn sends, by the session and the channel it has. *)
Sent(hdr, data, hasle, session, scp) ==
  CASE ~session /\ ~scp -> Frame(hdr, data, hasle)
    [] session /\ ~scp  -> Frame(PROCESS, InSession(Inner(hdr, data, hasle)), hasle)
    [] ~session /\ scp  -> Secured(hdr, data, hasle) \o Le(hasle)
    [] session /\ scp   -> Frame(PROCESS, InSession(Secured(hdr, data, hasle)), hasle)

----------------------------------------------------------------------------
(* Reading a command, as the middleware itself does with a ready APDU: the   *)
(* case follows from the length and the bytes behind the header.             *)

Garbled == [ok |-> FALSE, hdr |-> <<>>, data |-> <<>>]

Apdu(items, from, behind) ==
  [ok |-> TRUE, hdr |-> SubSeq(items, 1, 4), data |-> SubSeq(items, from, Len(items) - behind)]

smApduGetTxRxCase(items) ==
  LET n     == Bytes(items)
      at(i) == IF "byte" \in DOMAIN items[i] THEN items[i].byte ELSE 0
      len   == at(6) * 256 + at(7)
  IN  CASE n < 4                                -> Garbled
        [] n \in {4, 5}                         -> Apdu(items, 5, Len(items) - 4)
        [] n > 5 /\ at(5) # 0 /\ n = 5 + at(5)  -> Apdu(items, 6, 0)
        [] n > 5 /\ at(5) # 0 /\ n = 6 + at(5)  -> Apdu(items, 6, 1)
        [] n > 5 /\ at(5) = 0 /\ n = 7          -> Apdu(items, 5, Len(items) - 4)
        [] n > 7 /\ at(5) = 0 /\ n = 7 + len    -> Apdu(items, 8, 0)
        [] n > 7 /\ at(5) = 0 /\ n = 9 + len    -> Apdu(items, 8, 2)
        [] OTHER                                -> Garbled

(* Taking fields apart: tag, one, two or three bytes of length, the value. *)
NoField == [at |-> "tag", tag |-> 0, need |-> 0, more |-> 0, value |-> <<>>, fields |-> <<>>]

Close(s) ==
  IF s.at = "value" /\ s.need = 0
  THEN [NoField EXCEPT !.fields = Append(s.fields, [tag |-> s.tag, value |-> s.value])]
  ELSE s

Read(s, x) ==
  LET b == IF "byte" \in DOMAIN x THEN x.byte ELSE 255
  IN  Close(CASE s.at = "tag"                  -> [s EXCEPT !.at = "length", !.tag = b]
              [] s.at = "length" /\ b <= 127   -> [s EXCEPT !.at = "value", !.need = b]
              [] s.at = "length" /\ b = 129    -> [s EXCEPT !.at = "more", !.more = 1]
              [] s.at = "length" /\ b = 130    -> [s EXCEPT !.at = "more", !.more = 2]
              [] s.at = "more"                 ->
                   [s EXCEPT !.need = @ * 256 + b, !.more = @ - 1,
                             !.at = IF s.more = 1 THEN "value" ELSE "more"]
              [] s.at = "value" /\ Size(x) <= s.need ->
                   [s EXCEPT !.need = @ - Size(x), !.value = Append(@, x)]
              [] OTHER                         -> [s EXCEPT !.at = "garbled"])

Parse(items) == Pass(Read, NoField, items)

WholeFields(items) == Parse(items).at = "tag"

FieldsIn(items) == Parse(items).fields

----------------------------------------------------------------------------
(* Reading an answer. A get expects a tag and a size up to that of its        *)
(* variable, or of the buffer the caller gave; some must have one exact size. *)
(* An answer is a sequence of fields [tag, size, success] and a status word.  *)

Get(tag, most) == [tag |-> tag, most |-> most, exact |-> FALSE, optional |-> FALSE,
                   success |-> FALSE, needs |-> 0]

Caller == -1

GetU8(tag) == Get(tag, 1)

GetU16(tag) == Get(tag, 2)

GetU8buf(tag) == Get(tag, Caller)

GetResult(tag) == Get(tag, 1)

GetTimeStamp(tag) == Get(tag, 12)

(* A result the function itself compares with kSE05x_Result_SUCCESS. *)
GetSuccess(tag) == [GetResult(tag) EXCEPT !.success = TRUE]

(* An initialization vector of 16 bytes and no other length. *)
GetIv16(tag) == [Get(tag, 16) EXCEPT !.exact = TRUE]

(* The function goes on when the field is not there. *)
GetIfThere(get) == [get EXCEPT !.optional = TRUE]

(* The function looks for the field if argument i was given. *)
GetWith(get, i) == [get EXCEPT !.needs = i]

(* Bytes that are not in a field of their own. *)
GetRaw(n) == [Get(0, n) EXCEPT !.exact = n # Caller]

Most(get, caller) == IF get.most = Caller THEN caller ELSE get.most

\* Mutant: a field as large as its buffer does not fit.
Takes_Less(get, f, caller) ==
  /\ f.tag = get.tag
  /\ f.size < Most(get, caller) \/ get.exact
  /\ get.exact => f.size = get.most
  /\ get.success => f.success
Takes(get, f, caller) ==
  /\ f.tag = get.tag
  /\ f.size <= Most(get, caller)
  /\ get.exact => f.size = get.most
  /\ get.success => f.success

(* One tlvGet: a field of the right tag that does not fit leaves the reader   *)
(* behind its header, where no further field begins.                          *)
Reader == [gets |-> 0, at |-> 1, ok |-> TRUE, lost |-> FALSE, got |-> <<>>]

TakeField(s, get, fields, caller) ==
  LET there == ~s.lost /\ s.at <= Len(fields) /\ fields[s.at].tag = get.tag
  IN  IF there /\ Takes(get, fields[s.at], caller)
      THEN [s EXCEPT !.gets = @ + 1, !.at = @ + 1, !.got = Append(@, fields[s.at])]
      ELSE [s EXCEPT !.gets = @ + 1, !.ok = get.optional, !.lost = @ \/ there]

\* Mutant: what is left of the answer is not looked at.
ReadWhole_Leaves(s, fields) == s.ok
(* The status word is taken for the result only behind the last field. *)
ReadWhole(s, fields) == s.ok /\ ~s.lost /\ s.at = Len(fields) + 1

=============================================================================
