--------------------------- MODULE Commands_proofs ---------------------------
(***************************************************************************)
(* Theorems about Commands, for every table of commands, all arguments,    *)
(* buffers and answers: what a call that says OK has read, that it says so *)
(* of every answer as promised, that a session is closed on both sides or  *)
(* on neither, and that the SE understands of every command what the call  *)
(* was given.  The last of these takes most of the module: it follows a    *)
(* command from its fields through framing, session and secure messaging,  *)
(* and back.                                                               *)
(***************************************************************************)
EXTENDS Commands, FiniteSetTheorems, SequenceTheorems, WellFoundedInduction, TLAPS

-----------------------------------------------------------------------------
(* The inductive invariant.                                                *)

FieldType == [tag : Nat, size : Nat, success : BOOLEAN]

Typed ==
    /\ session \in BOOLEAN /\ seSession \in BOOLEAN
    /\ call # NoCall => call.c \in Table /\ call.given \in Givens(call.c)
    /\ answer \in [fields : Seq(FieldType), sw : {"none", "OK", "error", "lost"}]
    /\ result \in {"none", "OK", "NOT_OK", "error"}
    /\ reader \in [gets : Nat, at : Nat, ok : BOOLEAN, lost : BOOLEAN, got : Seq(FieldType)]

\* Nothing is sent between calls, and nothing is read before there is an answer.
InOrder ==
    /\ call = NoCall => sent = <<>> /\ answer = NoAnswer /\ result = "none"
    /\ answer.sw = "none" => /\ answer = NoAnswer /\ reader = Reader
                             /\ result \in {"none", "NOT_OK"}

\* The SE closes the session before the middleware does.
SeFirst ==
    /\ ~session => ~seSession
    /\ call # NoCall /\ answer.sw \in {"OK", "lost"} /\ call.c.session => ~seSession

Found(i, j) == reader.got[j].tag = call.c.gets[i].tag

\* What has been read is the beginning of the answer, each field into a buffer it
\* fits, and every field looked for so far that must be there is among it.
ReadSoFar ==
    call # NoCall =>
      /\ reader.gets <= Len(call.c.gets)
      /\ reader.at = Len(reader.got) + 1
      /\ Len(reader.got) <= Len(answer.fields)
      /\ \A j \in DOMAIN reader.got :
           /\ reader.got[j] = answer.fields[j]
           /\ \E i \in Looked : Found(i, j) /\ reader.got[j].size <= Most(call.c.gets[i], CallerBuffer)
      /\ reader.ok => \A i \in Looked : i <= reader.gets =>
           \/ call.c.gets[i].optional
           \/ \E j \in DOMAIN reader.got :
                Found(i, j) /\ (call.c.gets[i].success => reader.got[j].success)

\* An answer as the SE's manual promises it, which fits the caller's buffers.
GoodAnswer ==
    /\ answer.fields \in Expected
    /\ \A i \in Looked : answer.fields[Place(i)].size <= Most(call.c.gets[i], CallerBuffer)

LookedUpTo(n) == {j \in Looked : j <= n}

\* Reading such an answer goes on, and never falls behind.
GoodSoFar ==
    call # NoCall /\ WantsFields /\ answer.sw = "OK" /\ GoodAnswer =>
      /\ reader.ok /\ ~reader.lost
      /\ reader.at = Cardinality(LookedUpTo(reader.gets)) + 1

Returned == result # "none" /\ answer.sw # "none" => ~ToRead /\ result = StatusOf

IInv == Typed /\ InOrder /\ SeFirst /\ ReadSoFar /\ GoodSoFar /\ Returned

-----------------------------------------------------------------------------
(* The fields a call looks for.                                            *)

GetType == [tag : Nat, most : Nat \cup {Caller}, exact : BOOLEAN,
            optional : BOOLEAN, success : BOOLEAN, needs : Nat]

LEMMA GetsTyped ==
    ASSUME Typed, call # NoCall
    PROVE  /\ call.c.gets \in Seq(GetType)
           /\ \A i \in DOMAIN call.c.gets :
                /\ call.c.gets[i] \in GetType
                /\ call.c.gets[i].exact => call.c.gets[i].most # Caller
                /\ call.c.gets[i].success => ~call.c.gets[i].optional
           /\ Looked \subseteq 1..Len(call.c.gets) /\ IsFiniteSet(Looked)
<1>1. call.c.gets \in Seq(GetType)
  BY TableAssumption DEF Typed, GetType
<1>2. Looked \subseteq 1..Len(call.c.gets)
  BY <1>1 DEF Looked
<1>3. IsFiniteSet(Looked)
  <2>1. Len(call.c.gets) \in Nat
    BY <1>1
  <2>2. IsFiniteSet(1..Len(call.c.gets))
    BY <2>1, FS_Interval
  <2> QED BY <1>2, <2>2, FS_Subset
<1> QED BY <1>1, <1>2, <1>3, TableAssumption DEF Typed

\* The fields looked for have the places from the first to the last, each its own.
LEMMA PlacesAreOwn ==
    ASSUME Typed, call # NoCall
    PROVE  /\ Cardinality(Looked) \in Nat
           /\ \A i \in Looked : Place(i) \in 1..Cardinality(Looked)
           /\ \A i, j \in Looked : Place(i) = Place(j) => i = j
           /\ \A n \in Nat : /\ Cardinality(LookedUpTo(n)) \in Nat
                             /\ n + 1 \in Looked => Place(n + 1) = Cardinality(LookedUpTo(n)) + 1
                             /\ n + 1 \in Looked => LookedUpTo(n + 1) = LookedUpTo(n) \cup {n + 1}
                             /\ n + 1 \notin Looked => LookedUpTo(n + 1) = LookedUpTo(n)
<1>1. IsFiniteSet(Looked) /\ Looked \subseteq Nat /\ Looked \subseteq Int
  BY GetsTyped
<1>2. ASSUME NEW n \in Int
      PROVE  /\ IsFiniteSet(LookedUpTo(n)) /\ Cardinality(LookedUpTo(n)) \in Nat
             /\ Cardinality(LookedUpTo(n)) <= Cardinality(Looked)
  <2>1. LookedUpTo(n) \subseteq Looked
    BY DEF LookedUpTo
  <2> QED BY <1>1, <2>1, FS_Subset, FS_CardinalityType
<1>3. ASSUME NEW i \in Looked
      PROVE  Place(i) = Cardinality(LookedUpTo(i - 1)) + 1
  <2>1. LookedUpTo(i) = LookedUpTo(i - 1) \cup {i} /\ i \notin LookedUpTo(i - 1)
    <3>1. /\ ~(i <= i - 1)
          /\ \A k \in Looked : k <= i <=> k <= i - 1 \/ k = i
      BY <1>1
    <3> QED BY <3>1, Zenon DEF LookedUpTo
  <2>2. Place(i) = Cardinality(LookedUpTo(i))
    BY DEF Place, LookedUpTo
  <2>3. IsFiniteSet(LookedUpTo(i - 1))
    BY <1>1, <1>2
  <2> QED BY <2>1, <2>2, <2>3, FS_AddElement
<1>4. ASSUME NEW i \in Looked, NEW j \in Looked, i < j PROVE Place(i) < Place(j)
  <2>1. LookedUpTo(i) \subseteq LookedUpTo(j - 1)
    <3>1. \A k \in Looked : k <= i => k <= j - 1
      BY <1>1, <1>4
    <3> QED BY <3>1, Zenon DEF LookedUpTo
  <2>2. Cardinality(LookedUpTo(i)) <= Cardinality(LookedUpTo(j - 1))
    BY <1>1, <1>2, <2>1, FS_Subset
  <2>3. Place(i) = Cardinality(LookedUpTo(i))
    BY DEF Place, LookedUpTo
  <2> QED BY <1>1, <1>2, <1>3, <2>2, <2>3
<1>5. ASSUME NEW i \in Looked PROVE Place(i) \in 1..Cardinality(Looked)
  <2>1. Place(i) = Cardinality(LookedUpTo(i))
    BY DEF Place, LookedUpTo
  <2> QED BY <1>1, <1>2, <1>3, <2>1, FS_CardinalityType
<1>6. ASSUME NEW i \in Looked, NEW j \in Looked, Place(i) = Place(j) PROVE i = j
  <2>1. i \in Nat /\ j \in Nat /\ Place(i) \in Nat
    BY <1>1, <1>5
  <2>2. ~(i < j) /\ ~(j < i)
    BY <1>4, <1>6, <2>1
  <2> QED BY <2>1, <2>2
<1>7. ASSUME NEW n \in Nat
      PROVE  /\ Cardinality(LookedUpTo(n)) \in Nat
             /\ n + 1 \in Looked => Place(n + 1) = Cardinality(LookedUpTo(n)) + 1
             /\ n + 1 \in Looked => LookedUpTo(n + 1) = LookedUpTo(n) \cup {n + 1}
             /\ n + 1 \notin Looked => LookedUpTo(n + 1) = LookedUpTo(n)
  <2>1. n + 1 \in Looked => Place(n + 1) = Cardinality(LookedUpTo(n)) + 1
    <3>1. (n + 1) - 1 = n
      OBVIOUS
    <3> QED BY <1>3, <3>1
  <2>2. \A j \in Looked : j <= n + 1 <=> j <= n \/ j = n + 1
    BY <1>1
  <2>3. /\ n + 1 \in Looked => LookedUpTo(n + 1) = LookedUpTo(n) \cup {n + 1}
        /\ n + 1 \notin Looked => LookedUpTo(n + 1) = LookedUpTo(n)
    BY <2>2, Zenon DEF LookedUpTo
  <2> QED BY <1>2, <2>1, <2>3
<1> QED BY <1>1, <1>5, <1>6, <1>7, FS_CardinalityType

LEMMA WholeIs ==
    ASSUME Typed, call # NoCall, NEW n \in Nat
    PROVE  /\ Whole(n) \in Seq(FieldType) /\ Len(Whole(n)) = Cardinality(Looked)
           /\ \A i \in Looked : Whole(n)[Place(i)] = FieldOf(call.c.gets[i], n)
<1> DEFINE Getter(k) == CHOOSE i \in Looked : Place(i) = k
<1>1. Cardinality(Looked) \in Nat
  BY PlacesAreOwn
<1>2. Whole(n) = [k \in 1..Cardinality(Looked) |-> FieldOf(call.c.gets[Getter(k)], n)]
  BY DEF Whole
<1>3. ASSUME NEW i \in Looked PROVE Whole(n)[Place(i)] = FieldOf(call.c.gets[i], n)
  <2>1. Getter(Place(i)) = i
    BY PlacesAreOwn
  <2>2. Place(i) \in 1..Cardinality(Looked)
    BY PlacesAreOwn
  <2> HIDE DEF Getter
  <2> QED BY <1>2, <2>1, <2>2
<1>4. ASSUME NEW get \in GetType PROVE FieldOf(get, n) \in FieldType
  BY <1>4 DEF FieldOf, FieldType, GetType, Caller
<1>5. ASSUME NEW k \in 1..Cardinality(Looked) PROVE \E i \in Looked : Place(i) = k
  <2> DEFINE f == [i \in Looked |-> Place(i)]
             Places == 1..Cardinality(Looked)
  <2>1. IsFiniteSet(Looked)
    BY GetsTyped
  <2>2. IsFiniteSet(Places) /\ Cardinality(Places) = Cardinality(Looked)
    BY <1>1, FS_Interval
  <2>3. f \in Injection(Looked, Places)
    BY PlacesAreOwn DEF Injection, IsInjective
  <2>4. f \in Surjection(Looked, Places)
    BY <2>1, <2>2, <2>3, FS_Injection
  <2> QED BY <2>4 DEF Surjection
<1>6. ASSUME NEW k \in 1..Cardinality(Looked) PROVE Whole(n)[k] \in FieldType
  <2>1. PICK i \in Looked : Place(i) = k
    BY <1>5
  <2>2. call.c.gets[i] \in GetType
    BY GetsTyped
  <2> QED BY <1>3, <1>4, <2>1, <2>2
<1> HIDE DEF Getter
<1>7. Whole(n) \in [1..Cardinality(Looked) -> FieldType]
  BY <1>2, <1>6
<1> QED BY <1>1, <1>3, <1>7

LEMMA AnswersTyped ==
    ASSUME Typed, call # NoCall, NEW fields \in Expected \cup Unexpected
    PROVE  fields \in Seq(FieldType)
<1>1. ASSUME NEW f \in Expected
      PROVE  f \in Seq(FieldType) /\ (WantsFields => Len(f) = Cardinality(Looked))
  <2>1. \A n \in AnswerSizes(call.given) : n \in Nat
    BY CommandsAssumption DEF Typed
  <2>2. CASE WantsFields
    <3>1. PICK n \in AnswerSizes(call.given) : f = Whole(n)
      BY <2>2 DEF Expected
    <3> QED BY <2>1, <3>1, WholeIs
  <2>3. CASE ~WantsFields
    <3>1. f = << >>
      BY <2>3 DEF Expected
    <3> QED BY <2>3, <3>1
  <2> QED BY <2>2, <2>3
<1>2. CASE fields \in Expected
  BY <1>1, <1>2
<1>3. CASE fields \in {Append(f, ExtraField) : f \in Expected}
  <2>1. PICK f \in Expected : fields = Append(f, ExtraField)
    BY <1>3
  <2>2. ExtraField \in FieldType
    BY DEF ExtraField, FieldType, TAG_TIMESTAMP
  <2> QED BY <1>1, <2>1, <2>2
<1>4. ASSUME NEW f \in Expected, Looked # {}, WantsFields
      PROVE  /\ Front(f) \in Seq(FieldType) /\ Tail(f) \in Seq(FieldType)
             /\ \A i \in 1..Cardinality(Looked) : [f EXCEPT ![i].success = FALSE] \in Seq(FieldType)
  <2>1. f \in Seq(FieldType) /\ Len(f) = Cardinality(Looked) /\ Cardinality(Looked) \in Nat
    BY <1>1, <1>4, PlacesAreOwn
  <2>2. f # << >>
    BY <1>4, <2>1, GetsTyped, FS_EmptySet
  <2>3. Front(f) \in Seq(FieldType) /\ Tail(f) \in Seq(FieldType)
    BY <2>1, <2>2, HeadTailProperties DEF Front
  <2>4. ASSUME NEW i \in 1..Cardinality(Looked) PROVE [f EXCEPT ![i].success = FALSE] \in Seq(FieldType)
    <3>1. f[i] \in FieldType /\ f \in [1..Len(f) -> FieldType]
      BY <2>1
    <3>2. [f[i] EXCEPT !.success = FALSE] \in FieldType
      BY <3>1 DEF FieldType
    <3>3. [f EXCEPT ![i] = [f[i] EXCEPT !.success = FALSE]] \in [1..Len(f) -> FieldType]
      BY <3>1, <3>2
    <3> QED BY <2>1, <3>3
  <2> QED BY <2>3, <2>4
<1>5. CASE fields \in Unexpected
  <2> DEFINE Longer  == {Append(f, ExtraField) : f \in Expected}
             Shorter == {Front(f) : f \in Expected} \cup {Tail(f) : f \in Expected}
             Failing == {[f EXCEPT ![i].success = FALSE] : f \in Expected, i \in 1..Cardinality(Looked)}
  <2>1. Unexpected = Longer \cup (IF WantsFields /\ Looked # {} THEN Shorter \cup Failing ELSE {})
    BY DEF Unexpected
  <2>2. CASE fields \in Longer
    BY <1>3, <2>2
  <2>3. CASE WantsFields /\ Looked # {} /\ fields \in Shorter
    BY <1>4, <2>3
  <2>4. CASE WantsFields /\ Looked # {} /\ fields \in Failing
    BY <1>4, <2>4
  <2> HIDE DEF Longer, Shorter, Failing
  <2> QED BY <1>5, <2>1, <2>2, <2>3, <2>4
<1> QED BY <1>2, <1>5

-----------------------------------------------------------------------------
(* The steps.                                                              *)

LEMMA InitHolds == Init => IInv
<1> SUFFICES ASSUME Init PROVE IInv
  OBVIOUS
<1> USE DEF Init, Reader, NoAnswer
<1>1. Typed
  BY DEF Typed
<1>2. InOrder /\ Returned
  BY DEF InOrder, Returned
<1>3. SeFirst /\ ReadSoFar /\ GoodSoFar
  BY DEF SeFirst, ReadSoFar, GoodSoFar
<1> QED BY <1>1, <1>2, <1>3 DEF IInv

LEMMA CallStep == ASSUME IInv, NEW c \in Table, NEW given \in Givens(c), Call(c, given) PROVE IInv'
<1>1. /\ call = NoCall /\ answer = NoAnswer /\ reader = Reader /\ answer.sw = "none"
      /\ UNCHANGED <<session, answer, reader, seSession>>
      /\ call' = [c |-> c, given |-> given] /\ result' \in {"none", "NOT_OK"}
  BY DEF IInv, Call, InOrder, NoAnswer
<1>2. call' # NoCall /\ call'.c = c /\ call'.given = given
  BY <1>1 DEF NoCall
<1>3. Typed'
  BY <1>1, <1>2 DEF IInv, Typed
<1>4. InOrder' /\ Returned' /\ SeFirst'
  BY <1>1, <1>2 DEF IInv, InOrder, Returned, SeFirst
<1>5. ReadSoFar'
  <2>1. call'.c.gets \in Seq(GetType)
    BY <1>2, TableAssumption DEF GetType
  <2>2. /\ reader'.gets = 0 /\ reader'.at = 1 /\ reader'.got = << >>
        /\ answer'.fields = << >>
    BY <1>1 DEF Reader, NoAnswer
  <2>3. \A i \in Looked' : ~(i <= 0)
    BY <2>1 DEF Looked
  <2> QED BY <2>1, <2>2, <2>3 DEF ReadSoFar
<1>6. GoodSoFar'
  BY <1>1 DEF GoodSoFar
<1> QED BY <1>3, <1>4, <1>5, <1>6 DEF IInv

\* A step that leaves the call and its answer's fields: only the rest can change.
LEMMA SameCall ==
    ASSUME UNCHANGED call
    PROVE  /\ Looked' = Looked /\ WantsFields' = WantsFields /\ Expected' = Expected
           /\ \A i : Place(i)' = Place(i)
           /\ \A n : LookedUpTo(n)' = LookedUpTo(n)
BY DEF Looked, Looks, WantsFields, Expected, Whole, Place, LookedUpTo, FieldOf

LEMMA SeAnswersStep == ASSUME IInv, SeAnswers PROVE IInv'
<1>1. /\ call # NoCall /\ answer.sw = "none" /\ reader = Reader /\ result = "none"
      /\ UNCHANGED <<session, scp, call, sent, result, reader>>
      /\ seSession' = (seSession /\ ~(call.c.session /\ answer'.sw # "error"))
  BY DEF IInv, InOrder, SeAnswers, NoAnswer
<1>2. answer' \in [fields : Seq(FieldType), sw : {"OK", "error", "lost"}]
  <2>1. \A fields \in Expected \cup Unexpected : fields \in Seq(FieldType)
    BY <1>1, AnswersTyped DEF IInv
  <2>2. ASSUME NEW fields \in Seq(FieldType), NEW sw \in {"OK", "error", "lost"},
               answer' = [fields |-> fields, sw |-> sw]
        PROVE  answer' \in [fields : Seq(FieldType), sw : {"OK", "error", "lost"}]
    BY <2>2
  <2>3. << >> \in Seq(FieldType)
    OBVIOUS
  <2>4. \/ \E fields \in Expected \cup Unexpected : answer' = [fields |-> fields, sw |-> "OK"]
        \/ answer' = [fields |-> << >>, sw |-> "error"]
        \/ answer' = [fields |-> << >>, sw |-> "lost"]
    BY DEF SeAnswers
  <2> QED BY <2>1, <2>2, <2>3, <2>4, Zenon
<1>3. Typed'
  BY <1>1, <1>2 DEF IInv, Typed
<1>4. InOrder' /\ Returned'
  BY <1>1, <1>2 DEF IInv, InOrder, Returned
<1>5. SeFirst'
  BY <1>1, <1>2 DEF IInv, SeFirst, Typed
<1>6. ReadSoFar'
  <2>1. call.c.gets \in Seq(GetType) /\ \A i \in Looked : ~(i <= 0)
    BY <1>1, GetsTyped DEF IInv
  <2>2. /\ reader'.gets = 0 /\ reader'.at = 1 /\ reader'.got = << >>
        /\ Len(answer'.fields) \in Nat /\ Looked' = Looked
    BY <1>1, <1>2, SameCall DEF Reader
  <2> QED BY <1>1, <2>1, <2>2 DEF ReadSoFar
<1>7. GoodSoFar'
  <2>1. LookedUpTo(0)' = {}
    <3>1. \A i \in Looked : ~(i <= 0)
      BY <1>1, GetsTyped DEF IInv
    <3> QED BY <1>1, <3>1, SameCall DEF LookedUpTo
  <2>2. reader'.gets = 0 /\ reader'.at = 1 /\ reader'.ok /\ ~reader'.lost
    BY <1>1 DEF Reader
  <2>3. Cardinality(LookedUpTo(reader.gets))' = 0
    BY <2>1, <2>2, FS_EmptySet
  <2> QED BY <2>2, <2>3 DEF GoodSoFar
<1> QED BY <1>3, <1>4, <1>5, <1>6, <1>7 DEF IInv

\* Whether a get finds its field where the reader is, and can take it.
Finds(get) ==
    /\ ~reader.lost /\ reader.at <= Len(answer.fields)
    /\ answer.fields[reader.at].tag = get.tag
    /\ Takes(get, answer.fields[reader.at], CallerBuffer)

\* It reads on only if it does.
LEMMA TakeFieldIs ==
    ASSUME Typed, call # NoCall, NEW get \in GetType
    PROVE  LET after == TakeField(reader, get, answer.fields, CallerBuffer)
           IN  /\ after.gets = reader.gets + 1
               /\ Finds(get) =>
                    /\ after.at = reader.at + 1 /\ after.got = Append(reader.got, answer.fields[reader.at])
                    /\ after.ok = reader.ok /\ after.lost = reader.lost
               /\ ~Finds(get) =>
                    after.at = reader.at /\ after.got = reader.got /\ after.ok = get.optional
BY DEF TakeField, Typed, Finds

LEMMA TakeFieldTyped ==
    ASSUME Typed, call # NoCall, reader.at # 0, NEW get \in GetType
    PROVE  TakeField(reader, get, answer.fields, CallerBuffer) \in
             [gets : Nat, at : Nat, ok : BOOLEAN, lost : BOOLEAN, got : Seq(FieldType)]
<1> DEFINE there == ~reader.lost /\ reader.at <= Len(answer.fields)
                    /\ answer.fields[reader.at].tag = get.tag
           T == [gets : Nat, at : Nat, ok : BOOLEAN, lost : BOOLEAN, got : Seq(FieldType)]
<1>1. reader \in T /\ answer.fields \in Seq(FieldType)
  BY DEF Typed
<1>0. reader.gets + 1 \in Nat /\ reader.at + 1 \in Nat
  BY <1>1
<1>2. ASSUME NEW g \in Seq(FieldType)
      PROVE  [reader EXCEPT !.gets = @ + 1, !.at = @ + 1, !.got = g] \in T
  BY <1>1, <1>2, <1>0
<1>3. ASSUME NEW o \in BOOLEAN, NEW l \in BOOLEAN
      PROVE  [reader EXCEPT !.gets = @ + 1, !.ok = o, !.lost = l] \in T
  BY <1>1, <1>3, <1>0
<1>4. CASE there /\ Takes(get, answer.fields[reader.at], CallerBuffer)
  <2>1. reader.at \in 1..Len(answer.fields)
    BY <1>1, <1>4
  <2>2. answer.fields[reader.at] \in FieldType
    BY <1>1, <2>1
  <2>3. Append(reader.got, answer.fields[reader.at]) \in Seq(FieldType)
    BY <1>1, <2>2
  <2>4. TakeField(reader, get, answer.fields, CallerBuffer)
          = [reader EXCEPT !.gets = @ + 1, !.at = @ + 1, !.got = Append(reader.got, answer.fields[reader.at])]
    BY <1>1, <1>4, Zenon DEF TakeField
  <2> QED BY <1>2, <2>3, <2>4
<1>5. CASE ~(there /\ Takes(get, answer.fields[reader.at], CallerBuffer))
  <2>1. get.optional \in BOOLEAN /\ (reader.lost \/ there) \in BOOLEAN
    BY DEF GetType
  <2>2. TakeField(reader, get, answer.fields, CallerBuffer)
          = [reader EXCEPT !.gets = @ + 1, !.ok = get.optional, !.lost = (reader.lost \/ there)]
    BY <1>1, <1>5, Zenon DEF TakeField
  <2> QED BY <1>3, <2>1, <2>2
<1> QED BY <1>4, <1>5

LEMMA TlvGetStep == ASSUME IInv, TlvGet PROVE IInv'
<1> DEFINE get == call.c.gets[reader.gets + 1]
           found == Finds(get)
           i == reader.gets + 1
<1>1. /\ answer.sw = "OK" /\ WantsFields /\ reader.ok /\ reader.gets < Len(call.c.gets)
      /\ result = "none" /\ call # NoCall
      /\ UNCHANGED <<session, scp, call, sent, answer, result, seSession>>
      /\ reader' = IF Looks(get) THEN TakeField(reader, get, answer.fields, CallerBuffer)
                   ELSE [reader EXCEPT !.gets = @ + 1]
  BY DEF IInv, InOrder, TlvGet, ToRead, NoAnswer
<1>2. /\ reader \in [gets : Nat, at : Nat, ok : BOOLEAN, lost : BOOLEAN, got : Seq(FieldType)]
      /\ answer.fields \in Seq(FieldType) /\ call.c.gets \in Seq(GetType) /\ Len(call.c.gets) \in Nat
  BY <1>1, GetsTyped DEF IInv, Typed
<1>3. i \in 1..Len(call.c.gets) /\ get \in GetType /\ (Looks(get) <=> i \in Looked)
  BY <1>1, <1>2 DEF Looked
<1>4. /\ Looked' = Looked /\ WantsFields' = WantsFields /\ Expected' = Expected
      /\ \A k : Place(k)' = Place(k)
  BY <1>1, SameCall
<1>5. reader.at = Len(reader.got) + 1 /\ Len(reader.got) <= Len(answer.fields) /\ Len(reader.got) \in Nat
  BY <1>1, <1>2 DEF IInv, ReadSoFar
<1> HIDE DEF get, i
<1>6. /\ reader'.gets = i /\ reader' \in [gets : Nat, at : Nat, ok : BOOLEAN, lost : BOOLEAN, got : Seq(FieldType)]
      /\ i \notin Looked => /\ reader'.ok /\ reader'.lost = reader.lost
                            /\ reader'.at = reader.at /\ reader'.got = reader.got
      /\ i \in Looked /\ found =>
           /\ reader'.ok /\ reader'.lost = reader.lost /\ reader'.at = reader.at + 1
           /\ reader'.got = Append(reader.got, answer.fields[reader.at])
      /\ i \in Looked /\ ~found =>
           reader'.ok = get.optional /\ reader'.at = reader.at /\ reader'.got = reader.got
  <2>1. CASE i \notin Looked
    BY <1>1, <1>2, <1>3, <2>1 DEF i
  <2>2. CASE i \in Looked
    <3>1. Typed /\ reader' = TakeField(reader, get, answer.fields, CallerBuffer)
      BY <1>1, <1>3, <2>2 DEF IInv
    <3>2. reader'.gets = i
      BY <1>1, <1>3, <3>1, TakeFieldIs DEF i
    <3>3. reader' \in [gets : Nat, at : Nat, ok : BOOLEAN, lost : BOOLEAN, got : Seq(FieldType)]
      <4>1. reader.at # 0
        BY <1>5
      <4> QED BY <1>1, <1>3, <3>1, <4>1, TakeFieldTyped
    <3>4. CASE found
      <4>1. /\ reader'.ok = reader.ok /\ reader'.lost = reader.lost /\ reader'.at = reader.at + 1
            /\ reader'.got = Append(reader.got, answer.fields[reader.at])
        BY <1>1, <1>3, <3>1, <3>4, TakeFieldIs
      <4> QED BY <1>1, <2>2, <3>2, <3>3, <3>4, <4>1
    <3>5. CASE ~found
      <4>1. reader'.ok = get.optional /\ reader'.at = reader.at /\ reader'.got = reader.got
        BY <1>1, <1>3, <3>1, <3>5, TakeFieldIs
      <4> QED BY <2>2, <3>2, <3>3, <3>5, <4>1
    <3> QED BY <3>4, <3>5
  <2> QED BY <2>1, <2>2
<1>7. Typed'
  BY <1>1, <1>6 DEF IInv, Typed
<1>8. InOrder' /\ SeFirst' /\ Returned'
  BY <1>1 DEF IInv, InOrder, SeFirst, Returned
<1>9. ReadSoFar'
  <2>1. reader'.gets <= Len(call.c.gets)
    BY <1>3, <1>6
  <2>2. /\ reader'.at = Len(reader'.got) + 1 /\ Len(reader'.got) <= Len(answer.fields)
        /\ DOMAIN reader.got \subseteq DOMAIN reader'.got
        /\ \A j \in DOMAIN reader.got : reader'.got[j] = reader.got[j]
        /\ \A j \in DOMAIN reader'.got \ DOMAIN reader.got :
             i \in Looked /\ found /\ j = reader.at /\ reader'.got[j] = answer.fields[j]
    <3>1. CASE i \in Looked /\ found
      <4>1. reader.at \in 1..Len(answer.fields) /\ reader.at = Len(reader.got) + 1
        BY <1>2, <1>5, <3>1 DEF Finds
      <4>2. answer.fields[reader.at] \in FieldType
        BY <1>2, <4>1
      <4>3. /\ reader'.got = Append(reader.got, answer.fields[reader.at])
            /\ reader'.at = reader.at + 1
        BY <1>6, <3>1
      <4>4. /\ Len(reader'.got) = Len(reader.got) + 1
            /\ \A j \in 1..Len(reader.got) : reader'.got[j] = reader.got[j]
            /\ reader'.got[Len(reader.got) + 1] = answer.fields[reader.at]
        BY <1>2, <4>2, <4>3, AppendProperties
      <4>5. DOMAIN reader.got = 1..Len(reader.got) /\ DOMAIN reader'.got = 1..(Len(reader.got) + 1)
        BY <1>2, <1>6, <4>4
      <4> HIDE DEF found
      <4> QED BY <1>5, <3>1, <4>1, <4>3, <4>4, <4>5
    <3>2. CASE ~(i \in Looked /\ found)
      BY <1>5, <1>6, <3>2
    <3> QED BY <3>1, <3>2
  <2>3. ASSUME NEW j \in DOMAIN reader'.got
        PROVE  /\ reader'.got[j] = answer.fields[j]
               /\ \E k \in Looked : /\ reader'.got[j].tag = call.c.gets[k].tag
                                    /\ reader'.got[j].size <= Most(call.c.gets[k], CallerBuffer)
    <3>1. CASE j \in DOMAIN reader.got
      BY <1>1, <2>2, <3>1 DEF IInv, ReadSoFar, Found
    <3>2. CASE j \notin DOMAIN reader.got
      <4>1. i \in Looked /\ found /\ j = reader.at /\ reader'.got[j] = answer.fields[j]
        BY <2>2, <2>3, <3>2
      <4>2. reader'.got[j].tag = get.tag /\ reader'.got[j].size <= Most(get, CallerBuffer)
        BY <4>1 DEF Finds, Takes
      <4> QED BY <4>1, <4>2 DEF get, i
    <3> QED BY <3>1, <3>2
  <2>4. ASSUME reader'.ok, NEW k \in Looked, k <= i
        PROVE  \/ call.c.gets[k].optional
               \/ \E j \in DOMAIN reader'.got :
                    /\ reader'.got[j].tag = call.c.gets[k].tag
                    /\ call.c.gets[k].success => reader'.got[j].success
    <3>1. CASE k # i
      <4>1. k <= reader.gets
        BY <1>1, <1>2, <2>4, <3>1, GetsTyped DEF i, IInv
      <4>2. \/ call.c.gets[k].optional
            \/ \E j \in DOMAIN reader.got :
                 Found(k, j) /\ (call.c.gets[k].success => reader.got[j].success)
        BY <1>1, <4>1 DEF IInv, ReadSoFar
      <4> QED BY <2>2, <4>2 DEF Found
    <3>2. CASE k = i /\ found
      <4>1. reader.at \in DOMAIN reader'.got /\ reader'.got[reader.at] = answer.fields[reader.at]
        <5>1. reader'.at = Len(reader'.got) + 1 /\ reader'.at = reader.at + 1
          BY <1>6, <2>2, <3>2
        <5>2. reader.at \in DOMAIN reader'.got
          BY <1>2, <1>5, <1>6, <5>1
        <5> QED BY <2>3, <5>2
      <4>2. answer.fields[reader.at].tag = get.tag /\ (get.success => answer.fields[reader.at].success)
        BY <3>2 DEF Finds, Takes
      <4> QED BY <3>2, <4>1, <4>2 DEF get, i
    <3>3. CASE k = i /\ ~found
      BY <1>6, <2>4, <3>3 DEF get, i
    <3> QED BY <3>1, <3>2, <3>3
  <2>5. reader'.gets = i
    BY <1>6
  <2> QED BY <1>1, <1>4, <2>1, <2>2, <2>3, <2>4, <2>5 DEF ReadSoFar, Found
<1>10. GoodSoFar'
  <2>1. SUFFICES ASSUME GoodAnswer
                 PROVE  /\ reader'.ok /\ ~reader'.lost
                        /\ reader'.at = Cardinality(LookedUpTo(i)) + 1
    <3>1. GoodAnswer' = GoodAnswer
      BY <1>1, <1>4 DEF GoodAnswer
    <3>2. LookedUpTo(reader.gets)' = LookedUpTo(i)
      BY <1>4, <1>6 DEF LookedUpTo
    <3> QED BY <1>1, <3>1, <3>2, <2>1 DEF GoodSoFar
  <2>2. ~reader.lost /\ reader.at = Cardinality(LookedUpTo(reader.gets)) + 1
    BY <1>1, <2>1 DEF IInv, GoodSoFar
  <2>3. CASE i \notin Looked
    <3>1. LookedUpTo(i) = LookedUpTo(reader.gets)
      BY <1>1, <1>2, <2>3, PlacesAreOwn DEF i, IInv
    <3> QED BY <1>6, <2>2, <2>3, <3>1
  <2>4. CASE i \in Looked
    <3>1. /\ Place(i) = reader.at /\ Place(i) = Cardinality(LookedUpTo(i))
          /\ Place(i) \in 1..Cardinality(Looked)
      <4>1. Place(i) = reader.at
        BY <1>1, <1>2, <2>2, <2>4, PlacesAreOwn DEF i, IInv
      <4>2. Place(i) = Cardinality(LookedUpTo(i))
        BY DEF Place, LookedUpTo
      <4> QED BY <1>1, <2>4, <4>1, <4>2, PlacesAreOwn DEF IInv
    <3>2. PICK n \in AnswerSizes(call.given) : answer.fields = Whole(n)
      BY <1>1, <2>1 DEF GoodAnswer, Expected
    <3>3. n \in Nat
      BY <1>1, CommandsAssumption DEF IInv, Typed
    <3>4. answer.fields[reader.at] = FieldOf(get, n) /\ reader.at <= Len(answer.fields)
      BY <1>1, <2>4, <3>1, <3>2, <3>3, WholeIs, PlacesAreOwn DEF IInv, get, i
    <3>5. answer.fields[reader.at].size <= Most(get, CallerBuffer)
      BY <2>1, <2>4, <3>1 DEF GoodAnswer, get, i
    <3>6. get.exact => get.most # Caller
      BY <1>1, <1>3, GetsTyped DEF IInv, get, i
    <3>7. found
      BY <1>3, <2>2, <3>3, <3>4, <3>5, <3>6 DEF Finds, Takes, FieldOf, GetType, Caller
    <3> QED BY <1>2, <1>6, <2>2, <2>4, <3>1, <3>7
  <2> QED BY <2>3, <2>4
<1> QED BY <1>7, <1>8, <1>9, <1>10 DEF IInv

LEMMA ReturnStep == ASSUME IInv, Return PROVE IInv'
<1>1. /\ answer.sw \in {"OK", "error", "lost"} /\ result = "none" /\ ~ToRead /\ result' = StatusOf
      /\ session' = (session /\ ~(call.c.session /\ result' = "OK")) /\ call # NoCall
      /\ UNCHANGED <<scp, call, sent, answer, reader, seSession>>
  BY DEF IInv, Typed, InOrder, Return, NoAnswer
<1>2. /\ Looked' = Looked /\ WantsFields' = WantsFields /\ Expected' = Expected
      /\ \A k : Place(k)' = Place(k)
      /\ \A n : LookedUpTo(n)' = LookedUpTo(n)
  BY <1>1, SameCall
<1>3. /\ result' \in {"OK", "NOT_OK", "error"}
      /\ result' = "OK" => answer.sw = "OK"
  BY <1>1 DEF StatusOf
<1>4. Typed'
  BY <1>1, <1>3 DEF IInv, Typed
<1>5. InOrder' /\ SeFirst'
  BY <1>1, <1>3 DEF IInv, InOrder, SeFirst, Typed
<1>6. ReadSoFar'
  BY <1>1, <1>2 DEF IInv, ReadSoFar, Found
<1>7. GoodSoFar'
  BY <1>1, <1>2 DEF IInv, GoodSoFar, GoodAnswer
<1>8. Returned'
  <2>1. ToRead' = ToRead /\ StatusOf' = StatusOf
    BY <1>1, <1>2 DEF ToRead, StatusOf
  <2> QED BY <1>1, <2>1 DEF Returned
<1> QED BY <1>4, <1>5, <1>6, <1>7, <1>8 DEF IInv

LEMMA DoneStep == ASSUME IInv, Done PROVE IInv'
<1> USE DEF Done
<1>1. Typed'
  BY DEF IInv, Typed, Reader, NoAnswer
<1>2. InOrder' /\ Returned'
  BY DEF InOrder, Returned
<1>3. SeFirst' /\ ReadSoFar' /\ GoodSoFar'
  BY DEF IInv, SeFirst, ReadSoFar, GoodSoFar
<1> QED BY <1>1, <1>2, <1>3 DEF IInv

LEMMA StutterStep == ASSUME IInv, UNCHANGED vars PROVE IInv'
<1>1. /\ Looked' = Looked /\ WantsFields' = WantsFields /\ Expected' = Expected
      /\ \A k : Place(k)' = Place(k)
      /\ \A n : LookedUpTo(n)' = LookedUpTo(n)
  BY SameCall DEF vars
<1>2. ToRead' = ToRead /\ StatusOf' = StatusOf
  BY <1>1 DEF vars, ToRead, StatusOf
<1>3. Typed' /\ InOrder' /\ SeFirst' /\ Returned'
  BY <1>2 DEF vars, IInv, Typed, InOrder, SeFirst, Returned
<1>4. ReadSoFar' /\ GoodSoFar'
  BY <1>1 DEF vars, IInv, ReadSoFar, GoodSoFar, GoodAnswer, Found
<1> QED BY <1>3, <1>4 DEF IInv

LEMMA Inductive == Spec => []IInv
<1>1. Init => IInv
  BY InitHolds
<1>2. IInv /\ [Next]_vars => IInv'
  BY CallStep, SeAnswersStep, TlvGetStep, ReturnStep, DoneStep, StutterStep DEF Next
<1> QED BY <1>1, <1>2, PTL DEF Spec

-----------------------------------------------------------------------------

\* A call of the API that says OK had the SE's OK, and gave its caller the whole answer: every
\* field that must be there, each within its buffer, nothing left unread, and the SE's checks
\* passed (the tlvGet_* of se05x_APDU_impl.h and what follows them).
THEOREM OkMeansWhole == Spec => []OkIsWhole
<1>1. IInv => OkIsWhole
  <2> SUFFICES ASSUME IInv, result = "OK" PROVE OkIsWhole
    BY DEF OkIsWhole
  <2>1. answer.sw = "OK" /\ call # NoCall /\ ~ToRead /\ StatusOf = "OK"
    BY DEF IInv, Typed, InOrder, Returned, StatusOf
  <2> SUFFICES ASSUME WantsFields
               PROVE  /\ reader.got = answer.fields
                      /\ \A j \in DOMAIN reader.got : \E i \in Looked :
                           Found(i, j) /\ reader.got[j].size <= Most(call.c.gets[i], CallerBuffer)
                      /\ \A i \in Looked : call.c.gets[i].optional \/ \E j \in DOMAIN reader.got : Found(i, j)
                      /\ \A i \in Looked : call.c.gets[i].success =>
                           \E j \in DOMAIN reader.got : Found(i, j) /\ reader.got[j].success
    BY <2>1 DEF OkIsWhole, Found
  <2>2. reader.ok /\ reader.at = Len(answer.fields) + 1
    BY <2>1 DEF StatusOf, ReadWhole
  <2>3. /\ reader.got \in Seq(FieldType) /\ answer.fields \in Seq(FieldType)
        /\ reader.gets \in Nat /\ call.c.gets \in Seq(GetType)
    BY <2>1, GetsTyped DEF IInv, Typed
  <2>4. reader.gets = Len(call.c.gets)
    BY <2>1, <2>2, <2>3 DEF IInv, ReadSoFar, ToRead
  <2>5. Len(reader.got) = Len(answer.fields)
    BY <2>1, <2>2, <2>3 DEF IInv, ReadSoFar
  <2>6. reader.got = answer.fields
    BY <2>1, <2>3, <2>5, SeqEqual DEF IInv, ReadSoFar
  <2>7. \A i \in Looked :
          /\ \/ call.c.gets[i].optional
             \/ \E j \in DOMAIN reader.got :
                  Found(i, j) /\ (call.c.gets[i].success => reader.got[j].success)
          /\ call.c.gets[i].success => ~call.c.gets[i].optional
    <3>1. \A i \in Looked : i <= reader.gets
      BY <2>1, <2>3, <2>4, GetsTyped DEF IInv
    <3> QED BY <2>1, <2>2, <3>1, GetsTyped DEF IInv, ReadSoFar
  <2> QED BY <2>1, <2>6, <2>7 DEF IInv, ReadSoFar
<1> QED BY <1>1, Inductive, PTL

\* An answer with every field the SE's manual promises, which fits the caller's buffers, is
\* taken for OK: no chain of tlvGet_* misses a field that is there.
THEOREM GoodAnswerIsTaken == Spec => []TakesGoodAnswer
<1>1. IInv => TakesGoodAnswer
  <2> SUFFICES ASSUME IInv, result # "none", answer.sw = "OK", answer.fields \in Expected,
                      WantsFields => \A i \in Looked :
                        answer.fields[Place(i)].size <= Most(call.c.gets[i], CallerBuffer)
               PROVE  result = "OK"
    BY DEF TakesGoodAnswer
  <2>1. call # NoCall /\ ~ToRead /\ result = StatusOf
    BY DEF IInv, InOrder, Returned
  <2>2. CASE ~WantsFields
    BY <2>1, <2>2 DEF StatusOf
  <2>3. CASE WantsFields
    <3>1. /\ reader.ok /\ ~reader.lost
          /\ reader.at = Cardinality(LookedUpTo(reader.gets)) + 1
      BY <2>1, <2>3 DEF IInv, GoodSoFar, GoodAnswer
    <3>2. reader.gets \in Nat /\ call.c.gets \in Seq(GetType)
      BY <2>1, GetsTyped DEF IInv, Typed
    <3>3. reader.gets = Len(call.c.gets)
      BY <2>1, <2>3, <3>1, <3>2 DEF IInv, ReadSoFar, ToRead
    <3>4. LookedUpTo(reader.gets) = Looked
      <4>1. \A i \in Looked : i <= reader.gets
        BY <2>1, <3>2, <3>3, GetsTyped DEF IInv
      <4> QED BY <4>1, Zenon DEF LookedUpTo
    <3>5. Len(answer.fields) = Cardinality(Looked)
      <4>1. PICK n \in AnswerSizes(call.given) : answer.fields = Whole(n)
        BY <2>3 DEF Expected
      <4>2. n \in Nat
        BY <2>1, CommandsAssumption DEF IInv, Typed
      <4> QED BY <2>1, <4>1, <4>2, WholeIs DEF IInv
    <3> QED BY <2>1, <2>3, <3>1, <3>4, <3>5 DEF StatusOf, ReadWhole
  <2> QED BY <2>2, <2>3
<1> QED BY <1>1, Inductive, PTL

\* Se05x_API_CloseSession forgets the session only when the SE has closed it.
THEOREM ClosedOnBothSides == Spec => []ClosedForReal
<1>1. IInv => ClosedForReal
  BY DEF IInv, SeFirst, ClosedForReal
<1> QED BY <1>1, Inductive, PTL

-----------------------------------------------------------------------------
(* Recursion.  Pass and FlattenSeq go through a sequence by a recursive    *)
(* function; here is what it computes, step by step.                       *)

\* A set of numbers has a least one.
LEMMA LeastNat ==
  ASSUME NEW T \in SUBSET Nat, T # {}
  PROVE  \E n \in T : \A m \in T : n <= m
<1> DEFINE R == {ss \in Nat \X Nat : ss[1] < ss[2]}
<1>1. IsWellFoundedOn(R, Nat)
  <2>1. IsWellFoundedOn(OpToRel(<, Nat), Nat)
    BY ONLY NatLessThanWellFounded
  <2>2. OpToRel(<, Nat) = R
    BY DEF OpToRel
  <2> QED BY <2>1, <2>2
<1>2. \A x, y \in Nat : <<y, x>> \in R <=> y < x
  OBVIOUS
<1> HIDE DEF R
<1>3. PICK x \in T : \A y \in T : ~ (<<y, x>> \in R)
  BY <1>1, WFMin
<1>4. ASSUME NEW y \in T
      PROVE  x <= y
  <2>1. x \in Nat /\ y \in Nat
    OBVIOUS
  <2>2. ~ (<<y, x>> \in R)
    BY <1>3
  <2>3. ~ (y < x)
    BY <2>1, <2>2, <1>2
  <2> QED BY <2>1, <2>3
<1> QED BY <1>4

\* A number that starts at 0 and is passed on to the next reaches all up to n.
LEMMA Climb ==
  ASSUME NEW n \in Nat, NEW S \in SUBSET Nat, 0 \in S,
         \A i \in Nat : i \in S /\ i < n => i + 1 \in S
  PROVE  \A i \in 0 .. n : i \in S
<1> DEFINE T == (0 .. n) \ S
<1>1. SUFFICES ASSUME T # {} PROVE FALSE
  OBVIOUS
<1>2. T \in SUBSET Nat
  OBVIOUS
<1>3. PICK m \in T : \A k \in T : m <= k
  BY <1>1, <1>2, LeastNat
<1>4. m \in Nat /\ m # 0 /\ m <= n
  BY <1>3
<1>5. m - 1 \in Nat /\ m - 1 < n /\ m - 1 \notin T
  BY <1>3, <1>4
<1>6. m - 1 \in S
  BY <1>5
<1>7. (m - 1) + 1 \in S
  BY <1>5, <1>6
<1>8. m \in S
  BY <1>7, <1>4
<1> QED BY <1>8, <1>3

\* f is the recursion that starts with base and makes each value of the one before by step.
IsRun(f, n, base, step) == f = [i \in 0 .. n |-> IF i = 0 THEN base ELSE step[<<i, f[i - 1]>>]]

\* A recursion that stays in a set has a solution.
LEMMA RunExists ==
  ASSUME NEW n \in Nat, NEW D, NEW base \in D, NEW step \in [(1 .. n) \X D -> D]
  PROVE  \E f \in [0 .. n -> D] : IsRun(f, n, base, step)
<1> DEFINE S == {m \in Nat : m <= n => \E f \in [0 .. m -> D] : IsRun(f, m, base, step)}
<1>1. 0 \in S
  <2> DEFINE f == [i \in 0 .. 0 |-> base]
  <2>1. f \in [0 .. 0 -> D] /\ IsRun(f, 0, base, step)
    BY DEF IsRun
  <2> QED BY <2>1
<1>2. ASSUME NEW m \in Nat, m \in S, m < n
      PROVE  m + 1 \in S
  <2>1. PICK f \in [0 .. m -> D] : IsRun(f, m, base, step)
    BY <1>2
  <2> DEFINE g == [i \in 0 .. (m + 1) |-> IF i <= m THEN f[i] ELSE step[<<m + 1, f[m]>>]]
             h == [i \in 0 .. (m + 1) |-> IF i = 0 THEN base ELSE step[<<i, g[i - 1]>>]]
  <2>2. step[<<m + 1, f[m]>>] \in D
    BY <1>2
  <2>3. g \in [0 .. (m + 1) -> D]
    BY <1>2, <2>2
  <2>4. ASSUME NEW i \in 0 .. (m + 1)
        PROVE  g[i] = h[i]
    <3>1. f[0] = base /\ \A j \in 1 .. m : f[j] = step[<<j, f[j - 1]>>]
      BY <2>1 DEF IsRun
    <3>2. CASE i = 0
      BY <3>1, <3>2
    <3>3. CASE i \in 1 .. m
      <4>1. g[i] = f[i] /\ g[i - 1] = f[i - 1]
        BY <3>3, <1>2
      <4> QED BY <4>1, <3>1, <3>3
    <3>4. CASE i = m + 1
      <4>1. g[i - 1] = f[m] /\ i # 0 /\ g[i] = step[<<i, f[m]>>]
        BY <3>4, <1>2
      <4> QED BY <4>1
    <3> QED BY <3>2, <3>3, <3>4
  <2>5. g = h
    BY <2>4
  <2>6. IsRun(g, m + 1, base, step)
    BY <2>5 DEF IsRun
  <2> HIDE DEF g
  <2>7. m + 1 \in Nat
    OBVIOUS
  <2> QED BY <2>3, <2>6, <2>7
<1> HIDE DEF S
<1>3. n \in S
  <2>1. S \in SUBSET Nat
    BY DEF S
  <2> QED BY <1>1, <1>2, <2>1, Climb
<1> QED BY <1>3 DEF S

\* Two functions that begin alike and go on alike are alike.
Alike(f, g, n) == f[0] = g[0] /\ \A i \in 1 .. n : f[i - 1] = g[i - 1] => f[i] = g[i]

\* f and g are the same as far as n.
Agree(f, g, n) == \A i \in 0 .. n : f[i] = g[i]

\* Two recursions that start and go on alike are alike to the end.
LEMMA SameRuns ==
  ASSUME NEW n \in Nat, NEW f, NEW g, Alike(f, g, n)
  PROVE  Agree(f, g, n)
<1> DEFINE S == {i \in Nat : i <= n => f[i] = g[i]}
<1>1. 0 \in S
  BY DEF Alike
<1>2. ASSUME NEW i \in Nat, i \in S, i < n
      PROVE  i + 1 \in S
  <2>1. i + 1 \in 1 .. n /\ (i + 1) - 1 = i /\ f[i] = g[i]
    BY <1>2
  <2> QED BY <2>1 DEF Alike
<1> HIDE DEF S
<1>3. \A i \in 0 .. n : i \in S
  <2>1. S \in SUBSET Nat
    BY DEF S
  <2> QED BY <1>1, <1>2, <2>1, Climb
<1> QED BY <1>3 DEF S, Agree

-----------------------------------------------------------------------------
(* Items and their sizes.                                                  *)

\* What the fields of a command are made of, and what a whole command is.
OneByte == {Byte(n) : n \in Nat}

Values == {Value(i, g, n) : i \in Nat, g \in Nat, n \in Nat \ {0}}

Plain == OneByte \cup Values

Ciphers == {[cipher |-> d, size |-> n] : d \in Seq(Plain), n \in Nat \ {0}}

Item == Plain \cup {SessionId, Mac} \cup Ciphers

\* A byte is one byte, and says what was written.
LEMMA ByteFacts ==
  ASSUME NEW n \in Nat
  PROVE  /\ Byte(n) \in Plain /\ "byte" \in DOMAIN Byte(n) /\ Byte(n).byte = n % 256
         /\ Byte(n).byte \in 0 .. 255 /\ Size(Byte(n)) = 1
BY DEF Byte, Size, Plain, OneByte

\* A value is as large as it says.
LEMMA ValueFacts ==
  ASSUME NEW i \in Nat, NEW g \in Nat, NEW n \in Nat \ {0}
  PROVE  /\ Value(i, g, n) \in Plain /\ Size(Value(i, g, n)) = n
         /\ ~ ("byte" \in DOMAIN Value(i, g, n)) /\ ~ ("cipher" \in DOMAIN Value(i, g, n))
BY DEF Value, Size, Plain, Values

\* Every item has a size, and a byte a value.
LEMMA ItemFacts ==
  ASSUME NEW x \in Item
  PROVE  /\ Size(x) \in Nat /\ Size(x) > 0
         /\ "byte" \in DOMAIN x => x.byte \in Nat
<1>1. CASE x \in OneByte
  <2>1. PICK n \in Nat : x = Byte(n)
    BY <1>1 DEF OneByte
  <2> QED BY <2>1, ByteFacts
<1>2. CASE x \in Values
  <2>1. PICK i \in Nat, g \in Nat, n \in Nat \ {0} : x = Value(i, g, n)
    BY <1>2 DEF Values
  <2> QED BY <2>1, ValueFacts
<1>3. CASE x \in {SessionId, Mac}
  BY <1>3 DEF SessionId, Mac, Size
<1>4. CASE x \in Ciphers
  BY <1>4 DEF Size, Ciphers
<1> QED BY <1>1, <1>2, <1>3, <1>4 DEF Item, Plain

\* What a command is made of before it is secured is among what it is made of after.
LEMMA PlainIsItem == Plain \subseteq Item /\ Seq(Plain) \subseteq Seq(Item) /\ SessionId \in Item /\ Mac \in Item
<1>1. Plain \subseteq Item
  BY DEF Item
<1>2. SessionId \in Item /\ Mac \in Item
  BY DEF Item
<1> QED BY <1>1, <1>2

\* What is appended comes after what was there.
LEMMA AppendIs ==
  ASSUME NEW S, NEW s \in Seq(S), NEW x \in S
  PROVE  /\ Append(s, x) \in Seq(S) /\ Len(Append(s, x)) = Len(s) + 1 /\ Len(s) \in Nat
         /\ Append(s, x)[Len(s) + 1] = x
         /\ \A i \in 1 .. Len(s) : Append(s, x)[i] = s[i] /\ s[i] \in S
OBVIOUS

-----------------------------------------------------------------------------
(* The folds, step by step.                                                *)

\* f adds up the sizes of the items of s.
BytesRun(f, s) == f = [i \in 0 .. Len(s) |-> IF i = 0 THEN 0 ELSE f[i - 1] + Size(s[i])]

\* Bytes is the last of the sums it goes through, each one item larger than the one before.
LEMMA BytesRunIs ==
  ASSUME NEW s \in Seq(Item)
  PROVE  \E f : /\ Bytes(s) = f[Len(s)] /\ Bytes(s) \in Nat /\ f[0] = 0
                /\ \A i \in 1 .. Len(s) : f[i] = f[i - 1] + Size(s[i])
<1> DEFINE n == Len(s)
           step == [p \in (1 .. n) \X Nat |-> p[2] + Size(s[p[1]])]
<1>1. n \in Nat /\ \A i \in 1 .. n : Size(s[i]) \in Nat
  BY ItemFacts
<1>2. step \in [(1 .. n) \X Nat -> Nat]
  BY <1>1
<1>3. PICK g \in [0 .. n -> Nat] : IsRun(g, n, 0, step)
  <2> HIDE DEF n, step
  <2> QED BY <1>1, <1>2, RunExists
<1>4. BytesRun(g, s)
  <2>1. ASSUME NEW i \in 1 .. n
        PROVE  step[<<i, g[i - 1]>>] = g[i - 1] + Size(s[i])
    <3>1. i - 1 \in 0 .. n
      BY <1>1
    <3>2. g[i - 1] \in Nat
      BY <1>3, <3>1
    <3> QED BY <3>2
  <2>2. \A i \in 0 .. n : (IF i = 0 THEN 0 ELSE step[<<i, g[i - 1]>>])
                          = (IF i = 0 THEN 0 ELSE g[i - 1] + Size(s[i]))
    BY <2>1
  <2> HIDE DEF step
  <2> QED BY <1>3, <2>2 DEF IsRun, BytesRun
<1>5. Bytes(s) = (CHOOSE f : BytesRun(f, s))[n]
  BY DEF Bytes, Pass, BytesRun
<1>6. PICK f : BytesRun(f, s) /\ Bytes(s) = f[n]
  BY <1>4, <1>5
<1> HIDE DEF step
<1>7. f[0] = 0 /\ \A i \in 1 .. n : f[i] = f[i - 1] + Size(s[i])
  BY SMTT(30), <1>1, <1>6 DEF BytesRun
<1>8. g[0] = 0 /\ \A i \in 1 .. n : g[i] = g[i - 1] + Size(s[i])
  BY <1>1, <1>4 DEF BytesRun
<1> HIDE DEF n
<1>9. Alike(f, g, n) /\ n \in Nat
  BY <1>1, <1>7, <1>8 DEF Alike
<1>10. Agree(f, g, n)
  BY <1>9, SameRuns
<1>12. f[n] \in Nat
  BY <1>3, <1>9, <1>10 DEF Agree
<1> QED BY <1>6, <1>7, <1>12 DEF n

\* The size of nothing is 0, and each item adds its own.
LEMMA BytesFacts ==
  /\ Bytes(<<>>) = 0
  /\ \A s \in Seq(Item) : Bytes(s) \in Nat
  /\ \A s \in Seq(Item), x \in Item : Bytes(Append(s, x)) = Bytes(s) + Size(x)
<1>1. Bytes(<<>>) = 0
  <2>1. <<>> \in Seq(Item) /\ Len(<<>>) = 0
    OBVIOUS
  <2> QED BY <2>1, BytesRunIs
<1>2. \A s \in Seq(Item) : Bytes(s) \in Nat
  BY BytesRunIs
<1>3. ASSUME NEW s \in Seq(Item), NEW x \in Item
      PROVE  Bytes(Append(s, x)) = Bytes(s) + Size(x)
  <2> DEFINE n == Len(s)
             t == Append(s, x)
  <2>1. /\ n \in Nat /\ t \in Seq(Item) /\ Len(t) = n + 1 /\ t[n + 1] = x
        /\ \A i \in 1 .. n : t[i] = s[i]
    BY AppendIs
  <2>2. PICK f : Bytes(s) = f[n] /\ f[0] = 0 /\ \A i \in 1 .. n : f[i] = f[i - 1] + Size(s[i])
    BY BytesRunIs
  <2>3. PICK g : /\ Bytes(t) = g[n + 1] /\ g[0] = 0
                 /\ \A i \in 1 .. n + 1 : g[i] = g[i - 1] + Size(t[i])
    <3>1. \E g : /\ Bytes(t) = g[Len(t)] /\ Bytes(t) \in Nat /\ g[0] = 0
                 /\ \A i \in 1 .. Len(t) : g[i] = g[i - 1] + Size(t[i])
      BY <2>1, BytesRunIs, Zenon
    <3> QED BY <2>1, <3>1
  <2> HIDE DEF n, t
  <2>4. Alike(f, g, n) /\ n \in Nat
    BY <2>1, <2>2, <2>3 DEF Alike
  <2>5. Agree(f, g, n)
    BY <2>4, SameRuns
  <2>6. g[n + 1] = g[n] + Size(x)
    <3>1. n + 1 \in 1 .. n + 1 /\ (n + 1) - 1 = n
      BY <2>1
    <3> QED BY <2>1, <2>3, <3>1
  <2>7. f[n] = g[n]
    BY <2>4, <2>5 DEF Agree
  <2> QED BY <2>2, <2>3, <2>6, <2>7 DEF t
<1> QED BY <1>1, <1>2, <1>3

\* A set that has the empty sequence, and with each sequence those that are longer by one,
\* has them all.
LEMMA SeqClimb ==
  ASSUME NEW S, NEW P \in SUBSET Seq(S), <<>> \in P,
         \A u \in P : \A x \in S : Append(u, x) \in P
  PROVE  P = Seq(S)
<1>1. SUFFICES ASSUME NEW s \in Seq(S) PROVE s \in P
  OBVIOUS
<1> DEFINE n == Len(s)
           up(k) == SubSeq(s, 1, k)
           T == {k \in Nat : k <= n => up(k) \in P}
<1>2. n \in Nat /\ up(0) = <<>> /\ up(n) = s
  OBVIOUS
<1>3. ASSUME NEW k \in Nat, k < n
      PROVE  up(k) \in Seq(S) /\ s[k + 1] \in S /\ up(k + 1) = Append(up(k), s[k + 1])
  <2>1. 1 \in 1 .. n /\ k + 1 \in 1 .. n /\ (k + 1) - 1 = k
    BY SMTT(30), <1>2, <1>3
  <2>2. s[k + 1] \in S /\ up(k) \in Seq(S)
    BY <1>2, <1>3, <2>1
  <2>3. up(k + 1) = up(k) \o <<s[k + 1]>>
    BY <2>1, SubSeqRecursiveSecond
  <2> HIDE DEF up
  <2> QED BY <2>2, <2>3, AppendIsConcat
<1> HIDE DEF up, n
<1>5. 0 \in T
  BY <1>2
<1>6. ASSUME NEW k \in Nat, k \in T, k < n
      PROVE  k + 1 \in T
  <2>1. k <= n /\ n \in Nat
    BY <1>2, <1>6
  <2>2. up(k) \in P
    BY <1>6, <2>1
  <2>3. up(k + 1) \in P
    BY <1>3, <1>6, <2>2
  <2> QED BY <2>3
<1> HIDE DEF T
<1>7. \A k \in 0 .. n : k \in T
  <2>1. T \in SUBSET Nat
    BY DEF T
  <2> QED BY <1>2, <1>5, <1>6, <2>1, Climb
<1>8. n \in T
  BY <1>2, <1>7
<1> QED BY <1>2, <1>8 DEF T

\* Concatenation, the second sequence item by item.
LEMMA ConcatAppend ==
  ASSUME NEW S, NEW s \in Seq(S)
  PROVE  /\ s \o <<>> = s /\ <<>> \o s = s
         /\ \A u \in Seq(S), x \in S : s \o Append(u, x) = Append(s \o u, x)
<1>1. s \o <<>> = s /\ <<>> \o s = s
  BY ConcatEmptySeq
<1>2. ASSUME NEW u \in Seq(S), NEW x \in S
      PROVE  s \o Append(u, x) = Append(s \o u, x)
  <2>1. Append(u, x) = u \o <<x>> /\ Append(s \o u, x) = (s \o u) \o <<x>>
    BY AppendIsConcat
  <2>2. <<x>> \in Seq(S)
    OBVIOUS
  <2> QED BY <2>1, <2>2, ConcatAssociative
<1> QED BY <1>1, <1>2

\* Sizes add up, and only the empty sequence has none.
LEMMA BytesConcat ==
  ASSUME NEW s \in Seq(Item), NEW t \in Seq(Item)
  PROVE  s \o t \in Seq(Item) /\ Bytes(s \o t) = Bytes(s) + Bytes(t)
<1> DEFINE P == {u \in Seq(Item) : Bytes(s \o u) = Bytes(s) + Bytes(u)}
<1>1. <<>> \in P
  BY ConcatAppend, BytesFacts
<1>2. ASSUME NEW u \in P, NEW x \in Item
      PROVE  Append(u, x) \in P
  <2>1. /\ u \in Seq(Item) /\ Append(u, x) \in Seq(Item) /\ s \o u \in Seq(Item)
        /\ Bytes(s \o u) = Bytes(s) + Bytes(u)
    BY ConcatProperties
  <2>2. s \o Append(u, x) = Append(s \o u, x)
    BY <2>1, ConcatAppend
  <2>3. Bytes(Append(s \o u, x)) = Bytes(s \o u) + Size(x) /\ Bytes(Append(u, x)) = Bytes(u) + Size(x)
    BY <2>1, BytesFacts
  <2>4. Bytes(s) \in Nat /\ Bytes(u) \in Nat /\ Size(x) \in Nat
    BY <2>1, BytesFacts, ItemFacts
  <2>5. Bytes(Append(s \o u, x)) = Bytes(s) + Bytes(Append(u, x))
    BY <2>1, <2>3, <2>4
  <2>6. Bytes(s \o Append(u, x)) = Bytes(s) + Bytes(Append(u, x))
    BY <2>2, <2>5
  <2> QED BY <2>1, <2>6
<1> HIDE DEF P
<1>3. t \in P
  <2>1. P \in SUBSET Seq(Item)
    BY DEF P
  <2> QED BY <1>1, <1>2, <2>1, SeqClimb
<1> QED BY <1>3 DEF P

\* No item is empty, so a sequence has at least as many bytes as items.
LEMMA BytesPositive ==
  ASSUME NEW s \in Seq(Item)
  PROVE  Bytes(s) >= Len(s) /\ (s # <<>> => Bytes(s) > 0)
<1> DEFINE P == {u \in Seq(Item) : Bytes(u) >= Len(u)}
<1>1. <<>> \in P
  BY BytesFacts
<1>2. ASSUME NEW u \in P, NEW x \in Item
      PROVE  Append(u, x) \in P
  <2>1. Bytes(Append(u, x)) = Bytes(u) + Size(x) /\ Bytes(u) \in Nat /\ Size(x) \in Nat /\ Size(x) > 0
    BY BytesFacts, ItemFacts
  <2>2. Append(u, x) \in Seq(Item) /\ Len(Append(u, x)) = Len(u) + 1 /\ Len(u) \in Nat /\ Bytes(u) >= Len(u)
    OBVIOUS
  <2>3. Bytes(Append(u, x)) >= Len(Append(u, x))
    BY <2>1, <2>2
  <2> QED BY <2>2, <2>3
<1> HIDE DEF P
<1>3. s \in P
  <2>1. P \in SUBSET Seq(Item)
    BY DEF P
  <2> QED BY <1>1, <1>2, <2>1, SeqClimb
<1>4. s # <<>> => Len(s) > 0
  OBVIOUS
<1> QED BY <1>3, <1>4, BytesFacts DEF P

\* One item has the size of one item.
LEMMA BytesOne == ASSUME NEW x \in Item PROVE Bytes(<<x>>) = Size(x) /\ <<x>> \in Seq(Item)
<1>1. <<x>> = Append(<<>>, x)
  OBVIOUS
<1>2. <<>> \in Seq(Item) /\ <<x>> \in Seq(Item)
  OBVIOUS
<1>3. Bytes(Append(<<>>, x)) = 0 + Size(x)
  BY <1>2, BytesFacts
<1> QED BY <1>1, <1>2, <1>3, ItemFacts

-----------------------------------------------------------------------------
(* What is chosen of a sequence, and sequences joined.                     *)

\* x is added to what was chosen if it is in T.
Chosen(got, x, T) == IF x \in T THEN Append(got, x) ELSE got

\* f chooses, item by item, what of s is in T.
OnlyRun(f, s, T) ==
    f = [i \in 0 .. Len(s) |-> IF i = 0 THEN <<>> ELSE Chosen(f[i - 1], s[i], T)]

\* Only is the last of the sequences it goes through, each by one choice from the one before.
LEMMA OnlyRunIs ==
  ASSUME NEW S, NEW T, NEW s \in Seq(S)
  PROVE  \E f : /\ Only(s, T) = f[Len(s)] /\ f[0] = <<>> /\ Only(s, T) \in Seq(S)
                /\ \A i \in 1 .. Len(s) : f[i] = Chosen(f[i - 1], s[i], T)
<1> DEFINE n == Len(s)
           step == [p \in (1 .. n) \X Seq(S) |-> Chosen(p[2], s[p[1]], T)]
<1>1. n \in Nat /\ \A i \in 1 .. n : s[i] \in S
  OBVIOUS
<1>2. step \in [(1 .. n) \X Seq(S) -> Seq(S)]
  BY <1>1 DEF Chosen
<1>3. PICK g \in [0 .. n -> Seq(S)] : IsRun(g, n, <<>>, step)
  <2>1. <<>> \in Seq(S)
    OBVIOUS
  <2> HIDE DEF n, step
  <2> QED BY <1>1, <1>2, <2>1, RunExists
<1>4. OnlyRun(g, s, T)
  <2>1. ASSUME NEW i \in 1 .. n
        PROVE  step[<<i, g[i - 1]>>] = Chosen(g[i - 1], s[i], T)
    <3>1. i - 1 \in 0 .. n
      BY <1>1
    <3>2. g[i - 1] \in Seq(S)
      BY <1>3, <3>1
    <3> QED BY <3>2
  <2>2. \A i \in 0 .. n : (IF i = 0 THEN <<>> ELSE step[<<i, g[i - 1]>>])
                          = (IF i = 0 THEN <<>> ELSE Chosen(g[i - 1], s[i], T))
    <3> SUFFICES ASSUME NEW i \in 0 .. n, i # 0
                 PROVE  step[<<i, g[i - 1]>>] = Chosen(g[i - 1], s[i], T)
      OBVIOUS
    <3>1. i \in 1 .. n
      BY <1>1
    <3> HIDE DEF step, n
    <3> QED BY <2>1, <3>1
  <2> HIDE DEF step
  <2>3. IsRun(g, n, <<>>, step)
    BY <1>3
  <2>4. g = [i \in 0 .. n |-> IF i = 0 THEN <<>> ELSE Chosen(g[i - 1], s[i], T)]
    <3> HIDE DEF n
    <3> QED BY <2>2, <2>3 DEF IsRun
  <2> QED BY <2>4 DEF OnlyRun
<1>5. Only(s, T) = (CHOOSE f : OnlyRun(f, s, T))[n]
  BY DEF Only, Pass, OnlyRun, Chosen
<1>6. PICK f : OnlyRun(f, s, T) /\ Only(s, T) = f[n]
  BY <1>4, <1>5
<1> HIDE DEF step
<1>7. f[0] = <<>> /\ \A i \in 1 .. n : f[i] = Chosen(f[i - 1], s[i], T)
  BY <1>1, <1>6 DEF OnlyRun
<1>8. g[0] = <<>> /\ \A i \in 1 .. n : g[i] = Chosen(g[i - 1], s[i], T)
  BY <1>1, <1>4 DEF OnlyRun
<1> HIDE DEF n
<1>9. Alike(f, g, n) /\ n \in Nat
  BY <1>1, <1>7, <1>8 DEF Alike
<1>10. Agree(f, g, n)
  BY <1>9, SameRuns
<1>11. f[n] \in Seq(S)
  BY <1>3, <1>9, <1>10 DEF Agree
<1> QED BY <1>6, <1>7, <1>11 DEF n

\* Choosing goes item by item.
LEMMA OnlyFacts ==
  ASSUME NEW S, NEW T
  PROVE  /\ Only(<<>>, T) = <<>>
         /\ \A s \in Seq(S) : Only(s, T) \in Seq(S)
         /\ \A s \in Seq(S), x \in S :
              Only(Append(s, x), T) = Chosen(Only(s, T), x, T)
<1>1. Only(<<>>, T) = <<>>
  <2>1. <<>> \in Seq(S) /\ Len(<<>>) = 0
    OBVIOUS
  <2>2. ASSUME NEW u \in Seq(S), Len(u) = 0
        PROVE  Only(u, T) = <<>>
    <3>1. \E f : /\ Only(u, T) = f[Len(u)] /\ f[0] = <<>> /\ Only(u, T) \in Seq(S)
                /\ \A i \in 1 .. Len(u) : f[i] = Chosen(f[i - 1], u[i], T)
      BY OnlyRunIs
    <3> QED BY <2>2, <3>1
  <2> QED BY <2>1, <2>2
<1>2. \A s \in Seq(S) : Only(s, T) \in Seq(S)
  BY OnlyRunIs
<1>3. ASSUME NEW s \in Seq(S), NEW x \in S
      PROVE  Only(Append(s, x), T) = Chosen(Only(s, T), x, T)
  <2> DEFINE n == Len(s)
             t == Append(s, x)
  <2>1. /\ n \in Nat /\ t \in Seq(S) /\ Len(t) = n + 1 /\ t[n + 1] = x
        /\ \A i \in 1 .. n : t[i] = s[i]
    BY AppendIs
  <2>2. PICK f : /\ Only(s, T) = f[n] /\ f[0] = <<>>
                 /\ \A i \in 1 .. n : f[i] = Chosen(f[i - 1], s[i], T)
    BY OnlyRunIs
  <2>3. PICK g : /\ Only(t, T) = g[n + 1] /\ g[0] = <<>>
                 /\ \A i \in 1 .. n + 1 : g[i] = Chosen(g[i - 1], t[i], T)
    <3>1. \E g : /\ Only(t, T) = g[Len(t)] /\ g[0] = <<>> /\ Only(t, T) \in Seq(S)
                 /\ \A i \in 1 .. Len(t) : g[i] = Chosen(g[i - 1], t[i], T)
      <4> HIDE DEF t
      <4>1. t \in Seq(S)
        BY <2>1
      <4> QED BY <4>1, OnlyRunIs
    <3> QED BY <2>1, <3>1
  <2> HIDE DEF n, t
  <2>4. Alike(f, g, n) /\ n \in Nat
    BY <2>1, <2>2, <2>3 DEF Alike
  <2>5. Agree(f, g, n)
    BY <2>4, SameRuns
  <2>6. g[n + 1] = Chosen(g[n], x, T)
    <3>1. n + 1 \in 1 .. n + 1 /\ (n + 1) - 1 = n
      BY <2>1
    <3> QED BY <2>1, <2>3, <3>1
  <2>7. f[n] = g[n]
    BY <2>4, <2>5 DEF Agree
  <2> QED BY <2>2, <2>3, <2>6, <2>7 DEF t
<1> QED BY <1>1, <1>2, <1>3

\* Only the members of s matter.
LEMMA OnlyMeets ==
  ASSUME NEW S, NEW T, NEW U, NEW s \in Seq(S), \A x \in Range(s) : x \in T <=> x \in U
  PROVE  Only(s, T) = Only(s, U)
<1> DEFINE P == {u \in Seq(S) : (\A x \in Range(u) : x \in T <=> x \in U) => Only(u, T) = Only(u, U)}
<1>1. <<>> \in P
  BY OnlyFacts
<1>2. ASSUME NEW u \in P, NEW x \in S
      PROVE  Append(u, x) \in P
  <2> SUFFICES ASSUME \A y \in Range(Append(u, x)) : y \in T <=> y \in U
               PROVE  Only(Append(u, x), T) = Only(Append(u, x), U)
    OBVIOUS
  <2>1. x \in Range(Append(u, x)) /\ Range(u) \subseteq Range(Append(u, x))
    BY AppendIs DEF Range
  <2>2. Only(u, T) = Only(u, U) /\ (x \in T <=> x \in U)
    BY <2>1
  <2>3. u \in Seq(S)
    OBVIOUS
  <2>4. Only(Append(u, x), T) = Chosen(Only(u, T), x, T)
    BY ZenonT(30), <2>3, OnlyFacts
  <2>5. Only(Append(u, x), U) = Chosen(Only(u, U), x, U)
    BY ZenonT(30), <2>3, OnlyFacts
  <2> QED BY <2>2, <2>4, <2>5 DEF Chosen
<1> HIDE DEF P
<1>3. s \in P
  <2>1. P \in SUBSET Seq(S)
    BY DEF P
  <2> QED BY <1>1, <1>2, <2>1, SeqClimb
<1> QED BY <1>3 DEF P

\* f joins the sequences of ss, one after the other.
FlatRun(f, ss) == f = [i \in 1 .. Len(ss) |-> IF i = 1 THEN ss[i] ELSE f[i - 1] \o ss[i]]

\* FlattenSeq is the last of the sequences it goes through, each with one more joined to it.
LEMMA FlatRunIs ==
  ASSUME NEW S, NEW ss \in Seq(Seq(S)), ss # <<>>
  PROVE  \E f : /\ FlattenSeq(ss) = f[Len(ss)] /\ f[1] = ss[1] /\ FlattenSeq(ss) \in Seq(S)
                /\ \A i \in 2 .. Len(ss) : f[i] = f[i - 1] \o ss[i]
<1> DEFINE n == Len(ss)
           step == [p \in (1 .. n) \X Seq(S) |-> p[2] \o ss[p[1]]]
<1>1. n \in Nat /\ n # 0 /\ \A i \in 1 .. n : ss[i] \in Seq(S)
  OBVIOUS
<1>2. step \in [(1 .. n) \X Seq(S) -> Seq(S)]
  BY <1>1, ConcatProperties
<1>3. PICK g \in [0 .. n -> Seq(S)] : IsRun(g, n, <<>>, step)
  <2>1. <<>> \in Seq(S)
    OBVIOUS
  <2> HIDE DEF n, step
  <2> QED BY <1>1, <1>2, <2>1, RunExists
<1>4. g[0] = <<>> /\ \A i \in 1 .. n : g[i] = g[i - 1] \o ss[i]
  <2>1. ASSUME NEW i \in 1 .. n
        PROVE  step[<<i, g[i - 1]>>] = g[i - 1] \o ss[i]
    <3>1. i - 1 \in 0 .. n
      BY <1>1
    <3>2. g[i - 1] \in Seq(S)
      BY <1>3, <3>1
    <3> QED BY <3>2
  <2> HIDE DEF step, n
  <2>2. g[0] = <<>> /\ \A i \in 1 .. n : g[i] = step[<<i, g[i - 1]>>]
    BY <1>1, <1>3 DEF IsRun
  <2> QED BY <2>1, <2>2
<1> HIDE DEF step
<1> DEFINE h == [i \in 1 .. n |-> g[i]]
<1>5. g[1] = ss[1]
  <2>1. 1 \in 1 .. n /\ 1 - 1 = 0
    BY <1>1
  <2>2. g[1] = <<>> \o ss[1] /\ ss[1] \in Seq(S)
    BY <1>1, <1>4, <2>1
  <2> QED BY <2>2, ConcatEmptySeq
<1>6. FlatRun(h, ss)
  <2>1. ASSUME NEW i \in 1 .. n
        PROVE  h[i] = IF i = 1 THEN ss[i] ELSE h[i - 1] \o ss[i]
    <3>1. CASE i = 1
      BY <1>5, <3>1
    <3>2. CASE i # 1
      <4>1. i - 1 \in 1 .. n
        BY <3>2
      <4> QED BY <1>4, <3>2, <4>1
    <3> QED BY <3>1, <3>2
  <2> QED BY <2>1 DEF FlatRun
<1>7. FlattenSeq(ss) = (CHOOSE f : FlatRun(f, ss))[n]
  BY <1>1 DEF FlattenSeq, FlatRun
<1>8. PICK f : FlatRun(f, ss) /\ FlattenSeq(ss) = f[n]
  BY <1>6, <1>7
<1> HIDE DEF h
<1>9. f[1] = ss[1] /\ \A i \in 2 .. n : f[i] = f[i - 1] \o ss[i]
  <2>1. f = [i \in 1 .. n |-> IF i = 1 THEN ss[i] ELSE f[i - 1] \o ss[i]]
    BY <1>8 DEF FlatRun
  <2>2. ASSUME NEW i \in 1 .. n
        PROVE  f[i] = IF i = 1 THEN ss[i] ELSE f[i - 1] \o ss[i]
    BY <2>1, Zenon
  <2> HIDE DEF n
  <2>3. 1 \in 1 .. n /\ \A i \in 2 .. n : i \in 1 .. n /\ i # 1
    BY <1>1
  <2> QED BY <2>2, <2>3
<1> DEFINE T == {k \in Nat : k < n => f[k + 1] = g[k + 1]}
<1>10. 0 \in T
  BY <1>5, <1>9
<1>11. ASSUME NEW k \in Nat, k \in T, k < n
       PROVE  k + 1 \in T
  <2> SUFFICES ASSUME k + 1 < n PROVE f[(k + 1) + 1] = g[(k + 1) + 1]
    OBVIOUS
  <2>1. (k + 1) + 1 \in 2 .. n /\ (k + 1) + 1 \in 1 .. n /\ ((k + 1) + 1) - 1 = k + 1 /\ f[k + 1] = g[k + 1]
    BY <1>1, <1>11
  <2> QED BY <1>4, <1>9, <2>1
<1> HIDE DEF T
<1>12. n - 1 \in T
  <2>1. T \in SUBSET Nat
    BY DEF T
  <2>2. \A k \in 0 .. n : k \in T
    BY <1>1, <1>10, <1>11, <2>1, Climb
  <2> QED BY <1>1, <2>2
<1>13. f[n] = g[n]
  BY <1>1, <1>12 DEF T
<1>14. g[n] \in Seq(S)
  <2> HIDE DEF n
  <2>1. n \in 0 .. n
    BY <1>1
  <2> QED BY <1>3, <2>1
<1>15. FlattenSeq(ss) = f[n] /\ FlattenSeq(ss) \in Seq(S)
  BY <1>8, <1>13, <1>14
<1>16. /\ FlattenSeq(ss) = f[Len(ss)] /\ f[1] = ss[1] /\ FlattenSeq(ss) \in Seq(S)
       /\ \A i \in 2 .. Len(ss) : f[i] = f[i - 1] \o ss[i]
  BY <1>9, <1>15
<1> QED BY <1>16

\* Joining goes sequence by sequence.
LEMMA FlatFacts ==
  ASSUME NEW S
  PROVE  /\ FlattenSeq(<<>>) = <<>>
         /\ \A ss \in Seq(Seq(S)) : FlattenSeq(ss) \in Seq(S)
         /\ \A ss \in Seq(Seq(S)), t \in Seq(S) : FlattenSeq(Append(ss, t)) = FlattenSeq(ss) \o t
<1>1. FlattenSeq(<<>>) = <<>>
  BY DEF FlattenSeq
<1>2. ASSUME NEW ss \in Seq(Seq(S)) PROVE FlattenSeq(ss) \in Seq(S)
  <2>1. CASE ss = <<>>
    <3>1. <<>> \in Seq(S)
      OBVIOUS
    <3> QED BY <1>1, <2>1, <3>1
  <2>2. CASE ss # <<>>
    BY <2>2, FlatRunIs
  <2> QED BY <2>1, <2>2
<1>3. ASSUME NEW ss \in Seq(Seq(S)), NEW t \in Seq(S)
      PROVE  FlattenSeq(Append(ss, t)) = FlattenSeq(ss) \o t
  <2> DEFINE n == Len(ss)
             tt == Append(ss, t)
  <2>1. /\ n \in Nat /\ tt \in Seq(Seq(S)) /\ Len(tt) = n + 1 /\ tt[n + 1] = t /\ tt # <<>>
        /\ \A i \in 1 .. n : tt[i] = ss[i]
    <3>1. tt # <<>>
      BY AppendProperties
    <3> QED BY <3>1, AppendIs
  <2>2. PICK g : /\ FlattenSeq(tt) = g[n + 1] /\ g[1] = tt[1]
                 /\ \A i \in 2 .. n + 1 : g[i] = g[i - 1] \o tt[i]
    <3>1. \E g : /\ FlattenSeq(tt) = g[Len(tt)] /\ g[1] = tt[1] /\ FlattenSeq(tt) \in Seq(S)
                 /\ \A i \in 2 .. Len(tt) : g[i] = g[i - 1] \o tt[i]
      <4>1. tt \in Seq(Seq(S)) /\ tt # <<>>
        BY <2>1
      <4> HIDE DEF tt
      <4> QED BY ONLY ZenonT(30), <4>1, FlatRunIs
    <3> QED BY <2>1, <3>1
  <2> HIDE DEF tt
  <2>3. CASE ss = <<>>
    <3>1. n = 0
      BY <2>3
    <3>2. FlattenSeq(tt) = t
      BY <2>1, <2>2, <3>1
    <3> QED BY <1>1, <2>3, <3>2, ConcatEmptySeq DEF tt
  <2>4. CASE ss # <<>>
    <3>1. PICK f : /\ FlattenSeq(ss) = f[n] /\ f[1] = ss[1]
                   /\ \A i \in 2 .. n : f[i] = f[i - 1] \o ss[i]
      <4>1. \E f : /\ FlattenSeq(ss) = f[Len(ss)] /\ f[1] = ss[1] /\ FlattenSeq(ss) \in Seq(S)
                   /\ \A i \in 2 .. Len(ss) : f[i] = f[i - 1] \o ss[i]
        BY <2>4, FlatRunIs, Zenon
      <4> QED BY <4>1
    <3>2. n # 0
      BY <2>4
    <3> HIDE DEF n
    <3> DEFINE T == {k \in Nat : k < n => f[k + 1] = g[k + 1]}
    <3>3. 0 \in T
      BY <2>1, <2>2, <3>1
    <3>4. ASSUME NEW k \in Nat, k \in T, k < n
          PROVE  k + 1 \in T
      <4> SUFFICES ASSUME k + 1 < n PROVE f[(k + 1) + 1] = g[(k + 1) + 1]
        OBVIOUS
      <4>1. /\ (k + 1) + 1 \in 2 .. n /\ (k + 1) + 1 \in 2 .. n + 1 /\ (k + 1) + 1 \in 1 .. n
            /\ ((k + 1) + 1) - 1 = k + 1 /\ f[k + 1] = g[k + 1]
        BY <2>1, <3>4
      <4>2. f[(k + 1) + 1] = f[k + 1] \o ss[(k + 1) + 1]
        BY <3>1, <4>1
      <4>3. g[(k + 1) + 1] = g[k + 1] \o tt[(k + 1) + 1]
        BY <2>2, <4>1
      <4>4. tt[(k + 1) + 1] = ss[(k + 1) + 1]
        BY <2>1, <4>1
      <4> QED BY <4>1, <4>2, <4>3, <4>4
    <3> HIDE DEF T
    <3>5. n - 1 \in T
      <4>1. T \in SUBSET Nat
        BY DEF T
      <4>2. \A k \in 0 .. n : k \in T
        BY <2>1, <3>3, <3>4, <4>1, Climb
      <4> QED BY <2>1, <3>2, <4>2
    <3>6. f[n] = g[n]
      BY <2>1, <3>2, <3>5 DEF T
    <3>7. g[n + 1] = g[n] \o t
      <4>1. n + 1 \in 2 .. n + 1 /\ (n + 1) - 1 = n
        BY <2>1, <3>2
      <4> QED BY <2>1, <2>2, <4>1
    <3> QED BY <2>2, <3>1, <3>6, <3>7 DEF tt
  <2> QED BY <2>3, <2>4
<1> QED BY <1>1, <1>2, <1>3

-----------------------------------------------------------------------------
(* Fields taken apart, item by item.                                       *)

\* A field that was read, and the states in which fields are taken apart.
FieldRec == [tag : Nat, value : Seq(Item)]

ParseState ==
    [at : {"tag", "length", "more", "value", "garbled"}, tag : Nat, need : Int, more : Int,
     value : Seq(Item), fields : Seq(FieldRec)]

\* The state with these parts, and the state between two fields.
At(at, tag, need, more, value, fields) ==
    [at |-> at, tag |-> tag, need |-> need, more |-> more, value |-> value, fields |-> fields]

Between(fields) == At("tag", 0, 0, 0, <<>>, fields)

\* Closing a field keeps a state a state.
LEMMA CloseStays == ASSUME NEW s \in ParseState PROVE Close(s) \in ParseState
<1>1. CASE s.at = "value" /\ s.need = 0
  <2>1. Append(s.fields, [tag |-> s.tag, value |-> s.value]) \in Seq(FieldRec)
    BY DEF ParseState, FieldRec
  <2>2. <<>> \in Seq(Item)
    OBVIOUS
  <2> QED BY <1>1, <2>1, <2>2 DEF Close, ParseState, NoField
<1>2. CASE ~(s.at = "value" /\ s.need = 0)
  BY <1>2 DEF Close
<1> QED BY <1>1, <1>2

\* A state made of parts is a state.
LEMMA StateMade ==
  ASSUME NEW at \in {"tag", "length", "more", "value", "garbled"}, NEW tag \in Nat,
         NEW need \in Int, NEW more \in Int, NEW value \in Seq(Item), NEW fields \in Seq(FieldRec)
  PROVE  At(at, tag, need, more, value, fields) \in ParseState
BY DEF At, ParseState

\* A state is made of its parts.
LEMMA StateParts ==
  ASSUME NEW s \in ParseState
  PROVE  /\ s = At(s.at, s.tag, s.need, s.more, s.value, s.fields)
         /\ s.at \in {"tag", "length", "more", "value", "garbled"} /\ s.tag \in Nat
         /\ s.need \in Int /\ s.more \in Int /\ s.value \in Seq(Item) /\ s.fields \in Seq(FieldRec)
BY DEF At, ParseState

\* b is what the reader of tags and lengths makes of the item x.
ReadAs(x, b) == b = IF "byte" \in DOMAIN x THEN x.byte ELSE 255

\* What each item makes of the state the parts of a field are read in.
LEMMA ReadsTag ==
  ASSUME NEW tag, NEW need, NEW more, NEW value, NEW fields, NEW x, NEW b, ReadAs(x, b)
  PROVE  Read(At("tag", tag, need, more, value, fields), x)
          = Close(At("length", b, need, more, value, fields))
BY DEF Read, At, ReadAs

\* Of a length byte: the length itself, or how many bytes of it follow.
LEMMA ReadsLength ==
  ASSUME NEW tag, NEW need, NEW more, NEW value, NEW fields, NEW x, NEW b, ReadAs(x, b)
  PROVE  Read(At("length", tag, need, more, value, fields), x)
          = Close(IF b <= 127 THEN At("value", tag, b, more, value, fields)
                  ELSE IF b = 129 THEN At("more", tag, need, 1, value, fields)
                  ELSE IF b = 130 THEN At("more", tag, need, 2, value, fields)
                  ELSE At("garbled", tag, need, more, value, fields))
<1> DEFINE s == At("length", tag, need, more, value, fields)
<1>a. s.at = "length"
  BY DEF At
<1>1. CASE b <= 127
  <2>1. Read(s, x) = Close([s EXCEPT !.at = "value", !.need = b])
    BY <1>1, <1>a DEF Read, ReadAs
  <2>2. [s EXCEPT !.at = "value", !.need = b] = At("value", tag, b, more, value, fields)
    <3>1. [s EXCEPT !.at = "value"] = At("value", tag, need, more, value, fields)
      BY DEF At
    <3>2. [At("value", tag, need, more, value, fields) EXCEPT !.need = b] = At("value", tag, b, more, value, fields)
      BY DEF At
    <3>3. [s EXCEPT !.at = "value", !.need = b] = [[s EXCEPT !.at = "value"] EXCEPT !.need = b]
      OBVIOUS
    <3> HIDE DEF s
    <3> QED BY <3>1, <3>2, <3>3
  <2>3. Read(s, x) = Close(At("value", tag, b, more, value, fields))
    BY <2>1, <2>2
  <2> HIDE DEF s
  <2> QED BY <1>1, <2>3 DEF s
<1>2. CASE b = 129
  <2>1. Read(s, x) = Close([s EXCEPT !.at = "more", !.more = 1])
    BY <1>2, <1>a DEF Read, ReadAs
  <2>2. [s EXCEPT !.at = "more", !.more = 1] = At("more", tag, need, 1, value, fields)
    <3>1. [s EXCEPT !.at = "more"] = At("more", tag, need, more, value, fields)
      BY DEF At
    <3>2. [At("more", tag, need, more, value, fields) EXCEPT !.more = 1] = At("more", tag, need, 1, value, fields)
      BY DEF At
    <3>3. [s EXCEPT !.at = "more", !.more = 1] = [[s EXCEPT !.at = "more"] EXCEPT !.more = 1]
      OBVIOUS
    <3> HIDE DEF s
    <3> QED BY <3>1, <3>2, <3>3
  <2>3. Read(s, x) = Close(At("more", tag, need, 1, value, fields))
    BY <2>1, <2>2
  <2> HIDE DEF s
  <2> QED BY <1>2, <2>3 DEF s
<1>3. CASE b = 130
  <2>1. Read(s, x) = Close([s EXCEPT !.at = "more", !.more = 2])
    BY <1>3, <1>a DEF Read, ReadAs
  <2>2. [s EXCEPT !.at = "more", !.more = 2] = At("more", tag, need, 2, value, fields)
    <3>1. [s EXCEPT !.at = "more"] = At("more", tag, need, more, value, fields)
      BY DEF At
    <3>2. [At("more", tag, need, more, value, fields) EXCEPT !.more = 2] = At("more", tag, need, 2, value, fields)
      BY DEF At
    <3>3. [s EXCEPT !.at = "more", !.more = 2] = [[s EXCEPT !.at = "more"] EXCEPT !.more = 2]
      OBVIOUS
    <3> HIDE DEF s
    <3> QED BY <3>1, <3>2, <3>3
  <2>3. Read(s, x) = Close(At("more", tag, need, 2, value, fields))
    BY <2>1, <2>2
  <2> HIDE DEF s
  <2> QED BY <1>3, <2>3 DEF s
<1>4. CASE ~ (b <= 127) /\ b # 129 /\ b # 130
  <2>1. Read(s, x) = Close([s EXCEPT !.at = "garbled"])
    BY <1>4, <1>a DEF Read, ReadAs
  <2>2. [s EXCEPT !.at = "garbled"] = At("garbled", tag, need, more, value, fields)
    BY DEF At
  <2>3. Read(s, x) = Close(At("garbled", tag, need, more, value, fields))
    BY <2>1, <2>2
  <2> HIDE DEF s
  <2> QED BY <1>4, <2>3 DEF s
<1> QED BY <1>1, <1>2, <1>3, <1>4

\* Of a further byte of the length.
LEMMA ReadsMore ==
  ASSUME NEW tag, NEW need, NEW more, NEW value, NEW fields, NEW x, NEW b, ReadAs(x, b)
  PROVE  Read(At("more", tag, need, more, value, fields), x)
          = Close(At(IF more = 1 THEN "value" ELSE "more", tag, need * 256 + b, more - 1, value, fields))
BY DEF Read, At, ReadAs

\* Of an item of the value, which must not be longer than what is missing.
LEMMA ReadsValue ==
  ASSUME NEW tag, NEW need, NEW more, NEW value, NEW fields, NEW x, NEW b, ReadAs(x, b)
  PROVE  Read(At("value", tag, need, more, value, fields), x)
          = Close(IF Size(x) <= need
                  THEN At("value", tag, need - Size(x), more, Append(value, x), fields)
                  ELSE At("garbled", tag, need, more, value, fields))
<1> DEFINE s == At("value", tag, need, more, value, fields)
<1>a. s.at = "value" /\ s.need = need /\ s.value = value
  BY DEF At
<1>1. CASE Size(x) <= need
  <2>1. Read(s, x) = Close([s EXCEPT !.need = need - Size(x), !.value = Append(value, x)])
    <3> HIDE DEF s
    <3> QED BY <1>1, <1>a DEF Read, ReadAs
  <2>2. [s EXCEPT !.need = need - Size(x), !.value = Append(value, x)] = At("value", tag, need - Size(x), more, Append(value, x), fields)
    <3>1. [s EXCEPT !.need = need - Size(x)] = At("value", tag, need - Size(x), more, value, fields)
      BY DEF At
    <3>2. [At("value", tag, need - Size(x), more, value, fields) EXCEPT !.value = Append(value, x)] = At("value", tag, need - Size(x), more, Append(value, x), fields)
      BY SMTT(30) DEF At
    <3>3. [s EXCEPT !.need = need - Size(x), !.value = Append(value, x)] = [[s EXCEPT !.need = need - Size(x)] EXCEPT !.value = Append(value, x)]
      OBVIOUS
    <3> HIDE DEF s
    <3> QED BY <3>1, <3>2, <3>3
  <2>3. Read(s, x) = Close(At("value", tag, need - Size(x), more, Append(value, x), fields))
    BY <2>1, <2>2
  <2> HIDE DEF s
  <2> QED BY <1>1, <2>3 DEF s
<1>2. CASE ~ (Size(x) <= need)
  <2>1. Read(s, x) = Close([s EXCEPT !.at = "garbled"])
    BY <1>2, <1>a DEF Read, ReadAs
  <2>2. [s EXCEPT !.at = "garbled"] = At("garbled", tag, need, more, value, fields)
    BY DEF At
  <2>3. Read(s, x) = Close(At("garbled", tag, need, more, value, fields))
    BY <2>1, <2>2
  <2> HIDE DEF s
  <2> QED BY <1>2, <2>3 DEF s
<1> QED BY <1>1, <1>2

\* Of anything after what was not understood.
LEMMA ReadsGarbled ==
  ASSUME NEW tag, NEW need, NEW more, NEW value, NEW fields, NEW x, NEW b, ReadAs(x, b)
  PROVE  Read(At("garbled", tag, need, more, value, fields), x)
          = Close(At("garbled", tag, need, more, value, fields))
BY DEF Read, At, ReadAs

\* An item makes a state of a state.
LEMMA ReadStays == ASSUME NEW s \in ParseState, NEW x \in Item PROVE Read(s, x) \in ParseState
<1> DEFINE b == IF "byte" \in DOMAIN x THEN x.byte ELSE 255
<1>0. ReadAs(x, b)
  BY DEF ReadAs
<1>1. b \in Nat /\ Size(x) \in Nat
  BY ItemFacts
<1> HIDE DEF b
<1>2. PICK at \in {"tag", "length", "more", "value", "garbled"}, tag \in Nat, need \in Int, more \in Int,
           value \in Seq(Item), fields \in Seq(FieldRec) : s = At(at, tag, need, more, value, fields)
  BY StateParts
<1>3. ASSUME NEW r, r \in ParseState, Read(s, x) = Close(r)
      PROVE  Read(s, x) \in ParseState
  BY <1>3, CloseStays
<1>4. CASE at = "tag"
  <2>1. Read(s, x) = Close(At("length", b, need, more, value, fields))
    BY <1>2, <1>4, <1>0, ReadsTag
  <2> QED BY <1>1, <1>3, <2>1, StateMade
<1>5. CASE at = "length"
  <2> DEFINE r == IF b <= 127 THEN At("value", tag, b, more, value, fields)
                  ELSE IF b = 129 THEN At("more", tag, need, 1, value, fields)
                  ELSE IF b = 130 THEN At("more", tag, need, 2, value, fields)
                  ELSE At("garbled", tag, need, more, value, fields)
  <2>1. Read(s, x) = Close(r)
    BY <1>2, <1>5, <1>0, ReadsLength
  <2>2. r \in ParseState
    BY <1>1, StateMade
  <2> QED BY <1>3, <2>1, <2>2
<1>6. CASE at = "more"
  <2> DEFINE a == IF more = 1 THEN "value" ELSE "more"
             n == need * 256 + b
             m == more - 1
  <2>1. Read(s, x) = Close(At(a, tag, n, m, value, fields))
    BY <1>2, <1>6, <1>0, ReadsMore
  <2>2. a \in {"value", "more"} /\ n \in Int /\ m \in Int
    BY <1>1
  <2> HIDE DEF a, n, m
  <2>3. At(a, tag, n, m, value, fields) \in ParseState
    BY <2>2, StateMade
  <2> QED BY <1>3, <2>1, <2>3
<1>7. CASE at = "value"
  <2> DEFINE n == need - Size(x)
             v == Append(value, x)
             r == IF Size(x) <= need THEN At("value", tag, n, more, v, fields)
                  ELSE At("garbled", tag, need, more, value, fields)
  <2>1. Read(s, x) = Close(r)
    BY <1>2, <1>7, <1>0, ReadsValue
  <2>2. n \in Int /\ v \in Seq(Item)
    BY <1>1
  <2> HIDE DEF n, v
  <2>3. r \in ParseState
    BY <2>2, StateMade
  <2> QED BY <1>3, <2>1, <2>3
<1>8. CASE at = "garbled"
  <2>1. Read(s, x) = Close(At("garbled", tag, need, more, value, fields))
    BY <1>2, <1>8, <1>0, ReadsGarbled
  <2> QED BY <1>3, <2>1, StateMade
<1> QED BY <1>4, <1>5, <1>6, <1>7, <1>8

\* f takes the fields of s apart, item by item.
ParseRun(f, s) == f = [i \in 0 .. Len(s) |-> IF i = 0 THEN NoField ELSE Read(f[i - 1], s[i])]

\* Parse is the last of the states it goes through, each by one item from the one before.
LEMMA ParseRunIs ==
  ASSUME NEW s \in Seq(Item)
  PROVE  \E f : /\ Parse(s) = f[Len(s)] /\ f[0] = NoField /\ Parse(s) \in ParseState
                /\ \A i \in 1 .. Len(s) : f[i] = Read(f[i - 1], s[i])
<1> DEFINE n == Len(s)
           step == [p \in (1 .. n) \X ParseState |-> Read(p[2], s[p[1]])]
<1>1. n \in Nat /\ \A i \in 1 .. n : s[i] \in Item
  OBVIOUS
<1>2. step \in [(1 .. n) \X ParseState -> ParseState]
  BY <1>1, ReadStays
<1>3. PICK g \in [0 .. n -> ParseState] : IsRun(g, n, NoField, step)
  <2>1. NoField \in ParseState
    <3>1. <<>> \in Seq(Item) /\ <<>> \in Seq(FieldRec)
      OBVIOUS
    <3> QED BY <3>1 DEF NoField, ParseState
  <2> HIDE DEF n, step
  <2> QED BY <1>1, <1>2, <2>1, RunExists
<1>4. ParseRun(g, s)
  <2>1. ASSUME NEW i \in 1 .. n
        PROVE  step[<<i, g[i - 1]>>] = Read(g[i - 1], s[i])
    <3>1. i - 1 \in 0 .. n
      BY <1>1
    <3>2. g[i - 1] \in ParseState
      BY <1>3, <3>1
    <3> QED BY <3>2
  <2>2. \A i \in 0 .. n : (IF i = 0 THEN NoField ELSE step[<<i, g[i - 1]>>])
                          = (IF i = 0 THEN NoField ELSE Read(g[i - 1], s[i]))
    <3> SUFFICES ASSUME NEW i \in 0 .. n, i # 0
                 PROVE  step[<<i, g[i - 1]>>] = Read(g[i - 1], s[i])
      OBVIOUS
    <3>1. i \in 1 .. n
      BY <1>1
    <3> HIDE DEF step, n
    <3> QED BY <2>1, <3>1
  <2> HIDE DEF step
  <2>3. IsRun(g, n, NoField, step)
    BY <1>3
  <2>4. g = [i \in 0 .. n |-> IF i = 0 THEN NoField ELSE Read(g[i - 1], s[i])]
    <3> HIDE DEF n
    <3> QED BY <2>2, <2>3 DEF IsRun
  <2> QED BY <2>4 DEF ParseRun
<1>5. Parse(s) = (CHOOSE f : ParseRun(f, s))[n]
  BY DEF Parse, Pass, ParseRun
<1>6. PICK f : ParseRun(f, s) /\ Parse(s) = f[n]
  BY <1>4, <1>5
<1> HIDE DEF step
<1>7. f[0] = NoField /\ \A i \in 1 .. n : f[i] = Read(f[i - 1], s[i])
  BY <1>1, <1>6 DEF ParseRun
<1>8. g[0] = NoField /\ \A i \in 1 .. n : g[i] = Read(g[i - 1], s[i])
  BY <1>1, <1>4 DEF ParseRun
<1> HIDE DEF n
<1>9. Alike(f, g, n) /\ n \in Nat
  BY <1>1, <1>7, <1>8 DEF Alike
<1>10. Agree(f, g, n)
  BY <1>9, SameRuns
<1>11. f[n] \in ParseState
  BY <1>3, <1>9, <1>10 DEF Agree
<1> QED BY <1>6, <1>7, <1>11 DEF n

\* Taking fields apart goes item by item.
LEMMA ParseFacts ==
  /\ Parse(<<>>) = Between(<<>>)
  /\ \A s \in Seq(Item) : Parse(s) \in ParseState
  /\ \A s \in Seq(Item), x \in Item : Parse(Append(s, x)) = Read(Parse(s), x)
<1>1. Parse(<<>>) = Between(<<>>)
  <2>1. <<>> \in Seq(Item) /\ Len(<<>>) = 0
    OBVIOUS
  <2>2. ASSUME NEW u \in Seq(Item), Len(u) = 0
        PROVE  Parse(u) = NoField
    <3>1. \E f : /\ Parse(u) = f[Len(u)] /\ f[0] = NoField /\ Parse(u) \in ParseState
                /\ \A i \in 1 .. Len(u) : f[i] = Read(f[i - 1], u[i])
      BY ParseRunIs
    <3> QED BY <2>2, <3>1
  <2>3. NoField = Between(<<>>)
    BY DEF NoField, Between, At
  <2> QED BY <2>1, <2>2, <2>3
<1>2. \A s \in Seq(Item) : Parse(s) \in ParseState
  BY ParseRunIs
<1>3. ASSUME NEW s \in Seq(Item), NEW x \in Item
      PROVE  Parse(Append(s, x)) = Read(Parse(s), x)
  <2> DEFINE n == Len(s)
             t == Append(s, x)
  <2>1. /\ n \in Nat /\ t \in Seq(Item) /\ Len(t) = n + 1 /\ t[n + 1] = x
        /\ \A i \in 1 .. n : t[i] = s[i]
    BY AppendIs
  <2>2. PICK f : /\ Parse(s) = f[n] /\ f[0] = NoField
                 /\ \A i \in 1 .. n : f[i] = Read(f[i - 1], s[i])
    BY ParseRunIs
  <2>3. PICK g : /\ Parse(t) = g[n + 1] /\ g[0] = NoField
                 /\ \A i \in 1 .. n + 1 : g[i] = Read(g[i - 1], t[i])
    <3>1. \E g : /\ Parse(t) = g[Len(t)] /\ g[0] = NoField /\ Parse(t) \in ParseState
                 /\ \A i \in 1 .. Len(t) : g[i] = Read(g[i - 1], t[i])
      <4> HIDE DEF t
      <4>1. t \in Seq(Item)
        BY <2>1
      <4> QED BY <4>1, ParseRunIs
    <3> QED BY <2>1, <3>1
  <2> HIDE DEF n, t
  <2>4. Alike(f, g, n) /\ n \in Nat
    BY <2>1, <2>2, <2>3 DEF Alike
  <2>5. Agree(f, g, n)
    BY <2>4, SameRuns
  <2>6. g[n + 1] = Read(g[n], x)
    <3>1. n + 1 \in 1 .. n + 1 /\ (n + 1) - 1 = n
      BY <2>1
    <3> QED BY <2>1, <2>3, <3>1
  <2>7. f[n] = g[n]
    BY <2>4, <2>5 DEF Agree
  <2> QED BY <2>2, <2>3, <2>6, <2>7 DEF t
<1> QED BY <1>1, <1>2, <1>3

-----------------------------------------------------------------------------
(* A field that is written is read as it was written.                      *)

\* What one byte and what two can say.
Octet(n) == n \in Nat /\ n <= 255

Word(n) == n \in Nat /\ n <= 65535

\* Only a value is closed, when it is whole.
LEMMA NotClosed ==
  ASSUME NEW tag, NEW need, NEW more, NEW value, NEW fields
  PROVE  /\ Close(At("length", tag, need, more, value, fields)) = At("length", tag, need, more, value, fields)
         /\ Close(At("more", tag, need, more, value, fields)) = At("more", tag, need, more, value, fields)
BY DEF Close, At

\* A value of which something is missing stays open.
LEMMA NotYetClosed ==
  ASSUME NEW tag, NEW need, need # 0, NEW more, NEW value, NEW fields
  PROVE  Close(At("value", tag, need, more, value, fields)) = At("value", tag, need, more, value, fields)
BY DEF Close, At

\* A value of which nothing is missing is a field.
LEMMA Closing ==
  ASSUME NEW tag, NEW more, NEW value, NEW fields
  PROVE  Close(At("value", tag, 0, more, value, fields))
           = Between(Append(fields, [tag |-> tag, value |-> value]))
BY DEF Close, At, Between, NoField

\* Two and three items.
LEMMA TwoItems ==
  ASSUME NEW x \in Item, NEW y \in Item
  PROVE  /\ <<x>> \in Seq(Item) /\ <<y>> \in Seq(Item) /\ <<x, y>> \in Seq(Item)
         /\ <<x, y>> = <<x>> \o <<y>> /\ Len(<<x, y>>) = 2 /\ Bytes(<<x, y>>) = Size(x) + Size(y)
<1>1. <<x, y>> = <<x>> \o <<y>>
  <2>1. <<x, y>> = Append(<<x>>, y) /\ <<x>> \in Seq(Item)
    OBVIOUS
  <2> QED BY <2>1, AppendIsConcat
<1>2. /\ Bytes(<<x>>) = Size(x) /\ Bytes(<<y>>) = Size(y) /\ <<x>> \in Seq(Item) /\ <<y>> \in Seq(Item)
  BY BytesOne
<1>3. <<x>> \o <<y>> \in Seq(Item) /\ Bytes(<<x>> \o <<y>>) = Size(x) + Size(y)
  BY <1>2, BytesConcat
<1>4. Len(<<x, y>>) = 2
  OBVIOUS
<1> QED BY <1>1, <1>2, <1>3, <1>4

\* Three items are three sequences of one item, joined.
LEMMA ThreeItems ==
  ASSUME NEW x \in Item, NEW y \in Item, NEW z \in Item
  PROVE  /\ <<x>> \in Seq(Item) /\ <<y>> \in Seq(Item) /\ <<z>> \in Seq(Item)
         /\ <<x, y, z>> \in Seq(Item) /\ <<x, y, z>> = (<<x>> \o <<y>>) \o <<z>>
         /\ Len(<<x, y, z>>) = 3 /\ Bytes(<<x, y, z>>) = Size(x) + Size(y) + Size(z)
<1>1. /\ <<x, y>> = <<x>> \o <<y>> /\ <<x, y>> \in Seq(Item) /\ <<x>> \in Seq(Item)
      /\ <<y>> \in Seq(Item) /\ Bytes(<<x, y>>) = Size(x) + Size(y)
  BY TwoItems
<1>2. <<x, y, z>> = <<x, y>> \o <<z>>
  <2>1. <<x, y, z>> = Append(<<x, y>>, z) /\ <<x, y>> \in Seq(Item)
    OBVIOUS
  <2> QED BY <2>1, AppendIsConcat
<1>3. Bytes(<<z>>) = Size(z) /\ <<z>> \in Seq(Item)
  BY BytesOne
<1>4. <<x, y>> \o <<z>> \in Seq(Item) /\ Bytes(<<x, y>> \o <<z>>) = Bytes(<<x, y>>) + Bytes(<<z>>)
  BY <1>1, <1>3, BytesConcat
<1>5. <<x, y, z>> \in Seq(Item) /\ Bytes(<<x, y, z>>) = Size(x) + Size(y) + Size(z)
  BY <1>1, <1>2, <1>3, <1>4
<1>6. Len(<<x, y, z>>) = 3
  OBVIOUS
<1>7. <<x, y, z>> = (<<x>> \o <<y>>) \o <<z>>
  BY <1>1, <1>2
<1> QED BY <1>1, <1>3, <1>5, <1>6, <1>7

\* One more byte.
LEMMA OneMore ==
  ASSUME NEW s \in Seq(Item), NEW b, Octet(b)
  PROVE  /\ s \o <<Byte(b)>> \in Seq(Item) /\ ReadAs(Byte(b), b)
         /\ Parse(s \o <<Byte(b)>>) = Read(Parse(s), Byte(b))
<1> DEFINE x == Byte(b)
           t == s \o <<x>>
<1>1. x \in Item /\ "byte" \in DOMAIN x /\ x.byte = b
  <2>1. b \in Nat /\ b % 256 = b
    BY SMT DEF Octet
  <2> QED BY <2>1, ByteFacts, PlainIsItem
<1> HIDE DEF x
<1>2. ReadAs(x, b)
  BY <1>1 DEF ReadAs
<1>3. t = Append(s, x) /\ t \in Seq(Item)
  BY <1>1, AppendIsConcat
<1>4. Parse(t) = Read(Parse(s), x)
  BY <1>1, <1>3, ParseFacts
<1> QED BY <1>2, <1>3, <1>4 DEF x, t

\* What one more byte makes of what was read, as a tag and as a length.
LEMMA ReadsByte ==
  ASSUME NEW s \in Seq(Item), NEW b, Octet(b), NEW tag, NEW need, NEW more, NEW value, NEW fields
  PROVE  /\ s \o <<Byte(b)>> \in Seq(Item)
         /\ Parse(s) = At("tag", tag, need, more, value, fields)
              => Parse(s \o <<Byte(b)>>) = At("length", b, need, more, value, fields)
         /\ Parse(s) = At("length", tag, need, more, value, fields) =>
              /\ b <= 127 => Parse(s \o <<Byte(b)>>) = Close(At("value", tag, b, more, value, fields))
              /\ b = 129 => Parse(s \o <<Byte(b)>>) = At("more", tag, need, 1, value, fields)
              /\ b = 130 => Parse(s \o <<Byte(b)>>) = At("more", tag, need, 2, value, fields)
         /\ Parse(s) = At("more", tag, need, 2, value, fields)
              => Parse(s \o <<Byte(b)>>) = At("more", tag, need * 256 + b, 1, value, fields)
         /\ Parse(s) = At("more", tag, need, 1, value, fields)
              => Parse(s \o <<Byte(b)>>) = Close(At("value", tag, need * 256 + b, 0, value, fields))
<1> DEFINE x == Byte(b)
           t == s \o <<x>>
<1>1. t \in Seq(Item) /\ Parse(t) = Read(Parse(s), x) /\ ReadAs(x, b)
  BY OneMore
<1>2. ReadAs(x, b)
  BY <1>1
<1>3. t \in Seq(Item)
  BY <1>1
<1>4. Parse(t) = Read(Parse(s), x)
  BY <1>1
<1> HIDE DEF x
<1> HIDE DEF t
<1>5. ASSUME Parse(s) = At("tag", tag, need, more, value, fields)
      PROVE  Parse(t) = At("length", b, need, more, value, fields)
  <2>1. Parse(t) = Close(At("length", b, need, more, value, fields))
    BY <1>2, <1>4, <1>5, ReadsTag
  <2> QED BY <2>1, NotClosed
<1>6. ASSUME Parse(s) = At("length", tag, need, more, value, fields)
      PROVE  /\ b <= 127 => Parse(t) = Close(At("value", tag, b, more, value, fields))
             /\ b = 129 => Parse(t) = At("more", tag, need, 1, value, fields)
             /\ b = 130 => Parse(t) = At("more", tag, need, 2, value, fields)
  <2>1. Parse(t) = Close(IF b <= 127 THEN At("value", tag, b, more, value, fields)
                         ELSE IF b = 129 THEN At("more", tag, need, 1, value, fields)
                         ELSE IF b = 130 THEN At("more", tag, need, 2, value, fields)
                         ELSE At("garbled", tag, need, more, value, fields))
    BY <1>2, <1>4, <1>6, ReadsLength
  <2>2. /\ b <= 127 => Parse(t) = Close(At("value", tag, b, more, value, fields))
        /\ b = 129 => Parse(t) = Close(At("more", tag, need, 1, value, fields))
        /\ b = 130 => Parse(t) = Close(At("more", tag, need, 2, value, fields))
    BY <2>1
  <2> QED BY <2>2, NotClosed
<1>7. ASSUME NEW m \in {1, 2}, Parse(s) = At("more", tag, need, m, value, fields)
      PROVE  Parse(t) = Close(At(IF m = 1 THEN "value" ELSE "more", tag, need * 256 + b, m - 1, value, fields))
  BY <1>2, <1>4, <1>7, ReadsMore
<1>8. ASSUME Parse(s) = At("more", tag, need, 2, value, fields)
      PROVE  Parse(t) = At("more", tag, need * 256 + b, 1, value, fields)
  <2>1. Parse(t) = Close(At("more", tag, need * 256 + b, 1, value, fields))
    <3>1. (IF 2 = 1 THEN "value" ELSE "more") = "more" /\ 2 - 1 = 1 /\ 2 \in {1, 2}
      OBVIOUS
    <3> QED BY <1>7, <1>8, <3>1
  <2> QED BY <2>1, NotClosed
<1>9. ASSUME Parse(s) = At("more", tag, need, 1, value, fields)
      PROVE  Parse(t) = Close(At("value", tag, need * 256 + b, 0, value, fields))
  <2>1. (IF 1 = 1 THEN "value" ELSE "more") = "value" /\ 1 - 1 = 0 /\ 1 \in {1, 2}
    OBVIOUS
  <2> QED BY <1>7, <1>9, <2>1
<1> QED BY <1>3, <1>5, <1>6, <1>8, <1>9 DEF t, x

\* What one more byte makes of a length of which only that byte is missing.
LEMMA MoreRead ==
  ASSUME NEW s \in Seq(Item), NEW b, Octet(b), NEW tag, NEW need, NEW value, NEW fields,
         Parse(s) = At("more", tag, need, 1, value, fields)
  PROVE  /\ s \o <<Byte(b)>> \in Seq(Item)
         /\ Parse(s \o <<Byte(b)>>) = Close(At("value", tag, need * 256 + b, 0, value, fields))
<1> DEFINE x == Byte(b)
           t == s \o <<x>>
<1>1. t \in Seq(Item) /\ Parse(t) = Read(Parse(s), x) /\ ReadAs(x, b)
  BY OneMore
<1> HIDE DEF x, t
<1>2. Parse(t) = Close(At(IF 1 = 1 THEN "value" ELSE "more", tag, need * 256 + b, 1 - 1, value, fields))
  BY <1>1, ReadsMore
<1>3. (IF 1 = 1 THEN "value" ELSE "more") = "value" /\ 1 - 1 = 0
  OBVIOUS
<1>4. Parse(t) = Close(At("value", tag, need * 256 + b, 0, value, fields))
  BY <1>2, <1>3
<1> QED BY <1>1, <1>4 DEF x, t

\* What division and remainder are.
LEMMA Quotients ==
  ASSUME NEW a \in Nat, NEW b \in Nat, b > 0
  PROVE  /\ a \div b \in Nat /\ a % b \in Nat /\ a % b < b
         /\ a = b * (a \div b) + (a % b) /\ a % b <= a
OBVIOUS

\* A length of two bytes is its high byte and its low byte.
LEMMA LengthParts ==
  ASSUME NEW n, Word(n)
  PROVE  \E p, q : Octet(p) /\ Octet(q) /\ n = 256 * p + q /\ p = n \div 256 /\ Byte(n) = Byte(q)
<1>1. PICK q \in Nat : q = n % 256 /\ q < 256 /\ q <= n /\ n = 256 * (n \div 256) + q
  BY Quotients DEF Word
<1>2. PICK p \in Nat : p = n \div 256
  BY Quotients DEF Word
<1>3. n = 256 * p + q
  BY <1>1, <1>2
<1>4. Octet(p) /\ Octet(q)
  BY <1>1, <1>3, SMT DEF Word, Octet
<1>5. q % 256 = q
  BY <1>1, SMT
<1>6. Byte(n) = Byte(q)
  BY <1>1, <1>5 DEF Byte
<1> QED BY <1>2, <1>3, <1>4, <1>6

\* The forms a length takes.
LEMMA LengthForms ==
  ASSUME NEW n, Word(n)
  PROVE  /\ n <= 127 => Octet(n) /\ LengthBytes(n) = <<Byte(n)>>
         /\ ~ (n <= 127) /\ n <= 255 => Octet(n) /\ LengthBytes(n) = <<Byte(129), Byte(n)>>
         /\ ~ (n <= 127) /\ ~ (n <= 255) => \E p, q :
              /\ Octet(p) /\ Octet(q) /\ n = 256 * p + q /\ LengthBytes(n) = <<Byte(130), Byte(p), Byte(q)>>
<1>1. CASE n <= 127
  BY <1>1, SMT DEF LengthBytes, Octet, Word
<1>2. CASE ~ (n <= 127) /\ n <= 255
  BY <1>2, SMT DEF LengthBytes, Octet, Word
<1>3. CASE ~ (n <= 127) /\ ~ (n <= 255)
  <2>1. PICK p, q : Octet(p) /\ Octet(q) /\ n = 256 * p + q /\ p = n \div 256 /\ Byte(n) = Byte(q)
    BY LengthParts
  <2>2. LengthBytes(n) = <<Byte(130), Byte(n \div 256), Byte(n)>>
    BY <1>3 DEF LengthBytes
  <2>3. LengthBytes(n) = <<Byte(130), Byte(p), Byte(q)>>
    BY <2>1, <2>2
  <2> QED BY <1>3, <2>1, <2>3
<1> QED BY <1>1, <1>2, <1>3

\* A byte is an item of size 1.
LEMMA OctetIsItem == ASSUME NEW m, Octet(m) PROVE Size(Byte(m)) = 1 /\ Byte(m) \in Item
BY ByteFacts, PlainIsItem DEF Octet

\* The two bytes that announce a longer length are bytes.
LEMMA SomeOctets == Octet(129) /\ Octet(130)
BY SMT DEF Octet

\* A length is one to three bytes.
LEMMA LengthIs ==
  ASSUME NEW n, Word(n)
  PROVE  LengthBytes(n) \in Seq(Item) /\ Len(LengthBytes(n)) \in 1 .. 3
         /\ Bytes(LengthBytes(n)) = Len(LengthBytes(n))
<1>1. CASE n <= 127
  <2>1. LengthBytes(n) = <<Byte(n)>> /\ Octet(n)
    BY <1>1, LengthForms
  <2>2. Size(Byte(n)) = 1 /\ Byte(n) \in Item
    BY <2>1, OctetIsItem
  <2>3. Len(<<Byte(n)>>) = 1
    OBVIOUS
  <2> QED BY <2>1, <2>2, <2>3, BytesOne
<1>2. CASE ~ (n <= 127) /\ n <= 255
  <2>1. LengthBytes(n) = <<Byte(129), Byte(n)>> /\ Octet(n)
    BY <1>2, LengthForms
  <2>2. Size(Byte(129)) = 1 /\ Byte(129) \in Item /\ Size(Byte(n)) = 1 /\ Byte(n) \in Item
    BY <2>1, OctetIsItem, SomeOctets
  <2>3. /\ <<Byte(129), Byte(n)>> \in Seq(Item) /\ Len(<<Byte(129), Byte(n)>>) = 2
        /\ Bytes(<<Byte(129), Byte(n)>>) = Size(Byte(129)) + Size(Byte(n))
    BY <2>2, TwoItems
  <2> QED BY <2>1, <2>2, <2>3
<1>3. CASE ~ (n <= 127) /\ ~ (n <= 255)
  <2>1. PICK p, q : Octet(p) /\ Octet(q) /\ LengthBytes(n) = <<Byte(130), Byte(p), Byte(q)>>
    BY <1>3, LengthForms
  <2>2. /\ Byte(130) \in Item /\ Byte(p) \in Item /\ Byte(q) \in Item
        /\ Size(Byte(130)) = 1 /\ Size(Byte(p)) = 1 /\ Size(Byte(q)) = 1
    BY <2>1, OctetIsItem, SomeOctets
  <2>3. /\ <<Byte(130), Byte(p), Byte(q)>> \in Seq(Item) /\ Len(<<Byte(130), Byte(p), Byte(q)>>) = 3
        /\ Bytes(<<Byte(130), Byte(p), Byte(q)>>) = Size(Byte(130)) + Size(Byte(p)) + Size(Byte(q))
    <3> DEFINE x == Byte(130)
               y == Byte(p)
               z == Byte(q)
    <3>1. x \in Item /\ y \in Item /\ z \in Item
      BY <2>2
    <3> HIDE DEF x, y, z
    <3>2. /\ <<x, y, z>> \in Seq(Item) /\ Len(<<x, y, z>>) = 3
          /\ Bytes(<<x, y, z>>) = Size(x) + Size(y) + Size(z)
      BY <3>1, ThreeItems
    <3> QED BY <3>2 DEF x, y, z
  <2> QED BY <2>1, <2>2, <2>3
<1> QED BY <1>1, <1>2, <1>3

\* Tag and length are read for what they are.
LEMMA HeaderRead ==
  ASSUME NEW s \in Seq(Item), NEW fields, Parse(s) = Between(fields),
         NEW t, Octet(t), NEW n, Word(n)
  PROVE  /\ s \o <<Byte(t)>> \in Seq(Item) /\ (s \o <<Byte(t)>>) \o LengthBytes(n) \in Seq(Item)
         /\ Parse((s \o <<Byte(t)>>) \o LengthBytes(n)) = Close(At("value", t, n, 0, <<>>, fields))
<1> DEFINE h == s \o <<Byte(t)>>
<1>1. h \in Seq(Item) /\ Parse(h) = At("length", t, 0, 0, <<>>, fields)
  <2>1. Parse(s) = At("tag", 0, 0, 0, <<>>, fields)
    BY DEF Between
  <2> QED BY <2>1, ReadsByte
<1> HIDE DEF h
<1>2. /\ h \o LengthBytes(n) \in Seq(Item)
      /\ Parse(h \o LengthBytes(n)) = Close(At("value", t, n, 0, <<>>, fields))
  <2>1. CASE n <= 127
    <3>1. LengthBytes(n) = <<Byte(n)>> /\ Octet(n)
      BY <2>1, LengthForms
    <3>2. /\ h \o <<Byte(n)>> \in Seq(Item)
          /\ Parse(h \o <<Byte(n)>>) = Close(At("value", t, n, 0, <<>>, fields))
      BY <1>1, <2>1, <3>1, ReadsByte
    <3> QED BY <3>1, <3>2
  <2>2. CASE ~ (n <= 127) /\ n <= 255
    <3> DEFINE g == h \o <<Byte(129)>>
    <3>1. LengthBytes(n) = <<Byte(129), Byte(n)>> /\ Octet(n)
      BY <2>2, LengthForms
    <3>2. Byte(129) \in Item /\ Byte(n) \in Item
      BY <3>1, OctetIsItem, SomeOctets
    <3>3. /\ LengthBytes(n) = <<Byte(129)>> \o <<Byte(n)>>
          /\ <<Byte(129)>> \in Seq(Item) /\ <<Byte(n)>> \in Seq(Item)
      BY <3>1, <3>2, TwoItems
    <3>4. h \o LengthBytes(n) = g \o <<Byte(n)>>
      BY <1>1, <3>3, ConcatAssociative
    <3>5. g \in Seq(Item) /\ Parse(g) = At("more", t, 0, 1, <<>>, fields)
      <4>1. Octet(129)
        BY SomeOctets
      <4> QED BY <1>1, <4>1, ReadsByte
    <3> HIDE DEF g
    <3>6. /\ g \o <<Byte(n)>> \in Seq(Item)
          /\ Parse(g \o <<Byte(n)>>) = Close(At("value", t, 0 * 256 + n, 0, <<>>, fields))
      BY <3>1, <3>5, ReadsByte
    <3>7. 0 * 256 + n = n
      BY DEF Word
    <3> QED BY <3>4, <3>6, <3>7
  <2>3. CASE ~ (n <= 127) /\ ~ (n <= 255)
    <3>1. PICK p, q : Octet(p) /\ Octet(q) /\ n = 256 * p + q /\ LengthBytes(n) = <<Byte(130), Byte(p), Byte(q)>>
      BY <2>3, LengthForms
    <3> DEFINE g == h \o <<Byte(130)>>
               f == g \o <<Byte(p)>>
    <3>2. Byte(130) \in Item /\ Byte(p) \in Item /\ Byte(q) \in Item
      BY <3>1, OctetIsItem, SomeOctets
    <3>3. /\ LengthBytes(n) = (<<Byte(130)>> \o <<Byte(p)>>) \o <<Byte(q)>>
          /\ <<Byte(130)>> \in Seq(Item) /\ <<Byte(p)>> \in Seq(Item) /\ <<Byte(q)>> \in Seq(Item)
      BY <3>1, <3>2, ThreeItems
    <3>4. h \o LengthBytes(n) = f \o <<Byte(q)>>
      <4>1. <<Byte(130)>> \o <<Byte(p)>> \in Seq(Item)
        BY <3>3, ConcatProperties
      <4>2. h \o LengthBytes(n) = (h \o (<<Byte(130)>> \o <<Byte(p)>>)) \o <<Byte(q)>>
        BY <1>1, <3>3, <4>1, ConcatAssociative
      <4>3. h \o (<<Byte(130)>> \o <<Byte(p)>>) = f
        BY <1>1, <3>3, ConcatAssociative
      <4> QED BY <4>2, <4>3
    <3>5. g \in Seq(Item) /\ Parse(g) = At("more", t, 0, 2, <<>>, fields)
      <4>1. Octet(130)
        BY SomeOctets
      <4> QED BY <1>1, <4>1, ReadsByte
    <3> HIDE DEF g
    <3>6. f \in Seq(Item) /\ Parse(f) = At("more", t, p, 1, <<>>, fields)
      <4>1. Parse(f) = At("more", t, 0 * 256 + p, 1, <<>>, fields) /\ f \in Seq(Item)
        <5>1. Octet(p)
          BY <3>1
        <5>2. /\ g \o <<Byte(p)>> \in Seq(Item)
              /\ Parse(g \o <<Byte(p)>>) = At("more", t, 0 * 256 + p, 1, <<>>, fields)
          BY <3>5, <5>1, ReadsByte
        <5> QED BY <5>2
      <4>2. 0 * 256 + p = p
        <5>1. p \in Nat
          BY <3>1 DEF Octet
        <5> QED BY <5>1
      <4> QED BY <4>1, <4>2
    <3> HIDE DEF f
    <3>7. /\ f \o <<Byte(q)>> \in Seq(Item)
          /\ Parse(f \o <<Byte(q)>>) = Close(At("value", t, p * 256 + q, 0, <<>>, fields))
      <4>1. Octet(q)
        BY <3>1
      <4> QED BY <3>6, <4>1, MoreRead
    <3>8. p * 256 + q = n
      <4>1. p \in Nat /\ q \in Nat /\ n = 256 * p + q
        BY <3>1 DEF Octet
      <4> QED BY <4>1
    <3> QED BY <3>4, <3>7, <3>8
  <2> QED BY <2>1, <2>2, <2>3
<1> QED BY <1>1, <1>2 DEF h

\* The value is read to its end and no further.
LEMMA ValueRead ==
  ASSUME NEW s \in Seq(Item), NEW fields, NEW t, NEW v \in Seq(Item),
         Parse(s) = Close(At("value", t, Bytes(v), 0, <<>>, fields))
  PROVE  s \o v \in Seq(Item)
         /\ Parse(s \o v) = Between(Append(fields, [tag |-> t, value |-> v]))
<1> DEFINE n == Bytes(v)
           Good(u) == Parse(s \o u) = Close(At("value", t, n - Bytes(u), 0, u, fields))
           P == {u \in Seq(Item) : Bytes(u) <= n => Good(u)}
<1>1. n \in Nat
  BY BytesFacts
<1>2. <<>> \in P
  <2>1. <<>> \in Seq(Item) /\ s \o <<>> = s /\ n - 0 = n
    BY <1>1, ConcatAppend
  <2> QED BY <2>1, BytesFacts
<1>3. ASSUME NEW u \in P, NEW x \in Item
      PROVE  Append(u, x) \in P
  <2> DEFINE k == Bytes(u)
             z == Size(x)
             need == n - k
  <2>1. /\ u \in Seq(Item) /\ Append(u, x) \in Seq(Item) /\ s \o u \in Seq(Item)
        /\ k \in Nat /\ z \in Nat /\ z > 0 /\ Bytes(Append(u, x)) = k + z
    BY BytesFacts, ItemFacts
  <2> SUFFICES ASSUME k + z <= n PROVE Good(Append(u, x))
    BY <2>1
  <2>2. Good(u)
    BY <1>1, <2>1
  <2>3. need \in Int /\ need # 0 /\ z <= need /\ need - z = n - (k + z)
    BY <1>1, <2>1
  <2>4. Parse(s \o u) = At("value", t, need, 0, u, fields)
    <3> HIDE DEF need
    <3> QED BY <2>2, <2>3, NotYetClosed DEF need
  <2>5. s \o Append(u, x) = Append(s \o u, x)
    BY SMTT(30), <2>1, ConcatAppend
  <2>6. Parse(Append(s \o u, x)) = Read(Parse(s \o u), x)
    BY <2>1, ParseFacts
  <2> HIDE DEF need
  <2>7. Read(At("value", t, need, 0, u, fields), x) = Close(At("value", t, need - z, 0, Append(u, x), fields))
    <3> HIDE DEF k
    <3>1. PICK b : ReadAs(x, b)
      BY DEF ReadAs
    <3> QED BY <2>3, <3>1, ReadsValue
  <2> QED BY <2>1, <2>3, <2>4, <2>5, <2>6, <2>7
<1> HIDE DEF P
<1>4. v \in P
  <2>1. P \in SUBSET Seq(Item)
    BY DEF P
  <2> QED BY <1>2, <1>3, <2>1, SeqClimb
<1>5. Good(v)
  BY <1>1, <1>4 DEF P
<1>6. n - Bytes(v) = 0
  BY <1>1
<1> QED BY <1>5, <1>6, Closing, ConcatProperties

\* So a field is read as it was written.
LEMMA FieldRead ==
  ASSUME NEW s \in Seq(Item), NEW fields, Parse(s) = Between(fields),
         NEW t, Octet(t), NEW v \in Seq(Item), Word(Bytes(v))
  PROVE  /\ <<Byte(t)>> \o LengthBytes(Bytes(v)) \o v \in Seq(Item)
         /\ s \o (<<Byte(t)>> \o LengthBytes(Bytes(v)) \o v) \in Seq(Item)
         /\ Parse(s \o (<<Byte(t)>> \o LengthBytes(Bytes(v)) \o v))
              = Between(Append(fields, [tag |-> t, value |-> v]))
<1> DEFINE b == <<Byte(t)>>
           l == LengthBytes(Bytes(v))
<1>1. /\ s \o b \in Seq(Item) /\ (s \o b) \o l \in Seq(Item)
      /\ Parse((s \o b) \o l) = Close(At("value", t, Bytes(v), 0, <<>>, fields))
  BY HeaderRead
<1>2. b \in Seq(Item) /\ l \in Seq(Item)
  <2>1. Byte(t) \in Item
    BY OctetIsItem
  <2>2. b \in Seq(Item)
    BY <2>1, BytesOne
  <2> QED BY <2>2, LengthIs
<1> HIDE DEF b, l
<1>3. /\ ((s \o b) \o l) \o v \in Seq(Item)
      /\ Parse(((s \o b) \o l) \o v) = Between(Append(fields, [tag |-> t, value |-> v]))
  <2> DEFINE h == (s \o b) \o l
  <2>1. h \in Seq(Item) /\ Parse(h) = Close(At("value", t, Bytes(v), 0, <<>>, fields))
    BY <1>1
  <2> HIDE DEF h
  <2>2. h \o v \in Seq(Item) /\ Parse(h \o v) = Between(Append(fields, [tag |-> t, value |-> v]))
    BY <2>1, ValueRead
  <2> QED BY <2>2 DEF h
<1>4. b \o l \in Seq(Item) /\ (b \o l) \o v \in Seq(Item)
  BY <1>2, ConcatProperties
<1>5. s \o ((b \o l) \o v) = (s \o (b \o l)) \o v
  BY SMTT(30), <1>2, <1>4, ConcatAssociative
<1>6. s \o (b \o l) = (s \o b) \o l
  BY SMTT(30), <1>2, ConcatAssociative
<1> QED BY <1>3, <1>4, <1>5, <1>6 DEF b, l

-----------------------------------------------------------------------------
(* The case of a command.                                                  *)

\* Of three sequences in a row, the middle one, and where the items of the first are.
LEMMA Middle ==
  ASSUME NEW S, NEW a \in Seq(S), NEW b \in Seq(S), NEW c \in Seq(S), NEW s, s = (a \o b) \o c
  PROVE  /\ s \in Seq(S) /\ Len(s) = Len(a) + Len(b) + Len(c)
         /\ SubSeq(s, Len(a) + 1, Len(s) - Len(c)) = b
         /\ SubSeq(s, 1, Len(a)) = a
         /\ \A i \in 1 .. Len(a) : s[i] = a[i]
         /\ \A i \in 1 .. Len(b) : s[Len(a) + i] = b[i]
<1> DEFINE t == (a \o b) \o c
           l == Len(a)
           m == Len(b)
           n == Len(c)
<1>1. l \in Nat /\ m \in Nat /\ n \in Nat
  OBVIOUS
<1>2. /\ a \o b \in Seq(S) /\ Len(a \o b) = l + m
      /\ \A i \in 1 .. l + m : (a \o b)[i] = IF i <= l THEN a[i] ELSE b[i - l]
  BY ConcatProperties
<1>3. /\ t \in Seq(S) /\ Len(t) = l + m + n
      /\ \A i \in 1 .. l + m + n : t[i] = IF i <= l + m THEN (a \o b)[i] ELSE c[i - (l + m)]
  BY <1>2, ConcatProperties
<1>0. s = t
  OBVIOUS
<1> HIDE DEF t, l, m, n
<1>4. \A i \in 1 .. l : t[i] = a[i]
  <2> TAKE i \in 1 .. l
  <2>1. i \in 1 .. l + m /\ i \in 1 .. l + m + n /\ i <= l + m /\ i <= l
    BY <1>1
  <2> QED BY <1>2, <1>3, <2>1
<1>5. \A i \in 1 .. m : t[l + i] = b[i]
  <2> TAKE i \in 1 .. m
  <2>1. l + i \in 1 .. l + m /\ l + i \in 1 .. l + m + n /\ l + i <= l + m /\ ~(l + i <= l) /\ (l + i) - l = i
    BY <1>1
  <2> QED BY <1>2, <1>3, <2>1
<1>6. SubSeq(t, 1, l) = a
  <2>1. \A i \in 1 .. l : t[i] \in S
    BY <1>4 DEF l
  <2>2. /\ SubSeq(t, 1, l) \in Seq(S) /\ Len(SubSeq(t, 1, l)) = IF 1 <= l THEN l - 1 + 1 ELSE 0
        /\ \A i \in 1 .. l - 1 + 1 : SubSeq(t, 1, l)[i] = t[1 + i - 1]
    BY <1>1, <2>1, SubSeqProperties
  <2>3. Len(SubSeq(t, 1, l)) = l
    BY <1>1, <2>2
  <2>4. ASSUME NEW i \in 1 .. l PROVE SubSeq(t, 1, l)[i] = a[i]
    <3>1. i \in 1 .. l - 1 + 1 /\ 1 + i - 1 = i
      BY <1>1
    <3> QED BY <1>4, <2>2, <3>1
  <2> QED BY <2>2, <2>3, <2>4, SeqEqual DEF l
<1>7. SubSeq(t, l + 1, l + m) = b
  <2>1. \A i \in l + 1 .. l + m : t[i] \in S
    <3> TAKE i \in l + 1 .. l + m
    <3>1. i - l \in 1 .. m /\ l + (i - l) = i
      BY <1>1
    <3>2. t[i] = b[i - l] /\ b[i - l] \in S
      BY <1>5, <3>1 DEF m
    <3> QED BY <3>2
  <2> DEFINE w == SubSeq(t, l + 1, l + m)
  <2>2. /\ w \in Seq(S) /\ Len(w) = IF l + 1 <= l + m THEN (l + m) - (l + 1) + 1 ELSE 0
        /\ \A i \in 1 .. (l + m) - (l + 1) + 1 : w[i] = t[(l + 1) + i - 1]
    BY <1>1, <2>1, SubSeqProperties
  <2> HIDE DEF w
  <2>3. Len(w) = m
    BY <1>1, <2>2
  <2>4. ASSUME NEW i \in 1 .. m PROVE w[i] = b[i]
    <3>1. i \in 1 .. (l + m) - (l + 1) + 1 /\ (l + 1) + i - 1 = l + i
      BY <1>1
    <3> QED BY <1>5, <2>2, <3>1
  <2>5. w = b
    BY <2>2, <2>3, <2>4, SeqEqual DEF m
  <2> QED BY <2>5 DEF w
<1>8. Len(t) - n = l + m
  BY <1>1, <1>3
<1>9. /\ t \in Seq(S) /\ Len(t) = Len(a) + Len(b) + Len(c)
      /\ SubSeq(t, Len(a) + 1, Len(t) - Len(c)) = b
      /\ SubSeq(t, 1, Len(a)) = a
      /\ \A i \in 1 .. Len(a) : t[i] = a[i]
      /\ \A i \in 1 .. Len(b) : t[Len(a) + i] = b[i]
  BY <1>3, <1>4, <1>5, <1>6, <1>7, <1>8 DEF l, m, n
<1> QED BY <1>0, <1>9, Zenon

\* The byte at a place, as the SE sees it; what is no byte it takes for 0.
ByteAt(items, i) == IF "byte" \in DOMAIN items[i] THEN items[i].byte ELSE 0

\* The case of a command by its size, its fifth byte and the two behind that.
CaseOf(items, n, five, len) ==
    CASE n < 4                                -> Garbled
      [] n \in {4, 5}                         -> Apdu(items, 5, Len(items) - 4)
      [] n > 5 /\ five # 0 /\ n = 5 + five    -> Apdu(items, 6, 0)
      [] n > 5 /\ five # 0 /\ n = 6 + five    -> Apdu(items, 6, 1)
      [] n > 5 /\ five = 0 /\ n = 7           -> Apdu(items, 5, Len(items) - 4)
      [] n > 7 /\ five = 0 /\ n = 7 + len     -> Apdu(items, 8, 0)
      [] n > 7 /\ five = 0 /\ n = 9 + len     -> Apdu(items, 8, 2)
      [] OTHER                                -> Garbled

\* The case is found by size, fifth byte and the two behind that (smApduGetTxRxCase).
LEMMA CaseIs ==
  ASSUME NEW items
  PROVE  smApduGetTxRxCase(items)
           = CaseOf(items, Bytes(items), ByteAt(items, 5), ByteAt(items, 6) * 256 + ByteAt(items, 7))
BY DEF smApduGetTxRxCase, CaseOf, ByteAt

\* The cases by their numbers.
LEMMA CaseIfShort ==
  ASSUME NEW items, NEW n, NEW five, NEW len, n \in {4, 5}
  PROVE  CaseOf(items, n, five, len) = Apdu(items, 5, Len(items) - 4)
BY SMT DEF CaseOf

\* Case 3 short: what the fifth byte says is all that follows.
LEMMA CaseIfLc ==
  ASSUME NEW items, NEW n \in Nat, NEW five \in Nat, NEW len, n > 5, five # 0, n = 5 + five
  PROVE  CaseOf(items, n, five, len) = Apdu(items, 6, 0)
BY SMT DEF CaseOf

\* Case 2 extended: seven bytes, no data.
LEMMA CaseIfLe ==
  ASSUME NEW items, NEW len
  PROVE  CaseOf(items, 7, 0, len) = Apdu(items, 5, Len(items) - 4)
BY SMT DEF CaseOf

\* Cases 3 and 4 extended: two bytes of length, the data, and two bytes or none behind it.
LEMMA CaseIfExtended ==
  ASSUME NEW items, NEW n \in Nat, NEW len \in Nat, n > 7, len > 0
  PROVE  /\ n = 7 + len => CaseOf(items, n, 0, len) = Apdu(items, 8, 0)
         /\ n = 9 + len => CaseOf(items, n, 0, len) = Apdu(items, 8, 2)
BY SMT DEF CaseOf

\* A header, and a command that was read as header and data.
Four(h) == h \in Seq(Item) /\ Len(h) = 4 /\ Bytes(h) = 4

AsRead(h, d) == [ok |-> TRUE, hdr |-> h, data |-> d]

\* The byte at a place where a byte was written.
LEMMA ByteThere ==
  ASSUME NEW items, NEW i, NEW b, Octet(b), items[i] = Byte(b)
  PROVE  ByteAt(items, i) = b
<1>1. b \in Nat /\ b % 256 = b
  BY SMT DEF Octet
<1>2. "byte" \in DOMAIN Byte(b) /\ Byte(b).byte = b
  BY <1>1, ByteFacts
<1> QED BY <1>2 DEF ByteAt

\* A command without data.
LEMMA NoDataRead ==
  ASSUME NEW h, Four(h)
  PROVE  /\ smApduGetTxRxCase(h) = AsRead(h, <<>>)
         /\ smApduGetTxRxCase(h \o <<Byte(0)>>) = AsRead(h, <<>>)
         /\ smApduGetTxRxCase((h \o <<Byte(0)>>) \o <<Byte(0), Byte(0)>>) = AsRead(h, <<>>)
<1>0. /\ Octet(0) /\ Byte(0) \in Item /\ Size(Byte(0)) = 1
      /\ <<Byte(0)>> \in Seq(Item) /\ Bytes(<<Byte(0)>>) = 1
      /\ <<Byte(0), Byte(0)>> \in Seq(Item) /\ Bytes(<<Byte(0), Byte(0)>>) = 2
  <2>1. Octet(0)
    BY SMT DEF Octet
  <2>2. Byte(0) \in Item /\ Size(Byte(0)) = 1
    BY <2>1, OctetIsItem
  <2>3. <<Byte(0)>> \in Seq(Item) /\ Bytes(<<Byte(0)>>) = 1
    BY <2>2, BytesOne
  <2>4. <<Byte(0), Byte(0)>> \in Seq(Item) /\ Bytes(<<Byte(0), Byte(0)>>) = 2
    <3>1. Bytes(<<Byte(0), Byte(0)>>) = Size(Byte(0)) + Size(Byte(0)) /\ <<Byte(0), Byte(0)>> \in Seq(Item)
      BY <2>2, TwoItems
    <3> QED BY <2>2, <3>1
  <2> QED BY <2>1, <2>2, <2>3, <2>4
<1>a. h \in Seq(Item)
  BY DEF Four
<1>1. <<>> \in Seq(Item) /\ h \in Seq(Item) /\ Len(h) = 4 /\ Bytes(h) = 4
  BY DEF Four
<1>2. ASSUME NEW c \in Seq(Item)
      PROVE  /\ h \o c \in Seq(Item) /\ Bytes(h \o c) = 4 + Bytes(c)
             /\ Apdu(h \o c, 5, Len(h \o c) - 4) = AsRead(h, <<>>)
  <2> DEFINE s == h \o c
  <2> DEFINE e == <<>>
  <2>1. s = (h \o e) \o c /\ e \in Seq(Item)
    BY <1>1, ConcatEmptySeq
  <2>2. s \in Seq(Item) /\ SubSeq(s, 1, Len(h)) = h
    <3> HIDE DEF s, e
    <3> QED BY <1>a, <2>1, Middle
  <2>3. s \in Seq(Item) /\ SubSeq(s, 1, 4) = h
    BY <1>1, <2>2
  <2>4. Bytes(s) = 4 + Bytes(c)
    BY <1>1, BytesConcat
  <2>5. Len(s) \in Nat
    BY <2>3
  <2> HIDE DEF s
  <2>6. SubSeq(s, 5, Len(s) - (Len(s) - 4)) = <<>>
    <3>1. Len(s) - (Len(s) - 4) = 4
      BY <2>5
    <3>2. SubSeq(s, 5, 4) = <<>>
      BY SubSeqEmpty
    <3> QED BY <3>1, <3>2
  <2>7. Apdu(s, 5, Len(s) - 4) = AsRead(h, <<>>)
    BY <2>3, <2>6 DEF Apdu, AsRead
  <2> QED BY <2>3, <2>4, <2>7 DEF s
<1>3. smApduGetTxRxCase(h) = AsRead(h, <<>>)
  <2>1. h \o <<>> = h /\ Bytes(<<>>) = 0
    BY <1>1, ConcatEmptySeq, BytesFacts
  <2>2. Apdu(h, 5, Len(h) - 4) = AsRead(h, <<>>)
    BY <1>1, <1>2, <2>1
  <2> DEFINE n == Bytes(h)
             five == ByteAt(h, 5)
             len == ByteAt(h, 6) * 256 + ByteAt(h, 7)
  <2>3. smApduGetTxRxCase(h) = CaseOf(h, n, five, len) /\ n \in {4, 5}
    BY <1>1, CaseIs
  <2> HIDE DEF n, five, len
  <2> QED BY <2>2, <2>3, CaseIfShort
<1>4. smApduGetTxRxCase(h \o <<Byte(0)>>) = AsRead(h, <<>>)
  <2> DEFINE s == h \o <<Byte(0)>>
             n == Bytes(s)
             five == ByteAt(s, 5)
             len == ByteAt(s, 6) * 256 + ByteAt(s, 7)
  <2>1. n = 4 + 1 /\ Apdu(s, 5, Len(s) - 4) = AsRead(h, <<>>)
    BY <1>0, <1>2
  <2>2. smApduGetTxRxCase(s) = CaseOf(s, n, five, len) /\ n \in {4, 5}
    BY <2>1, CaseIs
  <2> HIDE DEF s, n, five, len
  <2>3. smApduGetTxRxCase(s) = AsRead(h, <<>>)
    BY <2>1, <2>2, CaseIfShort
  <2> QED BY <2>3 DEF s
<1>5. smApduGetTxRxCase((h \o <<Byte(0)>>) \o <<Byte(0), Byte(0)>>) = AsRead(h, <<>>)
  <2> DEFINE o == <<Byte(0)>>
             z == <<Byte(0), Byte(0)>>
             c == o \o z
             s == (h \o o) \o z
             n == Bytes(s)
             len == ByteAt(s, 6) * 256 + ByteAt(s, 7)
  <2>0. o \in Seq(Item) /\ z \in Seq(Item) /\ Bytes(o) = 1 /\ Bytes(z) = 2 /\ Len(o) = 1 /\ o[1] = Byte(0)
    BY <1>0
  <2> HIDE DEF o, z
  <2>a. o \in Seq(Item) /\ z \in Seq(Item)
    BY <2>0
  <2>1. s = h \o c
    <3>1. (h \o o) \o z = h \o (o \o z)
      BY <1>a, <2>a, ConcatAssociative
    <3> QED BY <3>1
  <2>2. c \in Seq(Item) /\ Bytes(c) = 3
    BY <2>0, BytesConcat
  <2> HIDE DEF c
  <2>3. Bytes(h \o c) = 4 + 3 /\ Apdu(h \o c, 5, Len(h \o c) - 4) = AsRead(h, <<>>)
    BY <1>2, <2>2
  <2>4. n = 7 /\ Apdu(s, 5, Len(s) - 4) = AsRead(h, <<>>)
    BY <2>1, <2>3
  <2>5. \A i \in 1 .. Len(o) : s[Len(h) + i] = o[i]
    <3>1. s = (h \o o) \o z
      OBVIOUS
    <3> HIDE DEF s
    <3> QED BY <1>a, <2>a, <3>1, Middle
  <2>6. s[4 + 1] = o[1]
    <3>1. 1 \in 1 .. Len(o)
      BY <2>0
    <3> HIDE DEF s
    <3> QED BY <1>1, <2>5, <3>1
  <2> HIDE DEF s
  <2>7. s[5] = Byte(0)
    BY <2>0, <2>6
  <2>8. ByteAt(s, 5) = 0
    BY <1>0, <2>7, ByteThere
  <2> HIDE DEF n
  <2>9. smApduGetTxRxCase(s) = CaseOf(s, n, ByteAt(s, 5), len)
    BY CaseIs DEF n
  <2> HIDE DEF len
  <2>10. smApduGetTxRxCase(s) = CaseOf(s, 7, 0, len)
    BY <2>4, <2>8, <2>9
  <2>11. CaseOf(s, 7, 0, len) = Apdu(s, 5, Len(s) - 4)
    BY CaseIfLe
  <2>12. smApduGetTxRxCase(s) = AsRead(h, <<>>)
    BY <2>4, <2>10, <2>11
  <2> QED BY <2>12 DEF s, o, z
<1> QED BY <1>3, <1>4, <1>5


\* s is header, length, data and trailer; l stands right behind the header.
Framed(s, h, l, d, z) == s = ((h \o l) \o d) \o z

Behind4(s, l) == \A i \in 1 .. Len(l) : s[4 + i] = l[i]

\* The parts of a command with data.
LEMMA Parts ==
  ASSUME NEW h, Four(h), NEW l \in Seq(Item), NEW d \in Seq(Item), NEW z \in Seq(Item),
         NEW s, Framed(s, h, l, d, z)
  PROVE  /\ s \in Seq(Item) /\ Bytes(s) = 4 + Bytes(l) + Bytes(d) + Bytes(z)
         /\ Apdu(s, 5 + Len(l), Len(z)) = AsRead(h, d)
         /\ Behind4(s, l)
<1>s. s = ((h \o l) \o d) \o z
  BY DEF Framed
<1>a. h \in Seq(Item)
  BY DEF Four
<1>b. Len(h) = 4 /\ Bytes(h) = 4
  BY DEF Four
<1> DEFINE k == h \o l
           r == d \o z
<1>1. k \in Seq(Item) /\ r \in Seq(Item)
  BY <1>a, ConcatProperties
<1>2. s = k \o r /\ s = (k \o d) \o z
  <2>1. (k \o d) \o z = k \o (d \o z)
    <3> HIDE DEF k
    <3> QED BY <1>1, ConcatAssociative
  <2> QED BY <1>s, <2>1
<1>3. s = (h \o l) \o r
  BY <1>2
<1>4. Bytes(s) = 4 + Bytes(l) + Bytes(d) + Bytes(z)
  <2>1. Bytes(k) = Bytes(h) + Bytes(l) /\ Bytes(r) = Bytes(d) + Bytes(z)
    BY <1>a, BytesConcat
  <2>2. Bytes(s) = Bytes(k) + Bytes(r)
    <3> HIDE DEF k, r
    <3> QED BY <1>1, <1>2, BytesConcat
  <2>3. Bytes(l) \in Nat /\ Bytes(d) \in Nat /\ Bytes(z) \in Nat
    BY BytesFacts
  <2> HIDE DEF k, r
  <2> QED BY <1>b, <2>1, <2>2, <2>3
<1>5. Len(k) = 4 + Len(l) /\ Len(l) \in Nat
  <2>1. Len(k) = Len(h) + Len(l)
    BY <1>a, ConcatProperties
  <2> HIDE DEF k
  <2> QED BY <1>b, <2>1
<1>6. /\ SubSeq(s, 1, Len(h)) = h
      /\ \A i \in 1 .. Len(l) : s[Len(h) + i] = l[i]
  <2> HIDE DEF r
  <2> QED BY <1>a, <1>1, <1>3, Middle
<1>7. s \in Seq(Item) /\ SubSeq(s, Len(k) + 1, Len(s) - Len(z)) = d
  <2>1. s = (k \o d) \o z
    BY <1>2
  <2> HIDE DEF k
  <2> QED BY <1>1, <2>1, Middle
<1> HIDE DEF k, r
<1>8. SubSeq(s, 5 + Len(l), Len(s) - Len(z)) = d
  <2>1. Len(k) + 1 = 5 + Len(l)
    BY <1>5
  <2> QED BY <1>7, <2>1
<1>9. Apdu(s, 5 + Len(l), Len(z)) = AsRead(h, d)
  BY <1>b, <1>6, <1>8, Zenon DEF Apdu, AsRead
<1>10. Behind4(s, l)
  BY <1>b, <1>6 DEF Behind4
<1> QED BY <1>4, <1>7, <1>9, <1>10

\* What frames the data of a command: nothing or two bytes may follow it.
Behind(z, hasle) == z = <<>> \/ (hasle /\ z = <<Byte(0), Byte(0)>>)

\* A command with data, whatever its length.
LEMMA ShortRead ==
  ASSUME NEW h, Four(h), NEW d \in Seq(Item), d # <<>>, Bytes(d) < 255
  PROVE  smApduGetTxRxCase((h \o <<Byte(Bytes(d))>>) \o d) = AsRead(h, d)
<1> DEFINE n == Bytes(d)
           l == <<Byte(n)>>
           z == <<>>
           s == ((h \o l) \o d) \o z
           t == (h \o l) \o d
<1>1. n \in Nat /\ n > 0 /\ n < 255
  BY BytesFacts, BytesPositive
<1>2. Octet(n)
  <2> HIDE DEF n
  <2> QED BY <1>1, SMT DEF Octet
<1> HIDE DEF n
<1>3. Byte(n) \in Item /\ Size(Byte(n)) = 1
  BY <1>2, OctetIsItem
<1>4. l \in Seq(Item) /\ Bytes(l) = 1 /\ Len(l) = 1 /\ l[1] = Byte(n)
  BY <1>3, BytesOne
<1>5. z \in Seq(Item) /\ Len(z) = 0 /\ Bytes(z) = 0
  BY BytesFacts
<1>6. t = s
  <2>1. h \in Seq(Item)
    BY DEF Four
  <2>2. t \in Seq(Item)
    <3> DEFINE k == h \o l
    <3>1. l \in Seq(Item)
      BY <1>4
    <3> HIDE DEF l
    <3>2. k \in Seq(Item)
      BY <2>1, <3>1, ConcatProperties
    <3> HIDE DEF k
    <3>3. k \o d \in Seq(Item)
      BY <3>2, ConcatProperties
    <3> QED BY <3>3 DEF k
  <2> HIDE DEF t
  <2>3. t \o <<>> = t
    BY <2>2, ConcatEmptySeq
  <2> QED BY <2>3 DEF t
<1>7. /\ Bytes(s) = 4 + Bytes(l) + Bytes(d) + Bytes(z)
      /\ Apdu(s, 5 + Len(l), Len(z)) = AsRead(h, d)
      /\ Behind4(s, l)
  <2>1. l \in Seq(Item) /\ z \in Seq(Item)
    BY <1>4, <1>5
  <2>2. Framed(s, h, l, d, z)
    <3> HIDE DEF l, z
    <3> QED BY DEF Framed
  <2> HIDE DEF s, l, z
  <2> QED BY <2>1, <2>2, Parts
<1> HIDE DEF s, l, z, t
<1>8. Bytes(s) = 5 + n /\ Apdu(s, 6, 0) = AsRead(h, d)
  BY <1>1, <1>4, <1>5, <1>7 DEF n
<1>9. s[5] = Byte(n)
  <2>1. 1 \in 1 .. Len(l)
    BY <1>4
  <2>2. s[4 + 1] = l[1]
    BY <1>7, <2>1 DEF Behind4
  <2> QED BY <1>4, <2>2
<1>10. ByteAt(s, 5) = n
  BY <1>2, <1>9, ByteThere
<1> DEFINE m == Bytes(s)
           len == ByteAt(s, 6) * 256 + ByteAt(s, 7)
<1>11. smApduGetTxRxCase(s) = CaseOf(s, m, n, len)
  BY <1>10, CaseIs
<1>12. m \in Nat /\ m > 5 /\ n # 0 /\ m = 5 + n
  BY <1>1, <1>8
<1> HIDE DEF m, len
<1>13. CaseOf(s, m, n, len) = Apdu(s, 6, 0)
  BY <1>1, <1>12, CaseIfLc
<1>14. smApduGetTxRxCase(t) = AsRead(h, d)
  BY <1>6, <1>8, <1>11, <1>13
<1> QED BY <1>14 DEF t, l, n


\* With a length of two bytes.
LEMMA ExtendedRead ==
  ASSUME NEW h, Four(h), NEW d \in Seq(Item), d # <<>>, Word(Bytes(d)),
         NEW p, NEW q, Octet(p), Octet(q), Bytes(d) = 256 * p + q,
         NEW z \in Seq(Item), Len(z) = Bytes(z), Bytes(z) \in {0, 2},
         NEW s, Framed(s, h, <<Byte(0), Byte(p), Byte(q)>>, d, z)
  PROVE  smApduGetTxRxCase(s) = AsRead(h, d)
<1> DEFINE l == <<Byte(0), Byte(p), Byte(q)>>
           n == Bytes(d)
           m == Bytes(s)
           len == ByteAt(s, 6) * 256 + ByteAt(s, 7)
<1>0. Octet(0)
  BY SMT DEF Octet
<1>1. /\ Byte(0) \in Item /\ Byte(p) \in Item /\ Byte(q) \in Item
      /\ Size(Byte(0)) = 1 /\ Size(Byte(p)) = 1 /\ Size(Byte(q)) = 1
  BY <1>0, OctetIsItem
<1>2. /\ l \in Seq(Item) /\ Len(l) = 3 /\ Bytes(l) = Size(Byte(0)) + Size(Byte(p)) + Size(Byte(q))
      /\ l[1] = Byte(0) /\ l[2] = Byte(p) /\ l[3] = Byte(q)
  BY <1>1, ThreeItems
<1>3. Bytes(l) = 3
  BY <1>1, <1>2
<1>4. n \in Nat /\ n > 0
  BY BytesFacts, BytesPositive
<1>s. Framed(s, h, l, d, z)
  OBVIOUS
<1>t. l \in Seq(Item)
  BY <1>2
<1> HIDE DEF l, n, m, len
<1>5. /\ Bytes(s) = 4 + Bytes(l) + Bytes(d) + Bytes(z)
      /\ Apdu(s, 5 + Len(l), Len(z)) = AsRead(h, d)
      /\ Behind4(s, l)
  BY <1>s, <1>t, Parts
<1>6. m = 7 + n + Bytes(z) /\ Apdu(s, 8, Bytes(z)) = AsRead(h, d)
  BY <1>2, <1>3, <1>4, <1>5 DEF m, n
<1>7. s[5] = Byte(0) /\ s[6] = Byte(p) /\ s[7] = Byte(q)
  <2>1. 1 \in 1 .. Len(l) /\ 2 \in 1 .. Len(l) /\ 3 \in 1 .. Len(l)
    BY <1>2
  <2>2. s[4 + 1] = l[1] /\ s[4 + 2] = l[2] /\ s[4 + 3] = l[3]
    BY <1>5, <2>1 DEF Behind4
  <2> QED BY <1>2, <2>2
<1>8. ByteAt(s, 5) = 0 /\ ByteAt(s, 6) = p /\ ByteAt(s, 7) = q
  BY <1>0, <1>7, ByteThere
<1>9. len = n
  <2>1. p \in Nat /\ q \in Nat /\ n = 256 * p + q
    BY SMT DEF Octet, n
  <2>2. len = p * 256 + q
    BY <1>8 DEF len
  <2> QED BY <2>1, <2>2
<1>10. smApduGetTxRxCase(s) = CaseOf(s, m, ByteAt(s, 5), len)
  BY CaseIs DEF m, len
<1>11. smApduGetTxRxCase(s) = CaseOf(s, m, 0, n)
  BY <1>8, <1>9, <1>10
<1>12. CASE Bytes(z) = 0
  <2>1. m \in Nat /\ m > 7 /\ m = 7 + n
    BY <1>4, <1>6, <1>12
  <2>2. CaseOf(s, m, 0, n) = Apdu(s, 8, 0)
    BY <1>4, <2>1, CaseIfExtended
  <2> QED BY <1>6, <1>11, <1>12, <2>2
<1>13. CASE Bytes(z) = 2
  <2>1. m \in Nat /\ m > 7 /\ m = 9 + n
    BY <1>4, <1>6, <1>13
  <2>2. CaseOf(s, m, 0, n) = Apdu(s, 8, 2)
    BY <1>4, <2>1, CaseIfExtended
  <2> QED BY <1>6, <1>11, <1>13, <2>2
<1> QED BY <1>12, <1>13

\* Le is nothing or two bytes.
LEMMA LeIs ==
  ASSUME NEW hasle \in BOOLEAN
  PROVE  /\ Le(hasle) \in Seq(Item) /\ Len(Le(hasle)) = Bytes(Le(hasle))
         /\ Bytes(Le(hasle)) = IF hasle THEN 2 ELSE 0
         /\ ~hasle => Le(hasle) = <<>>
<1>1. CASE hasle
  <2>0. Octet(0)
    BY SMT DEF Octet
  <2>1. Byte(0) \in Item /\ Size(Byte(0)) = 1
    BY <2>0, OctetIsItem
  <2>2. /\ <<Byte(0), Byte(0)>> \in Seq(Item) /\ Len(<<Byte(0), Byte(0)>>) = 2
        /\ Bytes(<<Byte(0), Byte(0)>>) = Size(Byte(0)) + Size(Byte(0))
    BY <2>1, TwoItems
  <2>3. Bytes(<<Byte(0), Byte(0)>>) = 2
    BY <2>1, <2>2
  <2> QED BY <1>1, <2>2, <2>3 DEF Le
<1>2. CASE ~hasle
  <2>1. <<>> \in Seq(Item) /\ Len(<<>>) = 0
    OBVIOUS
  <2> QED BY <1>2, <2>1, BytesFacts DEF Le
<1> QED BY <1>1, <1>2

\* Lc is bytes, and as long as the data needs.
LEMMA LcIs ==
  ASSUME NEW n, Word(n), NEW hasle \in BOOLEAN
  PROVE  /\ Lc(n, hasle) \in Seq(Item)
         /\ Bytes(Lc(n, hasle)) \in 1 .. 3
         /\ n < 255 /\ ~hasle => Lc(n, hasle) = <<Byte(n)>>
         /\ ~ (n < 255 /\ ~hasle) =>
              \E p, q : /\ Octet(p) /\ Octet(q) /\ n = 256 * p + q
                        /\ Lc(n, hasle) = <<Byte(0), Byte(p), Byte(q)>>
<1>1. CASE n < 255 /\ ~hasle
  <2>1. Lc(n, hasle) = <<Byte(n)>>
    BY <1>1 DEF Lc
  <2>2. Octet(n)
    BY <1>1, SMT DEF Word, Octet
  <2>3. Size(Byte(n)) = 1 /\ Byte(n) \in Item
    BY <2>2, OctetIsItem
  <2>4. <<Byte(n)>> \in Seq(Item) /\ Bytes(<<Byte(n)>>) = 1
    BY <2>3, BytesOne
  <2> QED BY <1>1, <2>1, <2>4
<1>2. CASE ~ (n < 255 /\ ~hasle)
  <2>1. Lc(n, hasle) = <<Byte(0), Byte(n \div 256), Byte(n)>>
    BY <1>2 DEF Lc
  <2>2. PICK p, q : Octet(p) /\ Octet(q) /\ n = 256 * p + q /\ p = n \div 256 /\ Byte(n) = Byte(q)
    BY LengthParts
  <2>3. Lc(n, hasle) = <<Byte(0), Byte(p), Byte(q)>>
    BY <2>1, <2>2
  <2>0. Octet(0)
    BY SMT DEF Octet
  <2>4. /\ Byte(0) \in Item /\ Byte(p) \in Item /\ Byte(q) \in Item
        /\ Size(Byte(0)) = 1 /\ Size(Byte(p)) = 1 /\ Size(Byte(q)) = 1
    BY <2>0, <2>2, OctetIsItem
  <2>5. /\ <<Byte(0), Byte(p), Byte(q)>> \in Seq(Item)
        /\ Bytes(<<Byte(0), Byte(p), Byte(q)>>) = Size(Byte(0)) + Size(Byte(p)) + Size(Byte(q))
    BY <2>4, ThreeItems
  <2>6. Bytes(<<Byte(0), Byte(p), Byte(q)>>) = 3
    BY <2>4, <2>5
  <2>7. Lc(n, hasle) \in Seq(Item) /\ Bytes(Lc(n, hasle)) \in 1 .. 3
    BY <2>3, <2>5, <2>6
  <2> QED BY <1>2, <2>2, <2>3, <2>7
<1> QED BY <1>1, <1>2

\* A command with data is read as framed.
LEMMA DataRead ==
  ASSUME NEW h, Four(h), NEW d \in Seq(Item), d # <<>>, Word(Bytes(d)), NEW hasle \in BOOLEAN,
         NEW z, z = <<>> \/ z = Le(hasle)
  PROVE  smApduGetTxRxCase(((h \o Lc(Bytes(d), hasle)) \o d) \o z) = AsRead(h, d)
<1> DEFINE n == Bytes(d)
           l == Lc(n, hasle)
           t == (h \o l) \o d
           s == t \o z
<1>0. h \in Seq(Item)
  BY DEF Four
<1>1. /\ z \in Seq(Item) /\ Len(z) = Bytes(z) /\ Bytes(z) \in {0, 2}
      /\ ~hasle => z = <<>>
  <2>1. CASE z = <<>>
    BY <2>1, BytesFacts
  <2>2. CASE z = Le(hasle)
    <3>1. Bytes(Le(hasle)) \in {0, 2}
      BY LeIs
    <3> QED BY <2>2, <3>1, LeIs
  <2> QED BY <2>1, <2>2
<1>2. CASE n < 255 /\ ~hasle
  <2>1. l = <<Byte(n)>> /\ l \in Seq(Item)
    BY <1>2, LcIs
  <2> HIDE DEF l
  <2> DEFINE k == h \o l
  <2>2. k \in Seq(Item)
    BY <1>0, <2>1, ConcatProperties
  <2>3. t \in Seq(Item)
    <3> HIDE DEF k
    <3>1. k \o d \in Seq(Item)
      BY <2>2, ConcatProperties
    <3> QED BY <3>1 DEF k
  <2> HIDE DEF t
  <2>4. s = t
    BY <1>1, <1>2, <2>3, ConcatEmptySeq
  <2> HIDE DEF s
  <2>5. smApduGetTxRxCase((h \o <<Byte(n)>>) \o d) = AsRead(h, d)
    BY <1>2, ShortRead
  <2>6. smApduGetTxRxCase(t) = AsRead(h, d)
    <3> HIDE DEF n
    <3> QED BY <2>1, <2>5 DEF t
  <2> QED BY <2>4, <2>6 DEF s, t, l
<1>3. CASE ~ (n < 255 /\ ~hasle)
  <2>1. PICK p, q : Octet(p) /\ Octet(q) /\ n = 256 * p + q /\ l = <<Byte(0), Byte(p), Byte(q)>>
    <3> HIDE DEF n
    <3> QED BY <1>3, LcIs DEF n
  <2>2. Framed(s, h, <<Byte(0), Byte(p), Byte(q)>>, d, z)
    <3> HIDE DEF l
    <3> QED BY <2>1 DEF Framed
  <2>3. smApduGetTxRxCase(s) = AsRead(h, d)
    <3> HIDE DEF s
    <3> QED BY <1>1, <2>1, <2>2, ExtendedRead
  <2> QED BY <2>3
<1> QED BY <1>2, <1>3


-----------------------------------------------------------------------------
(* What the SE understands.                                                *)

\* A header of these bytes.
Bytes4(a, b, c, d) == <<Byte(a), Byte(b), Byte(c), Byte(d)>>

\* Four items, the first and the rest.
LEMMA FourItems ==
  ASSUME NEW x \in Item, NEW y \in Item, NEW z \in Item, NEW w \in Item,
         NEW h, h = <<x, y, z, w>>
  PROVE  /\ h \in Seq(Item) /\ Len(h) = 4 /\ h[1] = x /\ h[2] = y
         /\ h = <<x>> \o <<y, z, w>> /\ Tail(h) = <<y, z, w>>
         /\ Bytes(h) = Size(x) + Size(y) + Size(z) + Size(w)
<1> DEFINE k == <<x, y, z>>
           v == <<y, z, w>>
           o == <<x>>
           u == o \o v
           t == Tail(h)
<1>1. k \in Seq(Item) /\ Bytes(k) = Size(x) + Size(y) + Size(z)
  BY ThreeItems
<1>2. h = Append(k, w)
  OBVIOUS
<1>3. Bytes(h) = Size(x) + Size(y) + Size(z) + Size(w)
  <2>1. Bytes(Append(k, w)) = Bytes(k) + Size(w)
    <3> HIDE DEF k
    <3> QED BY <1>1, BytesFacts
  <2> DEFINE n == Bytes(h)
             m == Bytes(k)
  <2>2. n = m + Size(w) /\ m = Size(x) + Size(y) + Size(z)
    BY <1>1, <1>2, <2>1
  <2> HIDE DEF n, m
  <2>3. n = Size(x) + Size(y) + Size(z) + Size(w)
    BY <2>2
  <2> QED BY <2>3 DEF n
<1>9. /\ v \in Seq(Item) /\ Len(v) = 3 /\ v[1] = y /\ v[2] = z /\ v[3] = w
      /\ o \in Seq(Item) /\ Len(o) = 1 /\ o[1] = x
      /\ h \in Seq(Item) /\ Len(h) = 4
      /\ h[1] = x /\ h[2] = y /\ h[3] = z /\ h[4] = w /\ h # <<>>
  OBVIOUS
<1>10. t \in Seq(Item) /\ Len(t) = Len(h) - 1 /\ \A i \in 1 .. Len(t) : t[i] = h[i + 1]
  BY <1>9, HeadTailProperties
<1> HIDE DEF v, o
<1>a. o \in Seq(Item) /\ v \in Seq(Item)
  BY <1>9
<1>11. u \in Seq(Item) /\ Len(u) = Len(o) + Len(v)
       /\ \A i \in 1 .. Len(o) + Len(v) : u[i] = IF i <= Len(o) THEN o[i] ELSE v[i - Len(o)]
  BY <1>a, ConcatProperties
<1> HIDE DEF u, t
<1>12. u = h
  <2>1. Len(u) = 4 /\ u[1] = x /\ u[2] = y /\ u[3] = z /\ u[4] = w
    BY <1>9, <1>11
  <2>2. \A i \in 1 .. 4 : i = 1 \/ i = 2 \/ i = 3 \/ i = 4
    OBVIOUS
  <2>3. \A i \in 1 .. Len(u) : u[i] = h[i]
    BY <1>9, <2>1, <2>2
  <2>4. Len(u) = Len(h)
    BY <1>9, <2>1
  <2> QED BY <1>9, <1>11, <2>3, <2>4, SeqEqual
<1>13. t = v
  <2>1. Len(t) = 3 /\ t[1] = y /\ t[2] = z /\ t[3] = w
    BY <1>9, <1>10
  <2>2. \A i \in 1 .. 3 : i = 1 \/ i = 2 \/ i = 3
    OBVIOUS
  <2>3. \A i \in 1 .. Len(t) : t[i] = v[i]
    BY <1>9, <2>1, <2>2
  <2>4. Len(t) = Len(v)
    BY <1>9, <2>1
  <2> QED BY <1>9, <1>10, <2>3, <2>4, SeqEqual
<1> QED BY <1>3, <1>9, <1>12, <1>13 DEF u, v, o, t

\* h is that header, and can be taken apart.
HeaderOf(h, a, b, c, d) ==
    /\ Four(h) /\ h[1] = Byte(a) /\ h[2] = Byte(b)
    /\ h = <<Byte(a)>> \o <<Byte(b), Byte(c), Byte(d)>>
    /\ Tail(h) = <<Byte(b), Byte(c), Byte(d)>>

\* A header is four bytes.
LEMMA HeaderIsFour ==
  ASSUME NEW a, NEW b, NEW c, NEW d, Octet(a), Octet(b), Octet(c), Octet(d)
  PROVE  HeaderOf(Bytes4(a, b, c, d), a, b, c, d)
<1> DEFINE h == Bytes4(a, b, c, d)
           x == Byte(a)
           y == Byte(b)
           z == Byte(c)
           w == Byte(d)
<1>1. /\ x \in Item /\ y \in Item /\ z \in Item /\ w \in Item
      /\ Size(x) = 1 /\ Size(y) = 1 /\ Size(z) = 1 /\ Size(w) = 1
  BY OctetIsItem
<1>2. h = <<x, y, z, w>>
  BY DEF Bytes4
<1> HIDE DEF h, x, y, z, w
<1>3. /\ h \in Seq(Item) /\ Len(h) = 4 /\ h[1] = x /\ h[2] = y
      /\ h = <<x>> \o <<y, z, w>> /\ Tail(h) = <<y, z, w>>
      /\ Bytes(h) = Size(x) + Size(y) + Size(z) + Size(w)
  BY SMTT(30), <1>1, <1>2, FourItems
<1>4. Four(h)
  BY <1>1, <1>3 DEF Four
<1>5. HeaderOf(h, a, b, c, d)
  BY <1>3, <1>4 DEF HeaderOf, x, y, z, w
<1> QED BY <1>5 DEF h

\* What leaves room for all that securing and framing add.
Small(n) == n \in Nat /\ n < 65000

\* With a little more, it still fits into two bytes.
LEMMA SmallIs ==
  ASSUME NEW n, Small(n), NEW k \in Nat, k < 100
  PROVE  Word(n + k)
BY SMT DEF Small, Word

\* A framed command is read as framed.
LEMMA FrameRead ==
  ASSUME NEW h, Four(h), NEW d \in Seq(Item), Word(Bytes(d)), NEW hasle \in BOOLEAN
  PROVE  smApduGetTxRxCase(Frame(h, d, hasle)) = AsRead(h, d)
<1>0. h \in Seq(Item)
  BY DEF Four
<1>1. CASE d = <<>>
  <2>1. Frame(h, d, hasle) = (h \o <<Byte(0)>>) \o Le(hasle)
    BY <1>1 DEF Frame
  <2>2. CASE hasle
    BY <1>1, <2>1, <2>2, NoDataRead DEF Le
  <2>3. CASE ~hasle
    <3> DEFINE o == <<Byte(0)>>
               t == h \o o
    <3>0. Octet(0)
      BY SMT DEF Octet
    <3>1. o \in Seq(Item)
      BY <3>0, OctetIsItem
    <3> HIDE DEF o
    <3>2. t \in Seq(Item)
      BY <1>0, <3>1, ConcatProperties
    <3> HIDE DEF t
    <3>3. t \o <<>> = t
      BY <3>2, ConcatEmptySeq
    <3>4. Frame(h, d, hasle) = t
      BY <2>1, <2>3, <3>3 DEF Le, t, o
    <3>5. smApduGetTxRxCase(t) = AsRead(h, <<>>)
      BY NoDataRead DEF t, o
    <3> QED BY <1>1, <3>4, <3>5
  <2> QED BY <2>2, <2>3
<1>2. CASE d # <<>>
  <2> DEFINE l == Lc(Bytes(d), hasle)
             z == Le(hasle)
  <2>1. l \in Seq(Item)
    BY LcIs
  <2>2. Frame(h, d, hasle) = (h \o (l \o d)) \o z
    BY <1>2 DEF Frame
  <2>3. smApduGetTxRxCase(((h \o l) \o d) \o z) = AsRead(h, d)
    BY <1>2, DataRead
  <2> HIDE DEF l, z
  <2>4. (h \o l) \o d = h \o (l \o d)
    BY <1>0, <2>1, ConcatAssociative
  <2> QED BY <2>2, <2>3, <2>4
<1> QED BY <1>1, <1>2

\* So is the command inside a session.
LEMMA InnerRead ==
  ASSUME NEW h, Four(h), NEW d \in Seq(Item), Word(Bytes(d)), NEW hasle \in BOOLEAN
  PROVE  /\ smApduGetTxRxCase(Inner(h, d, hasle)) = AsRead(h, d)
         /\ Inner(h, d, hasle) \in Seq(Item) /\ Bytes(Inner(h, d, hasle)) <= Bytes(d) + 7
         /\ Bytes(Inner(h, d, hasle)) \in Nat
<1>0. h \in Seq(Item)
  BY DEF Four
<1>b. Bytes(h) = 4 /\ Bytes(d) \in Nat
  BY BytesFacts DEF Four
<1>1. CASE d = <<>>
  <2>1. Inner(h, d, hasle) = (h \o <<>>) \o <<>>
    BY <1>1 DEF Inner
  <2>2. Inner(h, d, hasle) = h
    <3>1. h \o <<>> = h
      BY <1>0, ConcatEmptySeq
    <3> QED BY <2>1, <3>1
  <2>3. smApduGetTxRxCase(h) = AsRead(h, <<>>)
    BY NoDataRead
  <2> QED BY <1>0, <1>b, <1>1, <2>2, <2>3
<1>2. CASE d # <<>>
  <2> DEFINE l == Lc(Bytes(d), hasle)
             k == h \o l
             t == k \o d
  <2>1. l \in Seq(Item) /\ Bytes(l) \in 1 .. 3
    BY LcIs
  <2>2. Inner(h, d, hasle) = t
    BY <1>2 DEF Inner
  <2>3. smApduGetTxRxCase(((h \o l) \o d) \o <<>>) = AsRead(h, d)
    BY <1>2, DataRead
  <2> HIDE DEF l
  <2>4. k \in Seq(Item) /\ Bytes(k) = Bytes(h) + Bytes(l)
    BY <1>0, <2>1, BytesConcat
  <2> HIDE DEF k
  <2>5. t \in Seq(Item) /\ Bytes(t) = Bytes(k) + Bytes(d)
    BY <2>4, BytesConcat
  <2>6. smApduGetTxRxCase(t) = AsRead(h, d)
    <3>1. t = (h \o l) \o d
      BY DEF k
    <3> HIDE DEF t
    <3>2. t \o <<>> = t
      BY <2>5, ConcatEmptySeq
    <3>3. smApduGetTxRxCase(t \o <<>>) = AsRead(h, d)
      BY <2>3, <3>1
    <3> QED BY <3>2, <3>3
  <2> HIDE DEF t
  <2>7. Bytes(t) \in Nat /\ Bytes(t) <= Bytes(d) + 7
    BY <1>b, <2>1, <2>4, <2>5
  <2> QED BY <2>2, <2>5, <2>6, <2>7
<1> QED BY <1>1, <1>2


\* A pair is one item appended to another.
LEMMA Pair == ASSUME NEW x, NEW y PROVE Append(<<x>>, y) = <<x, y>>
<1>1. <<x>> \in Seq({x, y}) /\ y \in {x, y}
  OBVIOUS
<1> DEFINE s == <<x>>
           t == <<x, y>>
           u == Append(s, y)
<1>2. Len(s) = 1 /\ s[1] = x /\ t \in Seq({x, y}) /\ Len(t) = 2 /\ t[1] = x /\ t[2] = y
  OBVIOUS
<1> HIDE DEF s, t
<1>3. u \in Seq({x, y}) /\ Len(u) = 2 /\ u[1] = x /\ u[2] = y
  BY <1>1, <1>2 DEF s
<1> HIDE DEF u
<1>4. \A i \in 1 .. Len(u) : u[i] = t[i]
  <2>1. \A i \in 1 .. 2 : i = 1 \/ i = 2
    OBVIOUS
  <2> QED BY <1>2, <1>3, <2>1
<1>5. u = t
  BY <1>2, <1>3, <1>4, SeqEqual
<1> QED BY <1>5 DEF u, s, t

\* The session's own command has the identifier and the whole command in it.
LEMMA SessionRead ==
  ASSUME NEW cmd \in Seq(Item), Word(Bytes(cmd))
  PROVE  /\ InSession(cmd) \in Seq(Item) /\ Bytes(InSession(cmd)) \in Nat
         /\ Bytes(InSession(cmd)) <= Bytes(cmd) + 14
         /\ WholeFields(InSession(cmd)) /\ Len(FieldsIn(InSession(cmd))) = 2
         /\ FieldsIn(InSession(cmd))[2].value = cmd
<1> DEFINE id == <<SessionId>>
           f1 == <<Byte(16)>> \o LengthBytes(Bytes(id)) \o id
           l == LengthBytes(Bytes(cmd))
           f2 == <<Byte(65)>> \o l \o cmd
           one == [tag |-> 16, value |-> id]
           two == [tag |-> 65, value |-> cmd]
<1>0. Octet(16) /\ Octet(8) /\ Octet(65) /\ Word(8)
  BY SMT DEF Octet, Word
<1>1. SessionId \in Item /\ Size(SessionId) = 8
  BY PlainIsItem DEF SessionId, Size
<1>2. id \in Seq(Item) /\ Bytes(id) = 8
  BY <1>1, BytesOne
<1>3. LengthBytes(8) = <<Byte(8)>>
  BY DEF LengthBytes
<1>4. l \in Seq(Item) /\ Len(l) \in 1 .. 3 /\ Bytes(l) = Len(l)
  BY LengthIs
<1>e. <<>> \in Seq(Item)
  OBVIOUS
<1> HIDE DEF id, l, one, two
<1>5. f1 \in Seq(Item) /\ Parse(f1) = Between(<<one>>)
  <2> DEFINE e == <<>>
  <2>1. e \in Seq(Item) /\ Parse(e) = Between(e) /\ Word(Bytes(id)) /\ id \in Seq(Item)
    BY <1>0, <1>2, ParseFacts
  <2>2. f1 \in Seq(Item) /\ Parse(e \o f1) = Between(Append(e, [tag |-> 16, value |-> id]))
    <3> HIDE DEF e
    <3> QED BY <1>0, <2>1, FieldRead
  <2> HIDE DEF f1
  <2>3. e \o f1 = f1
    BY <2>2, ConcatEmptySeq
  <2>4. Append(e, one) = <<one>>
    OBVIOUS
  <2> HIDE DEF e
  <2> QED BY <2>2, <2>3, <2>4 DEF one
<1>6. /\ f2 \in Seq(Item) /\ f1 \o f2 \in Seq(Item)
      /\ Parse(f1 \o f2) = Between(Append(<<one>>, two))
  <2> HIDE DEF f1
  <2> QED BY <1>0, <1>5, FieldRead DEF l, two
<1>7. Append(<<one>>, two) = <<one, two>>
  BY Pair
<1>8. InSession(cmd) = f1 \o f2
  <2> DEFINE a == <<Byte(16)>>
             b == <<Byte(8)>>
             c == <<Byte(65)>>
             abic == <<Byte(16), Byte(8), SessionId, Byte(65)>>
  <2>1. Byte(16) \in Item /\ Byte(8) \in Item /\ Byte(65) \in Item
    BY <1>0, OctetIsItem
  <2>2. a \in Seq(Item) /\ b \in Seq(Item) /\ c \in Seq(Item)
    BY <2>1
  <2>3. abic = ((a \o b) \o id) \o c
    <3> DEFINE x == Byte(16)
               y == Byte(8)
               z == SessionId
               w == Byte(65)
               k == <<x, y, z>>
    <3>1. x \in Item /\ y \in Item /\ z \in Item /\ w \in Item
      BY <1>1, <2>1
    <3> HIDE DEF x, y, z, w
    <3>2. k = (<<x>> \o <<y>>) \o <<z>> /\ k \in Seq(Item)
      BY <3>1, ThreeItems
    <3>3. <<x, y, z, w>> = Append(k, w)
      OBVIOUS
    <3>4. Append(k, w) = k \o <<w>>
      <4> HIDE DEF k
      <4> QED BY <3>1, <3>2, AppendIsConcat
    <3>5. <<x, y, z, w>> = ((<<x>> \o <<y>>) \o <<z>>) \o <<w>>
      BY <3>2, <3>3, <3>4
    <3> QED BY <3>5 DEF x, y, z, w, id
  <2>4. InSession(cmd) = (abic \o l) \o cmd
    BY DEF InSession, l
  <2>5. f1 = (a \o b) \o id
    BY <1>2, <1>3
  <2> HIDE DEF a, b, c, abic
  <2>6. f1 \in Seq(Item) /\ abic = f1 \o c
    BY <1>5, <2>3, <2>5
  <2> HIDE DEF f1
  <2>7. f2 = (c \o l) \o cmd
    BY DEF c
  <2>a. c \in Seq(Item) /\ f1 \in Seq(Item) /\ l \in Seq(Item)
    BY <1>4, <2>2, <2>6
  <2>8. (f1 \o c) \o l = f1 \o (c \o l)
    BY <2>a, ConcatAssociative
  <2> DEFINE k == c \o l
  <2>9. k \in Seq(Item)
    BY <1>4, <2>2, ConcatProperties
  <2>10. InSession(cmd) = (f1 \o k) \o cmd
    BY <2>4, <2>6, <2>8
  <2>11. f2 = k \o cmd
    BY <2>7
  <2> HIDE DEF k, f2
  <2>12. (f1 \o k) \o cmd = f1 \o (k \o cmd)
    BY SMTT(30), <2>6, <2>9, ConcatAssociative
  <2> QED BY <2>10, <2>11, <2>12
<1>9. Bytes(InSession(cmd)) \in Nat /\ Bytes(InSession(cmd)) <= Bytes(cmd) + 14
  <2> DEFINE a == <<Byte(16)>>
             b == <<Byte(8)>>
             c == <<Byte(65)>>
             ab == a \o b
             cl == c \o l
  <2>1. /\ Byte(16) \in Item /\ Byte(8) \in Item /\ Byte(65) \in Item
        /\ Size(Byte(16)) = 1 /\ Size(Byte(8)) = 1 /\ Size(Byte(65)) = 1
    BY <1>0, OctetIsItem
  <2>2. /\ a \in Seq(Item) /\ b \in Seq(Item) /\ c \in Seq(Item)
        /\ Bytes(a) = 1 /\ Bytes(b) = 1 /\ Bytes(c) = 1
    BY <2>1, BytesOne
  <2>3. f1 = (a \o b) \o id
    BY <1>2, <1>3
  <2>4. f2 = (c \o l) \o cmd
    OBVIOUS
  <2> HIDE DEF a, b, c, f1, f2
  <2>5. ab \in Seq(Item) /\ Bytes(ab) = 2 /\ cl \in Seq(Item) /\ Bytes(cl) = 1 + Bytes(l)
    <3>1. ab \in Seq(Item) /\ Bytes(ab) = Bytes(a) + Bytes(b)
      BY <2>2, BytesConcat
    <3>2. cl \in Seq(Item) /\ Bytes(cl) = Bytes(c) + Bytes(l)
      BY <1>4, <2>2, BytesConcat
    <3> QED BY <2>2, <3>1, <3>2
  <2>6. f1 = ab \o id /\ f2 = cl \o cmd
    BY <2>3, <2>4
  <2> HIDE DEF ab, cl
  <2>7. Bytes(f1) = Bytes(ab) + Bytes(id) /\ Bytes(f2) = Bytes(cl) + Bytes(cmd)
    BY <1>2, <2>5, <2>6, BytesConcat
  <2>8. Bytes(f1 \o f2) = Bytes(f1) + Bytes(f2) /\ Bytes(cmd) \in Nat
    BY <1>5, <1>6, BytesConcat, BytesFacts
  <2>9. Bytes(InSession(cmd)) = 2 + 8 + (1 + Bytes(l) + Bytes(cmd))
    BY <1>2, <1>8, <2>5, <2>7, <2>8
  <2>10. Bytes(l) \in Nat /\ Bytes(l) <= 3
    BY <1>4
  <2>11. Bytes(cmd) \in Nat
    BY BytesFacts
  <2> QED BY <2>9, <2>10, <2>11
<1> HIDE DEF f1, f2
<1>10. Parse(InSession(cmd)) = Between(<<one, two>>)
  BY <1>6, <1>7, <1>8
<1>11. WholeFields(InSession(cmd)) /\ FieldsIn(InSession(cmd)) = <<one, two>>
  BY <1>10 DEF WholeFields, FieldsIn, Between, At
<1>12. Len(<<one, two>>) = 2 /\ <<one, two>>[2].value = cmd
  BY DEF two
<1> QED BY <1>6, <1>8, <1>9, <1>11, <1>12


\* The class byte p that says the command is secured; data, enciphered and with its MAC.
Raised(p, a) == p = a + 4

Sealed(d) == Enciphered(d) \o <<Mac>>

\* Enciphered data is whole blocks, and the MAC comes behind it.
LEMMA CipherIs ==
  ASSUME NEW d \in Seq(Plain), NEW e, e = Sealed(d)
  PROVE  /\ e \in Seq(Item) /\ e # <<>> /\ Enciphered(d) \in Seq(Item)
         /\ Bytes(e) = Bytes(Enciphered(d)) + 8
         /\ Bytes(e) \in Nat /\ Bytes(e) <= Bytes(d) + 24
         /\ \/ d = <<>> /\ e = <<Mac>>
            \/ \E x \in Ciphers : e = <<x, Mac>> /\ x.cipher = d
<1>0. d \in Seq(Item) /\ Mac \in Item /\ Size(Mac) = 8
  BY PlainIsItem DEF Mac, Size
<1>1. Bytes(d) \in Nat /\ Bytes(<<Mac>>) = 8 /\ <<Mac>> \in Seq(Item)
  BY <1>0, BytesFacts, BytesOne
<1>2. CASE d = <<>>
  <2>1. Enciphered(d) = <<>> /\ <<>> \in Seq(Item) /\ Bytes(<<>>) = 0
    BY <1>2, BytesFacts DEF Enciphered
  <2>2. e = <<Mac>>
    <3> DEFINE m == <<Mac>>
    <3>1. m \in Seq(Item)
      BY <1>1
    <3>2. e = <<>> \o m
      BY <2>1 DEF Sealed
    <3> HIDE DEF m
    <3>3. e = m
      BY <3>1, <3>2, ConcatEmptySeq
    <3> QED BY <3>3 DEF m
  <2>3. <<Mac>> # <<>>
    OBVIOUS
  <2>4. e # <<>> /\ e \in Seq(Item) /\ Bytes(e) = 8
    BY <1>1, <2>2, <2>3
  <2>5. Bytes(d) = 0 /\ Bytes(Enciphered(d)) = 0 /\ Enciphered(d) \in Seq(Item)
    BY <1>2, <2>1
  <2>6. Bytes(e) = Bytes(Enciphered(d)) + 8 /\ Bytes(e) \in Nat /\ Bytes(e) <= Bytes(d) + 24
    BY <2>4, <2>5
  <2> QED BY <1>2, <2>2, <2>4, <2>5, <2>6
<1>3. CASE d # <<>>
  <2> DEFINE n == 16 * (Bytes(d) \div 16 + 1)
             x == [cipher |-> d, size |-> n]
  <2>1. n \in Nat \ {0} /\ n <= Bytes(d) + 16
    <3> DEFINE b == Bytes(d)
               k == 16
    <3>1. b \in Nat /\ k \in Nat /\ k > 0
      BY <1>1
    <3> HIDE DEF b, k
    <3>2. b \div k \in Nat /\ b = k * (b \div k) + (b % k) /\ b % k \in Nat
      BY <3>1, Quotients
    <3> DEFINE q == b \div k
               r == b % k
    <3>3. q \in Nat /\ b = k * q + r /\ r \in Nat
      BY <3>2
    <3> HIDE DEF q, r
    <3>4. 16 * (q + 1) \in Nat \ {0} /\ 16 * (q + 1) <= b + 16
      BY <3>3 DEF k
    <3> QED BY <3>4 DEF q, b, k
  <2> HIDE DEF n
  <2>2. x \in Ciphers /\ x \in Item /\ Size(x) = n /\ x.cipher = d
    BY <2>1 DEF Ciphers, Item, Size
  <2>3. Enciphered(d) = <<x>>
    BY <1>3 DEF Enciphered, n
  <2> HIDE DEF x
  <2>4. <<x>> \in Seq(Item) /\ Bytes(<<x>>) = n
    BY <2>2, BytesOne
  <2>5. e = <<x, Mac>> /\ e \in Seq(Item) /\ Bytes(e) = Size(x) + Size(Mac)
    <3>1. <<x, Mac>> = <<x>> \o <<Mac>> /\ <<x, Mac>> \in Seq(Item) /\ Bytes(<<x, Mac>>) = Size(x) + Size(Mac)
      BY <1>0, <2>2, TwoItems
    <3> QED BY <2>3, <3>1 DEF Sealed
  <2>6. <<x, Mac>> # <<>>
    OBVIOUS
  <2>7. Bytes(e) = n + 8
    BY <1>0, <2>2, <2>5
  <2>8. Bytes(e) = Bytes(Enciphered(d)) + 8 /\ Bytes(e) \in Nat /\ Bytes(e) <= Bytes(d) + 24
    BY <1>1, <2>1, <2>3, <2>4, <2>7
  <2> QED BY <2>2, <2>3, <2>4, <2>5, <2>6, <2>8
<1> QED BY <1>2, <1>3

\* A command that the channel secures is read as its header, for secure messaging, and what is enciphered.
LEMMA SecuredRead ==
  ASSUME NEW a, NEW b, NEW c, NEW f, Octet(a), NEW p, Raised(p, a), Octet(p), Octet(b), Octet(c), Octet(f),
         NEW d \in Seq(Plain), Small(Bytes(d)), NEW hasle \in BOOLEAN,
         NEW e, e = Sealed(d),
         NEW s, s = Secured(Bytes4(a, b, c, f), d, hasle)
  PROVE  /\ s \in Seq(Item) /\ Bytes(s) \in Nat /\ Bytes(s) <= Bytes(d) + 31
         /\ smApduGetTxRxCase(s) = AsRead(Bytes4(p, b, c, f), e)
         /\ smApduGetTxRxCase(s \o Le(hasle)) = AsRead(Bytes4(p, b, c, f), e)
<1> DEFINE h == Bytes4(a, b, c, f)
           h4 == Bytes4(p, b, c, f)
           g == Enciphered(d)
           m == <<Mac>>
           l == Lc(Bytes(e), hasle)
           k == h4 \o l
<1>1. /\ e \in Seq(Item) /\ e # <<>> /\ g \in Seq(Item) /\ Bytes(e) = Bytes(g) + 8
      /\ Bytes(e) \in Nat /\ Bytes(e) <= Bytes(d) + 24
  BY CipherIs
<1>2. Word(Bytes(e))
  <2> DEFINE n == Bytes(e)
             n0 == Bytes(d)
  <2>1. n \in Nat /\ n <= n0 + 24 /\ Small(n0)
    BY <1>1
  <2> HIDE DEF n, n0
  <2>2. Word(n)
    BY <2>1, SMT DEF Small, Word
  <2> QED BY <2>2 DEF n
<1>3. m \in Seq(Item)
  BY PlainIsItem
<1>4. Four(h4) /\ h4 = <<Byte(p)>> \o <<Byte(b), Byte(c), Byte(f)>>
  <2>1. HeaderOf(h4, p, b, c, f)
    BY HeaderIsFour
  <2> HIDE DEF h4
  <2> QED BY <2>1 DEF HeaderOf
<1>5. h[1] = Byte(a) /\ Tail(h) = <<Byte(b), Byte(c), Byte(f)>>
  <2>1. HeaderOf(h, a, b, c, f)
    BY HeaderIsFour
  <2> HIDE DEF h
  <2> QED BY <2>1 DEF HeaderOf
<1>6. Byte(a).byte = a
  <2>1. a \in Nat /\ a % 256 = a
    BY SMT DEF Octet
  <2> QED BY <2>1, ByteFacts
<1>7. h4 = <<Byte(h[1].byte + 4)>> \o Tail(h)
  <2>1. h[1].byte = a
    <3> HIDE DEF h
    <3> QED BY <1>5, <1>6
  <2>2. h[1].byte + 4 = p
    <3> HIDE DEF h
    <3> QED BY <2>1 DEF Raised
  <2> HIDE DEF h, h4
  <2> QED BY <1>4, <1>5, <2>2
<1>8. l \in Seq(Item) /\ Bytes(l) \in 1 .. 3
  BY <1>2, LcIs
<1>9. h4 \in Seq(Item) /\ Bytes(h4) = 4
  BY <1>4 DEF Four
<1>10. s = ((h4 \o l) \o g) \o m
  <2>1. s = (((<<Byte(h[1].byte + 4)>> \o Tail(h)) \o Lc(Bytes(g) + 8, hasle)) \o g) \o m
    BY DEF Secured
  <2> HIDE DEF h, h4, g, m
  <2> QED BY <1>1, <1>7, <2>1
<1> HIDE DEF h, h4, g, m, l
<1>a. e = g \o m
  BY DEF g, m, Sealed
<1>11. k \in Seq(Item) /\ Bytes(k) = Bytes(h4) + Bytes(l)
  BY <1>8, <1>9, BytesConcat
<1>12. s = k \o e
  <2>1. s = (k \o g) \o m /\ e = g \o m
    BY <1>10, <1>a
  <2>2. k \in Seq(Item) /\ g \in Seq(Item)
    BY <1>1, <1>11
  <2> HIDE DEF k
  <2>3. (k \o g) \o m = k \o (g \o m)
    BY <1>3, <2>2, ConcatAssociative
  <2> QED BY <2>1, <2>3
<1>13. s \in Seq(Item) /\ Bytes(s) = Bytes(k) + Bytes(e)
  <2> HIDE DEF k
  <2> QED BY <1>1, <1>11, <1>12, BytesConcat
<1>14. smApduGetTxRxCase((k \o e) \o <<>>) = AsRead(h4, e)
  BY <1>1, <1>2, <1>4, DataRead DEF l
<1>15. smApduGetTxRxCase((k \o e) \o Le(hasle)) = AsRead(h4, e)
  BY <1>1, <1>2, <1>4, DataRead DEF l
<1> HIDE DEF k
<1>16. smApduGetTxRxCase(s) = AsRead(h4, e)
  <2> DEFINE t == k \o e
  <2>1. s = t /\ t \in Seq(Item)
    BY <1>12, <1>13
  <2>2. smApduGetTxRxCase(t \o <<>>) = AsRead(h4, e)
    BY <1>14
  <2> HIDE DEF t
  <2>3. t \o <<>> = t
    BY <2>1, ConcatEmptySeq
  <2> QED BY <2>1, <2>2, <2>3
<1>17. smApduGetTxRxCase(s \o Le(hasle)) = AsRead(h4, e)
  BY <1>12, <1>15
<1>18. Bytes(s) \in Nat /\ Bytes(s) <= Bytes(d) + 31
  <2>1. Bytes(d) \in Nat
    BY DEF Small
  <2>2. Bytes(l) \in Nat /\ Bytes(l) <= 3 /\ Bytes(h4) = 4
    BY <1>8, <1>9
  <2>3. Bytes(e) \in Nat /\ Bytes(e) <= Bytes(d) + 24
    BY <1>1
  <2>4. Bytes(s) = (Bytes(h4) + Bytes(l)) + Bytes(e)
    BY <1>11, <1>13
  <2> QED BY <2>1, <2>2, <2>3, <2>4
<1> QED BY <1>13, <1>16, <1>17, <1>18 DEF h4

\* Deciphered, it is the header and the data that were secured.
LEMMA DecipheredIs ==
  ASSUME NEW a, NEW b, NEW c, NEW f, Octet(a), NEW p, Raised(p, a), Octet(p), Octet(b), Octet(c), Octet(f),
         NEW d \in Seq(Plain), NEW e, e = Sealed(d)
  PROVE  Deciphered(AsRead(Bytes4(p, b, c, f), e)) = AsRead(Bytes4(a, b, c, f), d)
<1> DEFINE h == Bytes4(a, b, c, f)
           h4 == Bytes4(p, b, c, f)
           apdu == AsRead(h4, e)
           T == {x \in Range(e) : "cipher" \in DOMAIN x}
           cipher == Only(e, T)
<1>0. ~ ("cipher" \in DOMAIN Mac) /\ Mac \in Item /\ <<>> \in Seq(Item)
  BY PlainIsItem DEF Mac
<1>1. \/ cipher = <<>> /\ d = <<>>
     \/ \E x \in Item : cipher = <<x>> /\ x.cipher = d
  <2>1. CASE d = <<>> /\ e = <<Mac>>
    <3>1. e = Append(<<>>, Mac)
      BY <2>1
    <3>2. ~ (Mac \in T)
      BY <1>0
    <3> HIDE DEF T
    <3>3. Only(Append(<<>>, Mac), T) = Chosen(Only(<<>>, T), Mac, T)
      BY <1>0, OnlyFacts
    <3>4. Only(<<>>, T) = <<>>
      BY OnlyFacts
    <3> QED BY <2>1, <3>1, <3>2, <3>3, <3>4 DEF Chosen
  <2>2. CASE \E x \in Ciphers : e = <<x, Mac>> /\ x.cipher = d
    <3>1. PICK x \in Ciphers : e = <<x, Mac>> /\ x.cipher = d
      BY <2>2
    <3>2. x \in Item /\ "cipher" \in DOMAIN x
      BY <3>1 DEF Ciphers, Item
    <3>3. <<x>> \in Seq(Item) /\ <<x>> = Append(<<>>, x) /\ e = Append(<<x>>, Mac)
      <4>1. <<x>> \in Seq(Item) /\ <<x>> = Append(<<>>, x)
        BY <3>2
      <4>2. Append(<<x>>, Mac) = <<x, Mac>>
        BY Pair
      <4> QED BY <3>1, <4>1, <4>2
    <3>4. x \in T
      <4>1. x \in Range(e)
        <5>1. 1 \in DOMAIN <<x, Mac>> /\ <<x, Mac>>[1] = x
          OBVIOUS
        <5> QED BY <3>1, <5>1 DEF Range
      <4> QED BY <3>2, <4>1
    <3>5. ~ (Mac \in T)
      BY <1>0
    <3> HIDE DEF T
    <3>6. Only(<<>>, T) = <<>>
      BY OnlyFacts
    <3>7. Only(Append(<<>>, x), T) = Chosen(Only(<<>>, T), x, T)
      BY <1>0, <3>2, OnlyFacts
    <3>8. Only(<<x>>, T) = <<x>>
      BY <3>3, <3>4, <3>6, <3>7 DEF Chosen
    <3>9. Only(Append(<<x>>, Mac), T) = Chosen(Only(<<x>>, T), Mac, T)
      BY <1>0, <3>3, OnlyFacts
    <3>10. cipher = <<x>>
      BY <3>3, <3>5, <3>8, <3>9 DEF Chosen
    <3> QED BY <3>1, <3>2, <3>10
  <2> QED BY <2>1, <2>2, CipherIs
<1> HIDE DEF cipher
<1>3. (IF cipher = <<>> THEN <<>> ELSE cipher[1].cipher) = d
  <2>1. CASE cipher = <<>> /\ d = <<>>
    BY <2>1
  <2>2. CASE \E x \in Item : cipher = <<x>> /\ x.cipher = d
    <3>1. PICK x \in Item : cipher = <<x>> /\ x.cipher = d
      BY <2>2
    <3>2. cipher # <<>> /\ cipher[1] = x
      BY <3>1
    <3> QED BY <3>1, <3>2
  <2> QED BY <1>1, <2>1, <2>2
<1>4. /\ h4[1] = Byte(p) /\ Byte(p) = [byte |-> p] /\ Byte(a) = [byte |-> a]
  <2>1. a \in Nat /\ a % 256 = a /\ p \in Nat /\ p % 256 = p
    BY SMT DEF Octet, Raised
  <2>2. h4[1] = Byte(p)
    <3>1. HeaderOf(h4, p, b, c, f)
      BY HeaderIsFour
    <3> HIDE DEF h4
    <3> QED BY <3>1 DEF HeaderOf
  <2> QED BY <2>1, <2>2 DEF Byte
<1>5. [h4 EXCEPT ![1].byte = @ - 4] = h
  <2>1. a \in Nat
    BY DEF Octet
  <2>2. p - 4 = a
    BY <2>1 DEF Raised
  <2>3. h4[1] = [byte |-> p] /\ h4[1].byte = p
    <3> HIDE DEF h4
    <3> QED BY <1>4
  <2>4. [h4[1] EXCEPT !.byte = h4[1].byte - 4] = [byte |-> a]
    <3> HIDE DEF h4
    <3>1. [h4[1] EXCEPT !.byte = h4[1].byte - 4] = [byte |-> h4[1].byte - 4]
      BY <2>3
    <3>2. h4[1].byte - 4 = a
      BY <2>2, <2>3
    <3> QED BY <3>1, <3>2
  <2>5. [h4 EXCEPT ![1] = Byte(a)] = h
    BY DEF Bytes4
  <2>6. [h4 EXCEPT ![1].byte = @ - 4] = [h4 EXCEPT ![1] = [h4[1] EXCEPT !.byte = h4[1].byte - 4]]
    OBVIOUS
  <2> HIDE DEF h4, h
  <2> QED BY <1>4, <2>4, <2>5, <2>6
<1>6. Deciphered(apdu) = AsRead([h4 EXCEPT ![1].byte = @ - 4], d)
  <2>1. apdu.hdr = h4 /\ apdu.data = e
    BY DEF AsRead
  <2>2. cipher = Only(apdu.data, {x \in Range(apdu.data) : "cipher" \in DOMAIN x})
    BY <2>1 DEF cipher
  <2>3. apdu = [ok |-> TRUE, hdr |-> h4, data |-> e]
    BY DEF AsRead
  <2> HIDE DEF apdu, h4
  <2>4. Deciphered(apdu) = [apdu EXCEPT !.hdr[1].byte = @ - 4, !.data = d]
    BY <1>3, <2>2 DEF Deciphered
  <2> QED BY <2>3, <2>4 DEF AsRead
<1> QED BY <1>5, <1>6


\* A command of the API: its header is four bytes, and not that of the wrapping command.
Known(c) ==
    /\ c.cla \in {0, 128} /\ c.ins \in 0..255 \ {INS.PROCESS}
    /\ c.p1 \in 0..255 /\ c.p2 \in 0..255 /\ c.hasle \in BOOLEAN

\* The SE tells a command of the API from the one that wraps it.
LEMMA NotProcess ==
  ASSUME NEW a, NEW b, NEW c, NEW f, Octet(a), Octet(b), Octet(c), Octet(f), b # 5
  PROVE  Bytes4(a, b, c, f) # PROCESS
<1> DEFINE h == Bytes4(a, b, c, f)
<1>0. HeaderOf(h, a, b, c, f)
  BY HeaderIsFour
<1> HIDE DEF h
<1>1. h[2] = Byte(b)
  BY <1>0 DEF HeaderOf
<1>2. PROCESS[2] = Byte(5)
  BY DEF PROCESS
<1>3. Byte(b).byte = b
  <2>1. b \in Nat /\ b % 256 = b
    BY SMT DEF Octet
  <2> QED BY <2>1, ByteFacts
<1>4. Byte(5).byte = 5
  BY DEF Byte
<1>5. h # PROCESS
  BY <1>1, <1>2, <1>3, <1>4
<1> QED BY <1>5 DEF h

\* The header of the wrapping command is four bytes.
LEMMA ProcessIsFour == Four(PROCESS)
<1>1. Octet(128) /\ Octet(5) /\ Octet(0)
  BY SMT DEF Octet
<1>2. HeaderOf(Bytes4(128, 5, 0, 0), 128, 5, 0, 0)
  BY <1>1, HeaderIsFour
<1>3. PROCESS = Bytes4(128, 5, 0, 0)
  BY DEF PROCESS, Bytes4
<1>4. HeaderOf(PROCESS, 128, 5, 0, 0)
  BY <1>2, <1>3
<1> QED BY <1>4 DEF HeaderOf

\* The header of a command of the API, with the class byte it has when it is secured.
LEMMA KnownIs ==
  ASSUME NEW c, Known(c)
  PROVE  \E a, b, f, g, p :
           /\ Octet(a) /\ Octet(b) /\ Octet(f) /\ Octet(g) /\ Octet(p) /\ Raised(p, a) /\ b # 5
           /\ Header(c) = Bytes4(a, b, f, g) /\ c.hasle \in BOOLEAN
<1> DEFINE p == c.cla + 4
<1>1. Octet(c.cla) /\ Octet(p) /\ Raised(p, c.cla)
  BY SMT DEF Known, Octet, Raised
<1>2. Octet(c.ins) /\ Octet(c.p1) /\ Octet(c.p2) /\ c.ins # INS.PROCESS /\ c.hasle \in BOOLEAN
  BY SMT DEF Known, Octet
<1>3. INS.PROCESS = 5
  BY SMT DEF INS
<1>4. Header(c) = Bytes4(c.cla, c.ins, c.p1, c.p2)
  BY DEF Header, Bytes4
<1> HIDE DEF p
<1> QED BY <1>1, <1>2, <1>3, <1>4

\* Understood, with and without the session.
LEMMA UnderstoodDirectly ==
  ASSUME NEW items, NEW h, NEW x, smApduGetTxRxCase(items) = AsRead(h, x), h # PROCESS
  PROVE  Understood(items) = IF scp THEN Deciphered(AsRead(h, x)) ELSE AsRead(h, x)
<1> DEFINE apdu == AsRead(h, x)
<1>1. apdu.hdr = h /\ apdu.ok
  BY DEF AsRead
<1> HIDE DEF apdu
<1>2. smApduGetTxRxCase(items) = apdu
  BY DEF apdu
<1>3. Understood(items) = IF scp THEN Deciphered(apdu) ELSE apdu
  BY <1>1, <1>2 DEF Understood
<1> QED BY <1>3 DEF apdu

\* Inside a session it is the wrapped command that counts.
LEMMA UnderstoodInSession ==
  ASSUME NEW items, NEW cmd, NEW h, NEW x, cmd \in Seq(Item), Word(Bytes(cmd)),
         smApduGetTxRxCase(items) = AsRead(PROCESS, InSession(cmd)),
         smApduGetTxRxCase(cmd) = AsRead(h, x)
  PROVE  Understood(items) = IF scp THEN Deciphered(AsRead(h, x)) ELSE AsRead(h, x)
<1> DEFINE outer == AsRead(PROCESS, InSession(cmd))
           apdu == AsRead(h, x)
<1>1. outer.hdr = PROCESS /\ outer.data = InSession(cmd) /\ apdu.ok
  BY DEF AsRead
<1>2. /\ WholeFields(InSession(cmd)) /\ Len(FieldsIn(InSession(cmd))) = 2
      /\ FieldsIn(InSession(cmd))[2].value = cmd
  BY SessionRead
<1> HIDE DEF outer, apdu
<1>3. smApduGetTxRxCase(items) = outer /\ smApduGetTxRxCase(cmd) = apdu
  BY DEF outer, apdu
<1>4. Understood(items) = IF scp THEN Deciphered(apdu) ELSE apdu
  BY <1>1, <1>2, <1>3 DEF Understood
<1> QED BY <1>4 DEF apdu

\* Whatever is sent, by the session and the channel there are, is understood.
LEMMA SentUnderstood ==
  ASSUME NEW c, Known(c), NEW d \in Seq(Plain), Small(Bytes(d)),
         session \in BOOLEAN, scp \in BOOLEAN
  PROVE  Understood(Sent(Header(c), d, c.hasle, session, scp)) = AsRead(Header(c), d)
<1> DEFINE h == Header(c)
           le == c.hasle
           n == Bytes(d)
<1>1. PICK a, b, f, g, p :
           /\ Octet(a) /\ Octet(b) /\ Octet(f) /\ Octet(g) /\ Octet(p) /\ Raised(p, a) /\ b # 5
           /\ h = Bytes4(a, b, f, g) /\ le \in BOOLEAN
  BY KnownIs
<1>2. n \in Nat /\ Word(n) /\ d \in Seq(Item) /\ Small(n)
  <2>1. Word(n + 0) /\ n \in Nat
    BY SmallIs DEF Small
  <2>2. n + 0 = n
    BY <2>1
  <2> QED BY <2>1, <2>2, PlainIsItem
<1>3. Four(h) /\ h # PROCESS
  <2>1. HeaderOf(h, a, b, f, g)
    BY <1>1, HeaderIsFour
  <2>2. h # PROCESS
    BY <1>1, NotProcess
  <2> QED BY <2>1, <2>2 DEF HeaderOf
<1> DEFINE h4 == Bytes4(p, b, f, g)
           e == Sealed(d)
           s == Secured(h, d, le)
<1>4. h4 # PROCESS
  BY <1>1, NotProcess
<1>5. /\ s \in Seq(Item) /\ Bytes(s) \in Nat /\ Bytes(s) <= n + 31
      /\ smApduGetTxRxCase(s) = AsRead(h4, e)
      /\ smApduGetTxRxCase(s \o Le(le)) = AsRead(h4, e)
  <2> HIDE DEF le, h
  <2>1. s = Secured(Bytes4(a, b, f, g), d, le)
    BY <1>1
  <2> HIDE DEF s, e
  <2> QED BY <1>1, <2>1, SecuredRead DEF e
<1>6. Deciphered(AsRead(h4, e)) = AsRead(h, d)
  <2> HIDE DEF e, h
  <2>1. Deciphered(AsRead(h4, e)) = AsRead(Bytes4(a, b, f, g), d)
    BY <1>1, DecipheredIs DEF e
  <2> QED BY <1>1, <2>1
<1>7. /\ smApduGetTxRxCase(Frame(h, d, le)) = AsRead(h, d)
      /\ smApduGetTxRxCase(Inner(h, d, le)) = AsRead(h, d)
      /\ Inner(h, d, le) \in Seq(Item) /\ Bytes(Inner(h, d, le)) \in Nat
      /\ Bytes(Inner(h, d, le)) <= n + 7
  <2> HIDE DEF le, h
  <2> QED BY <1>1, <1>2, <1>3, FrameRead, InnerRead
<1> HIDE DEF h, le, n, h4, e, s
<1>8. ASSUME NEW cmd \in Seq(Item), Bytes(cmd) \in Nat, Bytes(cmd) <= n + 31
      PROVE  /\ Word(Bytes(cmd))
             /\ smApduGetTxRxCase(Frame(PROCESS, InSession(cmd), le)) = AsRead(PROCESS, InSession(cmd))
  <2> DEFINE m == Bytes(cmd)
             w == InSession(cmd)
             k == Bytes(w)
  <2>1. m \in Nat /\ m <= n + 31 /\ Small(n)
    BY <1>2, <1>8
  <2>2. Word(m)
    <3> HIDE DEF m
    <3> QED BY <2>1, SMT DEF Small, Word
  <2>3. w \in Seq(Item) /\ k \in Nat /\ k <= m + 14
    BY <2>2, SessionRead
  <2>4. Word(k)
    <3> HIDE DEF m, k
    <3> QED BY <2>1, <2>3, SMT DEF Small, Word
  <2>5. smApduGetTxRxCase(Frame(PROCESS, w, le)) = AsRead(PROCESS, w)
    <3>1. w \in Seq(Item) /\ Word(Bytes(w))
      BY <2>3, <2>4
    <3> HIDE DEF w
    <3> QED BY <1>1, <3>1, FrameRead, ProcessIsFour
  <2> QED BY <2>2, <2>5
<1>9. CASE ~session /\ ~scp
  <2>1. Sent(h, d, le, session, scp) = Frame(h, d, le)
    BY <1>9 DEF Sent
  <2>2. Understood(Frame(h, d, le)) = AsRead(h, d)
    BY <1>3, <1>7, <1>9, UnderstoodDirectly
  <2> QED BY <2>1, <2>2 DEF h, le
<1>10. CASE session /\ ~scp
  <2> DEFINE cmd == Inner(h, d, le)
  <2>1. Sent(h, d, le, session, scp) = Frame(PROCESS, InSession(cmd), le)
    BY <1>10 DEF Sent
  <2>2. cmd \in Seq(Item) /\ Bytes(cmd) \in Nat /\ Bytes(cmd) <= n + 31
    <3> DEFINE m == Bytes(cmd)
    <3>1. m \in Nat /\ m <= n + 7
      BY <1>7
    <3> HIDE DEF m
    <3>2. m <= n + 31
      BY <1>2, <3>1
    <3> QED BY <1>7, <3>1, <3>2 DEF m
  <2>3. smApduGetTxRxCase(cmd) = AsRead(h, d)
    BY <1>7
  <2> HIDE DEF cmd
  <2>4. Understood(Frame(PROCESS, InSession(cmd), le)) = AsRead(h, d)
    BY <1>8, <1>10, <2>2, <2>3, UnderstoodInSession
  <2> QED BY <2>1, <2>4 DEF h, le
<1>11. CASE ~session /\ scp
  <2>1. Sent(h, d, le, session, scp) = s \o Le(le)
    BY <1>11 DEF Sent, s
  <2>2. Understood(s \o Le(le)) = AsRead(h, d)
    BY <1>4, <1>5, <1>6, <1>11, UnderstoodDirectly
  <2> QED BY <2>1, <2>2 DEF h, le
<1>12. CASE session /\ scp
  <2>1. Sent(h, d, le, session, scp) = Frame(PROCESS, InSession(s), le)
    BY <1>12 DEF Sent, s
  <2>2. Understood(Frame(PROCESS, InSession(s), le)) = AsRead(h, d)
    BY <1>5, <1>6, <1>8, <1>12, UnderstoodInSession
  <2> QED BY <2>1, <2>2 DEF h, le
<1> QED BY <1>9, <1>10, <1>11, <1>12


-----------------------------------------------------------------------------
(* What a call has to say, argument by argument.                           *)

\* The first j of f.
Part(f, j) == [i \in 1 .. j |-> f[i]]

\* A sequence grows by one.
LEMMA PartGrows ==
  ASSUME NEW S, NEW f, NEW j \in Nat, \A i \in 1 .. j + 1 : f[i] \in S
  PROVE  /\ Part(f, j) \in Seq(S) /\ f[j + 1] \in S
         /\ Part(f, j + 1) = Append(Part(f, j), f[j + 1])
<1> DEFINE s == Part(f, j)
           t == Part(f, j + 1)
           u == Append(s, f[j + 1])
<1>1. \A i \in 1 .. j : i \in 1 .. j + 1
  OBVIOUS
<1>2. s \in Seq(S) /\ Len(s) = j /\ \A i \in 1 .. j : s[i] = f[i]
  BY <1>1 DEF Part
<1>3. t \in Seq(S) /\ Len(t) = j + 1 /\ \A i \in 1 .. j + 1 : t[i] = f[i]
  BY DEF Part
<1>4. j + 1 \in 1 .. j + 1
  OBVIOUS
<1>5. f[j + 1] \in S
  BY <1>4
<1> HIDE DEF s, t
<1>6. u \in Seq(S) /\ Len(u) = j + 1 /\ u[j + 1] = f[j + 1] /\ \A i \in 1 .. j : u[i] = s[i]
  BY <1>2, <1>5, AppendIs
<1> HIDE DEF u
<1>7. \A i \in 1 .. Len(t) : t[i] = u[i]
  <2> TAKE i \in 1 .. Len(t)
  <2>1. i \in 1 .. j \/ i = j + 1
    BY <1>3
  <2>2. CASE i = j + 1
    BY <1>3, <1>4, <1>6, <2>2
  <2>3. CASE i \in 1 .. j
    BY <1>1, <1>2, <1>3, <1>6, <2>3
  <2> QED BY <2>1, <2>2, <2>3
<1>8. t = u
  BY <1>3, <1>6, <1>7, SeqEqual
<1> QED BY <1>2, <1>5, <1>8 DEF s, t, u

\* What an argument is.
ArgSet ==
    [tag : 0..255, size : Nat \cup {Buffer}, optional : BOOLEAN, even : BOOLEAN,
     needs : SUBSET Nat, atMost : Nat]

\* A sequence is a part of itself, and its first part is empty.
LEMMA WholePart ==
  ASSUME NEW f, NEW n \in Nat, DOMAIN f = 1 .. n, f = [i \in 1 .. n |-> f[i]]
  PROVE  Part(f, n) = f /\ Part(f, 0) = <<>>
BY DEF Part

\* The content of a field: nothing, or what it must say.
LEMMA ContentIs ==
  ASSUME NEW arg \in ArgSet, arg.size # 0, NEW i \in Nat, NEW g \in Nat
  PROVE  /\ SizeOf(arg, g) \in Nat
         /\ Content(arg, i, g) \in Seq(Plain)
         /\ SizeOf(arg, g) = 0 => Content(arg, i, g) = <<>>
         /\ SizeOf(arg, g) # 0 => Content(arg, i, g) # <<>> /\ Told(arg, i, g, Content(arg, i, g))
         /\ SizeOf(arg, g) # 0 /\ ~arg.even => Content(arg, i, g) = <<Value(i, g, SizeOf(arg, g))>>
<1> DEFINE n == SizeOf(arg, g)
           v == Value(i, g, n)
           o == Byte(0)
           c == Content(arg, i, g)
<1>1. n \in Nat /\ n = IF arg.size = Buffer THEN g ELSE arg.size
  BY DEF SizeOf, ArgSet, Buffer
<1>2. arg.even \in BOOLEAN
  BY DEF ArgSet
<1> HIDE DEF n
<1>3. CASE n = 0
  BY <1>1, <1>3 DEF Content, n
<1>4. CASE n # 0
  <2>1. v \in Plain /\ Size(v) = n /\ v.size = n
    <3>1. v.size = n
      BY DEF Value
    <3> HIDE DEF v
    <3> QED BY <1>1, <1>4, <3>1, ValueFacts DEF v
  <2>2. o \in Plain /\ Size(o) = 1
    BY ByteFacts
  <2>3. v \in Item /\ o \in Item /\ <<v>> \in Seq(Plain) /\ <<v>> \in Seq(Item)
    BY <2>1, <2>2, PlainIsItem
  <2> HIDE DEF v, o
  <2>4. CASE arg.even /\ n % 2 = 1
    <3>1. c = <<o>> \o <<v>>
      BY <1>4, <2>4 DEF Content, n, v, o
    <3>2. c = <<o, v>> /\ Bytes(c) = Size(o) + Size(v)
      BY <2>3, <3>1, TwoItems
    <3> HIDE DEF c
    <3>3. c \in Seq(Plain) /\ c # <<>> /\ Last(c) = v
      BY <2>1, <2>2, <3>2 DEF Last
    <3>4. Bytes(c) = n + 1
      BY <1>1, <2>1, <2>2, <3>2
    <3>5. Told(arg, i, g, c)
      BY <1>1, <2>1, <2>4, <3>3, <3>4 DEF Told, v
    <3> QED BY <1>1, <1>4, <2>4, <3>3, <3>5 DEF n, c
  <2>5. CASE ~ (arg.even /\ n % 2 = 1)
    <3>1. c = <<>> \o <<v>>
      BY <1>4, <2>5 DEF Content, n, v
    <3>2. c = <<v>>
      <4> DEFINE w == <<v>>
      <4>1. w \in Seq(Item)
        BY <2>3
      <4> HIDE DEF w
      <4>2. <<>> \o w = w
        BY <4>1, ConcatEmptySeq
      <4> QED BY <3>1, <4>2 DEF w
    <3>3. Bytes(<<v>>) = n
      BY <2>1, <2>3, BytesOne
    <3> HIDE DEF c
    <3>4. c \in Seq(Plain) /\ c # <<>> /\ Last(c) = v /\ Bytes(c) = n
      BY <2>3, <3>2, <3>3 DEF Last
    <3>5. arg.even => n % 2 = 0
      BY <1>1, <2>5
    <3>6. Bytes(c) = n + (IF arg.even THEN n % 2 ELSE 0)
      BY <1>1, <1>2, <3>4, <3>5
    <3>7. Told(arg, i, g, c)
      BY <1>1, <2>1, <3>4, <3>6 DEF Told, v
    <3> QED BY <1>1, <1>4, <3>2, <3>4, <3>7 DEF n, c, v
  <2> QED BY <2>4, <2>5
<1> QED BY <1>3, <1>4

\* What the SE must be told is what is there and not empty.
MeantSet(c, given) ==
    {i \in DOMAIN c.args :
       /\ given[i] # 0 \/ (c.args[i].size # Buffer /\ ~c.args[i].optional)
       /\ c.args[i].needs # {} => \E j \in c.args[i].needs : given[j] # 0}

\* An argument is meant when its field is written and has content.
LEMMA MeantIs ==
  ASSUME NEW c, NEW given, NEW i \in DOMAIN c.args, c.args[i] \in ArgSet, c.args[i].size # 0,
         given[i] \in Nat
  PROVE  i \in MeantSet(c, given)
           <=> Present(c.args[i], i, given) /\ SizeOf(c.args[i], given[i]) # 0
<1> DEFINE arg == c.args[i]
           g == given[i]
           some == arg.needs # {} => \E j \in arg.needs : given[j] # 0
<1>1. i \in MeantSet(c, given) <=> (g # 0 \/ (arg.size # Buffer /\ ~arg.optional)) /\ some
  BY DEF MeantSet
<1>2. Present(arg, i, given) <=> (arg.optional => g # 0) /\ some
  BY DEF Present
<1>3. SizeOf(arg, g) = IF arg.size = Buffer THEN g ELSE arg.size
  BY DEF SizeOf
<1>4. arg.optional \in BOOLEAN
  BY DEF ArgSet
<1> HIDE DEF arg, g, some
<1>5. arg.size # 0
  BY DEF arg
<1>6. i \in MeantSet(c, given) <=> Present(arg, i, given) /\ SizeOf(arg, g) # 0
  BY <1>1, <1>2, <1>3, <1>4, <1>5
<1> QED BY <1>6 DEF arg, g


\* Up to three items are a sequence.
LEMMA Tuples ==
  ASSUME NEW S, NEW x \in S, NEW y \in S, NEW z \in S
  PROVE  <<x>> \in Seq(S) /\ <<x, y>> \in Seq(S) /\ <<x, y, z>> \in Seq(S)
OBVIOUS

\* A tag is one byte.
LEMMA ArgTag == ASSUME NEW arg \in ArgSet PROVE Octet(arg.tag)
BY SMT DEF ArgSet, Octet

\* The length of a field is bytes, however long it is.
LEMMA LengthPlain == ASSUME NEW n \in Nat PROVE LengthBytes(n) \in Seq(Plain)
<1>1. Byte(129) \in Plain /\ Byte(130) \in Plain /\ Byte(n) \in Plain
  <2>1. 129 \in Nat /\ 130 \in Nat
    BY SMT
  <2> QED BY <2>1, ByteFacts
<1>2. Byte(n \div 256) \in Plain
  <2>1. n \div 256 \in Nat
    BY SMT
  <2> QED BY <2>1, ByteFacts
<1>3. /\ <<Byte(n)>> \in Seq(Plain)
      /\ <<Byte(129), Byte(n)>> \in Seq(Plain)
      /\ <<Byte(130), Byte(n \div 256), Byte(n)>> \in Seq(Plain)
  <2> DEFINE x == Byte(129)
             y == Byte(130)
             z == Byte(n \div 256)
             w == Byte(n)
  <2>1. x \in Plain /\ y \in Plain /\ z \in Plain /\ w \in Plain
    BY <1>1, <1>2
  <2> HIDE DEF x, y, z, w
  <2>2. <<w>> \in Seq(Plain) /\ <<x, w>> \in Seq(Plain) /\ <<y, z, w>> \in Seq(Plain)
    BY <2>1, Tuples
  <2> QED BY <2>2 DEF x, y, z, w
<1> QED BY <1>3, Zenon DEF LengthBytes

\* A field is nothing, or its content, or its content behind its tag and its length.
LEMMA FieldPlain ==
  ASSUME NEW arg \in ArgSet, arg.size # 0, NEW i \in Nat, NEW given, given[i] \in Nat
  PROVE  Field(arg, i, given) \in Seq(Plain)
<1> DEFINE v == Content(arg, i, given[i])
           t == <<Byte(arg.tag)>>
           l == LengthBytes(Bytes(v))
           k == t \o l
<1>1. v \in Seq(Plain) /\ v \in Seq(Item)
  BY ContentIs, PlainIsItem
<1> HIDE DEF v
<1>2. l \in Seq(Plain)
  BY <1>1, BytesFacts, LengthPlain
<1>3. t \in Seq(Plain)
  <2>1. arg.tag \in Nat
    BY SMT DEF ArgSet
  <2>2. Byte(arg.tag) \in Plain
    BY <2>1, ByteFacts
  <2> QED BY <2>2
<1> HIDE DEF l, t
<1>4. k \in Seq(Plain)
  BY <1>2, <1>3, ConcatProperties
<1> HIDE DEF k
<1>5. k \o v \in Seq(Plain)
  BY <1>1, <1>4, ConcatProperties
<1>6. <<>> \in Seq(Plain)
  OBVIOUS
<1>7. Field(arg, i, given) = IF ~Present(arg, i, given) THEN <<>> ELSE IF arg.tag = 0 THEN v ELSE k \o v
  BY Zenon DEF Field, k, t, l, v
<1> QED BY <1>1, <1>5, <1>6, <1>7, Zenon

\* A field that fits is read behind what was read already.
LEMMA FieldAdds ==
  ASSUME NEW arg \in ArgSet, arg.size # 0, arg.tag # 0, NEW i \in Nat, NEW given, given[i] \in Nat,
         NEW s \in Seq(Plain), NEW fields, Parse(s) = Between(fields),
         Small(Bytes(s \o Field(arg, i, given))), Present(arg, i, given)
  PROVE  Parse(s \o Field(arg, i, given))
           = Between(Append(fields, [tag |-> arg.tag, value |-> Content(arg, i, given[i])]))
<1> DEFINE v == Content(arg, i, given[i])
           t == <<Byte(arg.tag)>>
           l == LengthBytes(Bytes(v))
           k == t \o l
           f == Field(arg, i, given)
<1>1. v \in Seq(Plain) /\ v \in Seq(Item) /\ s \in Seq(Item)
  BY ContentIs, PlainIsItem
<1>2. f = (t \o l) \o v
  BY Zenon DEF Field
<1>3. Octet(arg.tag)
  BY ArgTag
<1>4. Word(Bytes(v))
  <2>1. t \in Seq(Item) /\ l \in Seq(Item)
    <3> HIDE DEF v
    <3>1. Byte(arg.tag) \in Item
      BY <1>3, OctetIsItem
    <3>2. LengthBytes(Bytes(v)) \in Seq(Plain)
      BY <1>1, BytesFacts, LengthPlain
    <3> QED BY <3>1, <3>2, PlainIsItem
  <2>2. k \in Seq(Item) /\ f \in Seq(Item)
    <3> HIDE DEF t, l, v
    <3>1. k \in Seq(Item)
      BY <2>1, ConcatProperties
    <3> HIDE DEF k
    <3>2. k \o v \in Seq(Item)
      BY <1>1, <3>1, ConcatProperties
    <3> QED BY <1>2, <3>1, <3>2 DEF k
  <2>3. Bytes(s \o f) = Bytes(s) + Bytes(f)
    <3> HIDE DEF f
    <3> QED BY <1>1, <2>2, BytesConcat
  <2>4. Bytes(f) = Bytes(k) + Bytes(v)
    <3> HIDE DEF f, t, l, v
    <3>1. f = k \o v
      BY <1>2
    <3> HIDE DEF k
    <3> QED BY <1>1, <2>2, <3>1, BytesConcat
  <2> DEFINE m == Bytes(v)
             n == Bytes(s \o f)
             a == Bytes(s)
             b == Bytes(k)
  <2>5. m \in Nat /\ a \in Nat /\ b \in Nat
    <3> HIDE DEF v, k
    <3> QED BY <1>1, <2>2, BytesFacts
  <2>6. n = a + (b + m) /\ Small(n)
    BY <2>3, <2>4
  <2> HIDE DEF m, n, a, b
  <2>7. Word(m)
    BY <2>5, <2>6, SMT DEF Small, Word
  <2> QED BY <2>7 DEF m
<1>5. Parse(s \o (<<Byte(arg.tag)>> \o LengthBytes(Bytes(v)) \o v))
        = Between(Append(fields, [tag |-> arg.tag, value |-> v]))
  <2> HIDE DEF v
  <2> QED BY <1>1, <1>3, <1>4, FieldRead
<1> QED BY <1>2, <1>5


\* Arguments that can be written, and their numbers.
Callable(c, given) ==
    /\ c.args \in Seq(ArgSet) /\ given \in [DOMAIN c.args -> Nat]
    /\ \A i \in DOMAIN c.args : c.args[i].size # 0

\* All fields have tags, or none has one.
Tagged(c) == \A i \in DOMAIN c.args : c.args[i].tag # 0

Untagged(c) == \A i \in DOMAIN c.args : c.args[i].tag = 0 /\ ~c.args[i].even

\* The fields as they are written, and the numbers of the arguments.
Written(c, given) == [i \in DOMAIN c.args |-> Field(c.args[i], i, given)]

Numbers(c) == [i \in DOMAIN c.args |-> i]

\* What is written, and what is meant, of the first j arguments.
Pre(c, given, j) == FlattenSeq(Part(Written(c, given), j))

MeantPart(c, given, j) == Only(Part(Numbers(c), j), MeantSet(c, given))

\* The fields that say something.
NonEmpty == {f \in FieldRec : f.value # <<>>}

\* The fields fl, or the items d without tags, say what the arguments ml of the call say.
TellsFields(c, given, fl, ml) ==
    /\ Len(fl) = Len(ml)
    /\ \A k \in 1 .. Len(ml) :
         fl[k].tag = c.args[ml[k]].tag /\ Told(c.args[ml[k]], ml[k], given[ml[k]], fl[k].value)

TellsRaw(c, given, d, ml) ==
    /\ Len(d) = Len(ml)
    /\ \A k \in 1 .. Len(ml) : Told(c.args[ml[k]], ml[k], given[ml[k]], <<d[k]>>)

\* The parts of a callable command.
LEMMA CallableIs ==
  ASSUME NEW c, NEW given, Callable(c, given), NEW i \in 1 .. Len(c.args)
  PROVE  /\ i \in DOMAIN c.args /\ i \in Nat /\ c.args[i] \in ArgSet /\ c.args[i].size # 0
         /\ given[i] \in Nat /\ Written(c, given)[i] = Field(c.args[i], i, given)
         /\ Written(c, given)[i] \in Seq(Plain) /\ Numbers(c)[i] = i
<1>1. i \in DOMAIN c.args /\ i \in Nat /\ c.args[i] \in ArgSet /\ c.args[i].size # 0 /\ given[i] \in Nat
  BY DEF Callable
<1>2. Written(c, given)[i] = Field(c.args[i], i, given) /\ Numbers(c)[i] = i
  BY <1>1 DEF Written, Numbers
<1>3. Field(c.args[i], i, given) \in Seq(Plain)
  <2> DEFINE arg == c.args[i]
  <2>1. arg \in ArgSet /\ arg.size # 0 /\ i \in Nat /\ given[i] \in Nat
    BY <1>1
  <2> HIDE DEF arg
  <2>2. Field(arg, i, given) \in Seq(Plain)
    BY <2>1, FieldPlain
  <2> QED BY <2>2 DEF arg
<1> QED BY <1>1, <1>2, <1>3

\* The command is written, and what is meant found, one argument after the other.
LEMMA OneArgument ==
  ASSUME NEW c, NEW given, Callable(c, given), NEW j \in Nat, j < Len(c.args)
  PROVE  /\ Pre(c, given, j) \in Seq(Plain) /\ MeantPart(c, given, j) \in Seq(Nat)
         /\ Pre(c, given, j + 1) = Pre(c, given, j) \o Field(c.args[j + 1], j + 1, given)
         /\ MeantPart(c, given, j + 1) = Chosen(MeantPart(c, given, j), j + 1, MeantSet(c, given))
<1> DEFINE w == Written(c, given)
           m == Numbers(c)
           M == MeantSet(c, given)
           n == Len(c.args)
<1>0. n \in Nat
  BY DEF Callable
<1>1. \A i \in 1 .. n : w[i] \in Seq(Plain) /\ m[i] \in Nat /\ m[i] = i /\ w[i] = Field(c.args[i], i, given)
  BY CallableIs
<1> HIDE DEF w, m, M, n
<1>2. j + 1 \in 1 .. n /\ \A i \in 1 .. j + 1 : i \in 1 .. n
  BY <1>0 DEF n
<1>3. \A i \in 1 .. j + 1 : w[i] \in Seq(Plain) /\ m[i] \in Nat
  BY <1>1, <1>2
<1>4. /\ Part(w, j) \in Seq(Seq(Plain)) /\ w[j + 1] \in Seq(Plain)
      /\ Part(w, j + 1) = Append(Part(w, j), w[j + 1])
  <2>1. \A i \in 1 .. j + 1 : w[i] \in Seq(Plain)
    BY <1>3
  <2> QED BY <2>1, PartGrows
<1>5. /\ Part(m, j) \in Seq(Nat) /\ m[j + 1] \in Nat
      /\ Part(m, j + 1) = Append(Part(m, j), m[j + 1])
  <2>1. \A i \in 1 .. j + 1 : m[i] \in Nat
    BY <1>3
  <2> QED BY <2>1, PartGrows
<1>6. /\ FlattenSeq(Part(w, j)) \in Seq(Plain)
      /\ FlattenSeq(Part(w, j + 1)) = FlattenSeq(Part(w, j)) \o w[j + 1]
  BY <1>4, FlatFacts
<1>7. /\ Only(Part(m, j), M) \in Seq(Nat)
      /\ Only(Part(m, j + 1), M) = Chosen(Only(Part(m, j), M), m[j + 1], M)
  BY <1>5, OnlyFacts
<1>8. w[j + 1] = Field(c.args[j + 1], j + 1, given) /\ m[j + 1] = j + 1
  BY <1>1, <1>2
<1> QED BY <1>6, <1>7, <1>8 DEF w, m, M, Pre, MeantPart

\* What is told of one argument more.
LEMMA TellsMore ==
  ASSUME NEW c, NEW given, NEW S, NEW fl \in Seq(S), NEW ml \in Seq(Nat), NEW x \in S, NEW i \in Nat
  PROVE  /\ /\ TellsFields(c, given, fl, ml)
            /\ x.tag = c.args[i].tag /\ Told(c.args[i], i, given[i], x.value)
            => TellsFields(c, given, Append(fl, x), Append(ml, i))
         /\ /\ TellsRaw(c, given, fl, ml) /\ Told(c.args[i], i, given[i], <<x>>)
            => TellsRaw(c, given, Append(fl, x), Append(ml, i))
<1> DEFINE f == Append(fl, x)
           m == Append(ml, i)
           n == Len(ml)
           l == Len(fl)
<1>1. /\ Len(f) = l + 1 /\ l \in Nat /\ f[l + 1] = x
      /\ \A k \in 1 .. l : f[k] = fl[k]
  BY AppendIs
<1>2. /\ Len(m) = n + 1 /\ n \in Nat /\ m[n + 1] = i
      /\ \A k \in 1 .. n : m[k] = ml[k]
  BY AppendIs
<1> HIDE DEF f, m, n, l
<1>3. \A k \in 1 .. Len(m) : k \in 1 .. n \/ k = n + 1
  BY <1>2
<1>4. ASSUME TellsFields(c, given, fl, ml),
             x.tag = c.args[i].tag, Told(c.args[i], i, given[i], x.value)
      PROVE  TellsFields(c, given, f, m)
  <2>1. l = n
    BY <1>4 DEF TellsFields, l, n
  <2>2. ASSUME NEW k \in 1 .. Len(m)
        PROVE  f[k].tag = c.args[m[k]].tag /\ Told(c.args[m[k]], m[k], given[m[k]], f[k].value)
    <3>1. CASE k = n + 1
      BY <1>1, <1>2, <1>4, <2>1, <3>1
    <3>2. CASE k \in 1 .. n
      <4>1. f[k] = fl[k] /\ m[k] = ml[k]
        BY <1>1, <1>2, <2>1, <3>2
      <4>2. /\ fl[k].tag = c.args[ml[k]].tag
            /\ Told(c.args[ml[k]], ml[k], given[ml[k]], fl[k].value)
        BY <1>4, <3>2, Zenon DEF TellsFields, n
      <4> QED BY <4>1, <4>2
    <3> QED BY <1>3, <3>1, <3>2
  <2>3. Len(f) = Len(m)
    BY <1>1, <1>2, <2>1
  <2> QED BY <2>2, <2>3, Zenon DEF TellsFields
<1>5. ASSUME TellsRaw(c, given, fl, ml), Told(c.args[i], i, given[i], <<x>>)
      PROVE  TellsRaw(c, given, f, m)
  <2>1. l = n
    BY <1>5 DEF TellsRaw, l, n
  <2>2. ASSUME NEW k \in 1 .. Len(m)
        PROVE  Told(c.args[m[k]], m[k], given[m[k]], <<f[k]>>)
    <3>1. CASE k = n + 1
      <4>1. f[k] = x /\ m[k] = i
        BY <1>1, <1>2, <2>1, <3>1
      <4> QED BY <1>5, <4>1, Zenon
    <3>2. CASE k \in 1 .. n
      <4>1. f[k] = fl[k] /\ m[k] = ml[k]
        BY <1>1, <1>2, <2>1, <3>2
      <4>2. Told(c.args[ml[k]], ml[k], given[ml[k]], <<fl[k]>>)
        BY <1>5, <3>2, Zenon DEF TellsRaw, n
      <4> QED BY <4>1, <4>2, Zenon
    <3> QED BY <1>3, <3>1, <3>2
  <2>3. Len(f) = Len(m)
    BY <1>1, <1>2, <2>1
  <2> QED BY <2>2, <2>3, Zenon DEF TellsRaw
<1> QED BY <1>4, <1>5 DEF f, m


\* The first j arguments, with tags and without: what is read is what is meant.
GoodAt(c, given, j) ==
    Small(Bytes(Pre(c, given, j))) =>
      \E fs \in Seq(FieldRec) :
        /\ Parse(Pre(c, given, j)) = Between(fs)
        /\ TellsFields(c, given, Only(fs, NonEmpty), MeantPart(c, given, j))

RawAt(c, given, j) == TellsRaw(c, given, Pre(c, given, j), MeantPart(c, given, j))

\* Behind the fields of the arguments before it, each argument adds its own field or none.
LEMMA GoodStep ==
  ASSUME NEW c, NEW given, Callable(c, given), Tagged(c), NEW j \in Nat, j < Len(c.args),
         GoodAt(c, given, j)
  PROVE  GoodAt(c, given, j + 1)
<1> DEFINE i == j + 1
           arg == c.args[i]
           g == given[i]
           s == Pre(c, given, j)
           f == Field(arg, i, given)
           v == Content(arg, i, g)
           M == MeantSet(c, given)
           ml == MeantPart(c, given, j)
<1>1. i \in 1 .. Len(c.args)
  BY DEF Callable
<1>2. i \in DOMAIN c.args /\ i \in Nat /\ arg \in ArgSet /\ arg.size # 0 /\ g \in Nat
  <2> HIDE DEF i
  <2> QED BY <1>1, CallableIs
<1>3. arg.tag # 0
  BY <1>2 DEF Tagged
<1>4. /\ s \in Seq(Plain) /\ ml \in Seq(Nat)
      /\ Pre(c, given, i) = s \o f
      /\ MeantPart(c, given, i) = Chosen(ml, i, M)
  BY OneArgument
<1>5. f \in Seq(Plain)
  <2> HIDE DEF arg, i
  <2> QED BY <1>2, FieldPlain
<1>6. v \in Seq(Plain) /\ (SizeOf(arg, g) = 0 => v = <<>>)
      /\ (SizeOf(arg, g) # 0 => v # <<>> /\ Told(arg, i, g, v))
  <2> HIDE DEF arg, i, g
  <2> QED BY <1>2, ContentIs
<1>7. i \in M <=> Present(arg, i, given) /\ SizeOf(arg, g) # 0
  <2> HIDE DEF i
  <2> QED BY <1>2, MeantIs
<1> HIDE DEF s, f, v, M, ml, i
<1>8. SUFFICES ASSUME Small(Bytes(s \o f))
               PROVE  \E fs \in Seq(FieldRec) :
                        /\ Parse(s \o f) = Between(fs)
                        /\ TellsFields(c, given, Only(fs, NonEmpty), Chosen(ml, i, M))
  BY <1>4 DEF GoodAt, i
<1>9. s \in Seq(Item) /\ f \in Seq(Item) /\ Bytes(s \o f) = Bytes(s) + Bytes(f)
      /\ Bytes(s) \in Nat /\ Bytes(f) \in Nat
  <2>1. s \in Seq(Item) /\ f \in Seq(Item)
    BY <1>4, <1>5, PlainIsItem
  <2> QED BY <2>1, BytesConcat, BytesFacts
<1>10. Small(Bytes(s))
  <2> DEFINE a == Bytes(s)
             b == Bytes(f)
             n == Bytes(s \o f)
  <2>1. n = a + b /\ a \in Nat /\ b \in Nat /\ Small(n)
    BY <1>8, <1>9
  <2> HIDE DEF a, b, n
  <2>2. Small(a)
    BY <2>1, SMT DEF Small
  <2> QED BY <2>2 DEF a
<1>11. PICK fs \in Seq(FieldRec) :
          Parse(s) = Between(fs) /\ TellsFields(c, given, Only(fs, NonEmpty), ml)
  BY <1>10 DEF GoodAt, s, ml
<1> DEFINE fl == Only(fs, NonEmpty)
           x == [tag |-> arg.tag, value |-> v]
<1>12. fl \in Seq(FieldRec)
  BY OnlyFacts
<1>13. CASE ~Present(arg, i, given)
  <2>1. f = <<>>
    BY <1>13 DEF f, Field
  <2>2. s \o f = s
    BY <1>9, <2>1, ConcatEmptySeq
  <2>3. Chosen(ml, i, M) = ml
    BY <1>7, <1>13 DEF Chosen
  <2> QED BY <1>11, <2>2, <2>3
<1>14. CASE Present(arg, i, given)
  <2>1. Parse(s \o f) = Between(Append(fs, x))
    <3> HIDE DEF arg
    <3> QED BY <1>2, <1>3, <1>4, <1>8, <1>11, <1>14, FieldAdds DEF f, v
  <2>2. x \in FieldRec /\ x.tag = arg.tag /\ x.value = v
    <3>1. arg.tag \in Nat
      <4> HIDE DEF arg
      <4> QED BY <1>2, ArgTag DEF Octet
    <3>2. v \in Seq(Item)
      BY <1>6, PlainIsItem
    <3> HIDE DEF arg
    <3> QED BY <3>1, <3>2 DEF FieldRec
  <2> HIDE DEF x
  <2>3. Append(fs, x) \in Seq(FieldRec)
    BY <2>2
  <2>4. Only(Append(fs, x), NonEmpty) = Chosen(fl, x, NonEmpty)
    BY <2>2, OnlyFacts
  <2>5. x \in NonEmpty <=> v # <<>>
    BY <2>2 DEF NonEmpty
  <2>6. TellsFields(c, given, Chosen(fl, x, NonEmpty), Chosen(ml, i, M))
    <3> HIDE DEF fl
    <3>1. CASE SizeOf(arg, g) = 0
      <4>1. Chosen(fl, x, NonEmpty) = fl /\ Chosen(ml, i, M) = ml
        BY <1>6, <1>7, <2>5, <3>1 DEF Chosen
      <4> QED BY <1>11, <4>1 DEF fl
    <3>2. CASE SizeOf(arg, g) # 0
      <4>1. Chosen(fl, x, NonEmpty) = Append(fl, x) /\ Chosen(ml, i, M) = Append(ml, i)
        BY <1>6, <1>7, <1>14, <2>5, <3>2 DEF Chosen
      <4>2. Told(c.args[i], i, given[i], x.value) /\ x.tag = c.args[i].tag
        BY <1>6, <2>2, <3>2
      <4>3. TellsFields(c, given, Append(fl, x), Append(ml, i))
        BY <1>2, <1>4, <1>11, <1>12, <2>2, <4>2, TellsMore DEF fl
      <4> QED BY <4>1, <4>3
    <3> QED BY <3>1, <3>2
  <2>7. TellsFields(c, given, Only(Append(fs, x), NonEmpty), Chosen(ml, i, M))
    BY <2>4, <2>6
  <2> QED BY <2>1, <2>3, <2>7
<1> QED BY <1>13, <1>14

\* Where there are no tags, it adds its value or nothing.
LEMMA RawStep ==
  ASSUME NEW c, NEW given, Callable(c, given), Untagged(c), NEW j \in Nat, j < Len(c.args),
         RawAt(c, given, j)
  PROVE  RawAt(c, given, j + 1)
<1> DEFINE i == j + 1
           arg == c.args[i]
           g == given[i]
           s == Pre(c, given, j)
           f == Field(arg, i, given)
           v == Content(arg, i, g)
           x == Value(i, g, SizeOf(arg, g))
           M == MeantSet(c, given)
           ml == MeantPart(c, given, j)
<1>1. i \in 1 .. Len(c.args)
  BY DEF Callable
<1>2. i \in DOMAIN c.args /\ i \in Nat /\ arg \in ArgSet /\ arg.size # 0 /\ g \in Nat
  <2> HIDE DEF i
  <2> QED BY <1>1, CallableIs
<1>3. arg.tag = 0 /\ ~arg.even
  BY <1>2 DEF Untagged
<1>4. /\ s \in Seq(Plain) /\ ml \in Seq(Nat)
      /\ Pre(c, given, i) = s \o f
      /\ MeantPart(c, given, i) = Chosen(ml, i, M)
  BY OneArgument
<1>5. /\ SizeOf(arg, g) \in Nat
      /\ (SizeOf(arg, g) = 0 => v = <<>>)
      /\ (SizeOf(arg, g) # 0 => Told(arg, i, g, v) /\ v = <<x>>)
  <2> HIDE DEF arg, i, g
  <2> QED BY <1>2, <1>3, ContentIs DEF v, x
<1>6. i \in M <=> Present(arg, i, given) /\ SizeOf(arg, g) # 0
  <2> HIDE DEF i
  <2> QED BY <1>2, MeantIs
<1>7. f = IF Present(arg, i, given) THEN v ELSE <<>>
  BY <1>3 DEF Field
<1>8. TellsRaw(c, given, s, ml)
  BY DEF RawAt
<1>9. SizeOf(arg, g) # 0 => x \in Plain
  <2> HIDE DEF arg, i, g
  <2> QED BY <1>2, <1>5, ValueFacts
<1> HIDE DEF s, f, v, M, ml, i, arg, g, x
<1>10. CASE Present(arg, i, given) /\ SizeOf(arg, g) # 0
  <2>1. f = <<x>> /\ x \in Plain
    BY <1>5, <1>7, <1>9, <1>10
  <2>2. s \o <<x>> = Append(s, x)
    BY <1>4, <2>1, AppendIsConcat
  <2>3. Chosen(ml, i, M) = Append(ml, i)
    BY <1>6, <1>10 DEF Chosen
  <2>4. Told(c.args[i], i, given[i], <<x>>)
    BY <1>5, <1>10 DEF arg, g
  <2>5. TellsRaw(c, given, Append(s, x), Append(ml, i))
    BY <1>2, <1>4, <1>8, <2>1, <2>4, TellsMore
  <2>6. TellsRaw(c, given, Pre(c, given, i), MeantPart(c, given, i))
    BY <1>4, <2>1, <2>2, <2>3, <2>5
  <2> QED BY <2>6 DEF RawAt, i
<1>11. CASE ~ (Present(arg, i, given) /\ SizeOf(arg, g) # 0)
  <2>1. f = <<>>
    BY <1>5, <1>7, <1>11
  <2>2. s \o <<>> = s
    BY <1>4, ConcatEmptySeq
  <2>3. Chosen(ml, i, M) = ml
    BY <1>6, <1>11 DEF Chosen
  <2>4. TellsRaw(c, given, Pre(c, given, i), MeantPart(c, given, i))
    BY <1>4, <1>8, <2>1, <2>2, <2>3
  <2> QED BY <2>4 DEF RawAt, i
<1> QED BY <1>10, <1>11


\* All of the arguments: the fields of the whole command tell what is meant.
LEMMA AllArguments ==
  ASSUME NEW c, NEW given, Callable(c, given), Small(Bytes(Fields(c.args, given)))
  PROVE  /\ Fields(c.args, given) \in Seq(Plain) /\ Meant(c, given) \in Seq(Nat)
         /\ Tagged(c) => \E fs \in Seq(FieldRec) :
              /\ Parse(Fields(c.args, given)) = Between(fs)
              /\ TellsFields(c, given, Only(fs, NonEmpty), Meant(c, given))
         /\ Untagged(c) => TellsRaw(c, given, Fields(c.args, given), Meant(c, given))
<1> DEFINE n == Len(c.args)
           w == Written(c, given)
           m == Numbers(c)
           T == {j \in Nat : j <= n => GoodAt(c, given, j)}
           U == {j \in Nat : j <= n => RawAt(c, given, j)}
<1>1. n \in Nat /\ DOMAIN c.args = 1 .. n
  BY DEF Callable
<1>2. Part(w, n) = w /\ Part(w, 0) = <<>>
  <2>1. w = [i \in 1 .. n |-> w[i]] /\ DOMAIN w = 1 .. n
    BY <1>1 DEF Written
  <2> HIDE DEF w, n
  <2> QED BY <1>1, <2>1, WholePart
<1>3. Part(m, n) = m /\ Part(m, 0) = <<>>
  <2>1. m = [i \in 1 .. n |-> m[i]] /\ DOMAIN m = 1 .. n
    BY <1>1 DEF Numbers
  <2> HIDE DEF m, n
  <2> QED BY <1>1, <2>1, WholePart
<1>4. Pre(c, given, n) = Fields(c.args, given)
  <2>1. Fields(c.args, given) = FlattenSeq(w)
    BY DEF Fields, Written
  <2> HIDE DEF w
  <2> QED BY <1>2, <2>1 DEF Pre, w
<1>5. MeantPart(c, given, n) = Meant(c, given)
  <2>1. Meant(c, given) = Only(m, MeantSet(c, given))
    BY DEF Meant, MeantSet, Numbers
  <2> HIDE DEF m
  <2> QED BY <1>3, <2>1 DEF MeantPart, m
<1>6. Pre(c, given, 0) = <<>> /\ MeantPart(c, given, 0) = <<>>
  <2>1. FlattenSeq(<<>>) = <<>> /\ Only(<<>>, MeantSet(c, given)) = <<>>
    BY FlatFacts, OnlyFacts
  <2> QED BY <1>2, <1>3, <2>1 DEF Pre, MeantPart
<1>7. Fields(c.args, given) \in Seq(Plain) /\ Meant(c, given) \in Seq(Nat)
  <2>1. w \in Seq(Seq(Plain))
    <3>1. \A i \in 1 .. n : w[i] \in Seq(Plain)
      BY CallableIs
    <3>2. w = [i \in 1 .. n |-> w[i]]
      BY <1>1 DEF Written
    <3> HIDE DEF w, n
    <3> QED BY <1>1, <3>1, <3>2
  <2>2. m \in Seq(Nat)
    BY <1>1 DEF Numbers
  <2>3. FlattenSeq(w) \in Seq(Plain) /\ Only(m, MeantSet(c, given)) \in Seq(Nat)
    <3> HIDE DEF w, m
    <3> QED BY <2>1, <2>2, FlatFacts, OnlyFacts
  <2>4. Fields(c.args, given) = FlattenSeq(w) /\ Meant(c, given) = Only(m, MeantSet(c, given))
    BY DEF Fields, Written, Meant, MeantSet, Numbers
  <2> QED BY <2>3, <2>4
<1>8. GoodAt(c, given, 0) /\ RawAt(c, given, 0)
  <2>0. <<>> \in Seq(FieldRec)
    OBVIOUS
  <2>1. Only(<<>>, NonEmpty) = <<>> /\ Parse(<<>>) = Between(<<>>)
    BY OnlyFacts, ParseFacts
  <2>2. TellsFields(c, given, <<>>, <<>>) /\ TellsRaw(c, given, <<>>, <<>>)
    BY DEF TellsFields, TellsRaw
  <2>3. RawAt(c, given, 0)
    BY <1>6, <2>2 DEF RawAt
  <2> DEFINE e == <<>>
  <2>4. /\ e \in Seq(FieldRec) /\ Parse(Pre(c, given, 0)) = Between(e)
        /\ TellsFields(c, given, Only(e, NonEmpty), MeantPart(c, given, 0))
    BY <1>6, <2>0, <2>1, <2>2
  <2> HIDE DEF e
  <2>5. GoodAt(c, given, 0)
    BY <2>4, Zenon DEF GoodAt
  <2> QED BY <2>3, <2>5
<1>9. ASSUME Tagged(c) PROVE GoodAt(c, given, n)
  <2>1. 0 \in T /\ T \in SUBSET Nat
    BY <1>8
  <2>2. ASSUME NEW j \in Nat, j \in T, j < n PROVE j + 1 \in T
    <3>1. GoodAt(c, given, j)
      BY <1>1, <2>2
    <3>2. GoodAt(c, given, j + 1)
      BY <1>9, <2>2, <3>1, GoodStep
    <3> QED BY <3>2
  <2> HIDE DEF T, n
  <2>3. \A j \in 0 .. n : j \in T
    BY <1>1, <2>1, <2>2, Climb
  <2>4. n \in T
    BY <1>1, <2>3
  <2> QED BY <1>1, <2>4 DEF T
<1>10. ASSUME Untagged(c) PROVE RawAt(c, given, n)
  <2>1. 0 \in U /\ U \in SUBSET Nat
    BY <1>8
  <2>2. ASSUME NEW j \in Nat, j \in U, j < n PROVE j + 1 \in U
    <3>1. RawAt(c, given, j)
      BY <1>1, <2>2
    <3>2. RawAt(c, given, j + 1)
      BY <1>10, <2>2, <3>1, RawStep
    <3> QED BY <3>2
  <2> HIDE DEF U, n
  <2>3. \A j \in 0 .. n : j \in U
    BY <1>1, <2>1, <2>2, Climb
  <2>4. n \in U
    BY <1>1, <2>3
  <2> QED BY <1>1, <2>4 DEF U
<1> HIDE DEF n, w, m, T, U
<1>11. ASSUME Tagged(c)
       PROVE  \E fs \in Seq(FieldRec) :
              /\ Parse(Fields(c.args, given)) = Between(fs)
              /\ TellsFields(c, given, Only(fs, NonEmpty), Meant(c, given))
  <2>1. GoodAt(c, given, n)
    BY <1>9, <1>11
  <2> QED BY <1>4, <1>5, <2>1 DEF GoodAt
<1>12. ASSUME Untagged(c)
       PROVE  TellsRaw(c, given, Fields(c.args, given), Meant(c, given))
  <2>1. RawAt(c, given, n)
    BY <1>10, <1>12
  <2> QED BY <1>4, <1>5, <2>1 DEF RawAt
<1> QED BY <1>7, <1>11, <1>12

-----------------------------------------------------------------------------
(* What the SE gets.                                                       *)

\* What EncodingAssumption says of one command.
LEMMA TableIs ==
  ASSUME NEW c \in Table, NEW given \in Givens(c), ~c.refused
  PROVE  /\ Known(c) /\ Callable(c, given)
         /\ c.applet = "T4T" => Untagged(c)
         /\ c.applet # "T4T" => Tagged(c)
<1>1. WellFormed(c) /\ given \in [DOMAIN c.args -> Nat]
  BY EncodingAssumption, SMT
<1>2. Known(c)
  BY <1>1, SMT DEF WellFormed, Known
<1>3. /\ c.args \in Seq(ArgSet)
      /\ \A i \in DOMAIN c.args :
           /\ c.args[i].size # 0
           /\ IF c.applet = "T4T" THEN c.args[i].tag = 0 /\ ~c.args[i].even ELSE c.args[i].tag # 0
  BY <1>1, SMT DEF WellFormed, ArgSet
<1>4. Callable(c, given)
  BY <1>1, <1>3, SMT DEF Callable
<1>5. c.applet = "T4T" => Untagged(c)
  BY <1>3, SMT DEF Untagged
<1>6. c.applet # "T4T" => Tagged(c)
  BY <1>3, SMT DEF Tagged
<1> QED BY <1>2, <1>4, <1>5, <1>6

\* A command that is sent tells the SE what it is given.
Tells(c, given, apdu) ==
    LET meant  == Meant(c, given)
        all    == FieldsIn(apdu.data)
        fields == Only(all, {f \in Range(all) : f.value # <<>>})
        raw    == c.applet = "T4T"
    IN  /\ apdu.ok /\ apdu.hdr = Header(c)
        /\ raw \/ WholeFields(apdu.data)
        /\ IF raw THEN Len(apdu.data) = Len(meant) ELSE Len(fields) = Len(meant)
        /\ \A k \in DOMAIN meant :
             LET i == meant[k]
             IN  /\ raw \/ fields[k].tag = c.args[i].tag
                 /\ Told(c.args[i], i, given[i], IF raw THEN <<apdu.data[k]>> ELSE fields[k].value)

\* Whatever the session and the channel, the SE understands what the call was given.
LEMMA SentTells ==
  ASSUME NEW c \in Table, NEW given \in Givens(c), ~GivesUp(c, given),
         session \in BOOLEAN, scp \in BOOLEAN
  PROVE  Tells(c, given, Understood(ToSend(c, given)))
<1> DEFINE d == Fields(c.args, given)
           m == Meant(c, given)
           apdu == AsRead(Header(c), d)
<1>1. ~c.refused /\ Bytes(d) <= MaxCmd
  BY DEF GivesUp, Fits
<1>2. /\ Known(c) /\ Callable(c, given)
      /\ c.applet = "T4T" => Untagged(c)
      /\ c.applet # "T4T" => Tagged(c)
  BY <1>1, TableIs
<1>3. d \in Seq(Item) /\ d \in Seq(Plain)
  <2>1. \A i \in 1 .. Len(c.args) : Written(c, given)[i] \in Seq(Plain)
    BY <1>2, CallableIs
  <2> DEFINE w == Written(c, given)
             n == Len(c.args)
  <2>2. n \in Nat /\ w = [i \in 1 .. n |-> w[i]]
    BY <1>2 DEF Callable, Written
  <2>3. d = FlattenSeq(w)
    BY DEF Fields, Written
  <2>4. \A i \in 1 .. n : w[i] \in Seq(Plain)
    BY <2>1
  <2> HIDE DEF w, n, d
  <2>5. w \in Seq(Seq(Plain))
    BY <2>2, <2>4
  <2> QED BY <2>3, <2>5, FlatFacts, PlainIsItem
<1>4. Small(Bytes(d))
  <2> DEFINE n == Bytes(d)
  <2>1. n \in Nat /\ n <= MaxCmd
    <3> HIDE DEF d
    <3> QED BY <1>1, <1>3, BytesFacts
  <2>2. MaxCmd \in Nat /\ MaxCmd < 65000
    BY CommandsAssumption, EncodingAssumption, SMT
  <2> HIDE DEF n
  <2>3. Small(n)
    BY <2>1, <2>2, SMT DEF Small
  <2> QED BY <2>3 DEF n
<1>5. Understood(ToSend(c, given)) = apdu
  <2>1. ToSend(c, given) = Sent(Header(c), d, c.hasle, session, scp)
    BY DEF ToSend
  <2> HIDE DEF d
  <2>2. Understood(Sent(Header(c), d, c.hasle, session, scp)) = AsRead(Header(c), d)
    BY <1>2, <1>3, <1>4, SentUnderstood
  <2> QED BY <2>1, <2>2
<1>6. apdu.ok /\ apdu.hdr = Header(c) /\ apdu.data = d
  BY DEF AsRead
<1>7. /\ m \in Seq(Nat)
      /\ Tagged(c) => \E fs \in Seq(FieldRec) :
              Parse(d) = Between(fs) /\ TellsFields(c, given, Only(fs, NonEmpty), m)
      /\ Untagged(c) => TellsRaw(c, given, d, m)
  BY <1>2, <1>4, AllArguments
<1> HIDE DEF d, m, apdu
<1>8. DOMAIN m = 1 .. Len(m)
  BY <1>7
<1>9. CASE c.applet = "T4T"
  <2>1. Len(d) = Len(m) /\ \A k \in 1 .. Len(m) : Told(c.args[m[k]], m[k], given[m[k]], <<d[k]>>)
    BY <1>2, <1>7, <1>9 DEF TellsRaw
  <2>2. Tells(c, given, apdu)
    BY <1>6, <1>8, <1>9, <2>1, Zenon DEF Tells, m
  <2> QED BY <1>5, <2>2
<1>10. CASE c.applet # "T4T"
  <2>1. PICK fs \in Seq(FieldRec) : Parse(d) = Between(fs) /\ TellsFields(c, given, Only(fs, NonEmpty), m)
    BY <1>2, <1>7, <1>10
  <2>2. FieldsIn(d) = fs /\ WholeFields(d)
    BY <2>1 DEF FieldsIn, WholeFields, Between, At
  <2> DEFINE T == {f \in Range(fs) : f.value # <<>>}
             fl == Only(fs, NonEmpty)
  <2>3. Only(fs, T) = fl
    <3>1. \A x \in Range(fs) : x \in FieldRec
      BY DEF Range
    <3>2. \A x \in Range(fs) : x \in T <=> x \in NonEmpty
      BY <3>1 DEF NonEmpty
    <3> HIDE DEF T
    <3> QED BY <3>2, OnlyMeets
  <2> HIDE DEF fl
  <2>4. /\ Len(fl) = Len(m)
        /\ \A k \in 1 .. Len(m) : /\ fl[k].tag = c.args[m[k]].tag
                                 /\ Told(c.args[m[k]], m[k], given[m[k]], fl[k].value)
    BY <2>1, Zenon DEF TellsFields, fl
  <2>5. Only(FieldsIn(apdu.data), {f \in Range(FieldsIn(apdu.data)) : f.value # <<>>}) = fl
    BY <1>6, <2>2, <2>3
  <2>6. Tells(c, given, apdu)
    BY <1>6, <1>8, <1>10, <2>2, <2>4, <2>5, Zenon DEF Tells, m
  <2> QED BY <1>5, <2>6
<1> QED BY <1>9, <1>10

-----------------------------------------------------------------------------
(* What is sent, and not answered yet, is the command of the call.         *)

\* The command in flight is the one of the call, made by the session and channel there are.
SentInv ==
    /\ session \in BOOLEAN /\ scp \in BOOLEAN
    /\ sent # <<>> /\ answer = NoAnswer =>
         /\ call.c \in Table /\ call.given \in Givens(call.c)
         /\ ~GivesUp(call.c, call.given) /\ sent = ToSend(call.c, call.given)

\* At first nothing is sent.
LEMMA SentInit == Init => SentInv
BY CommandsAssumption, SMT DEF Init, SentInv

\* Session and channel do not change while a command is in flight.
LEMMA SentNext == SentInv /\ [Next]_vars => SentInv'
<1> SUFFICES ASSUME SentInv, [Next]_vars PROVE SentInv'
  OBVIOUS
<1>0. session \in BOOLEAN /\ scp \in BOOLEAN
  BY DEF SentInv
<1>1. ASSUME NEW c \in Table, NEW given \in Givens(c), Call(c, given) PROVE SentInv'
  <2>1. /\ call' = [c |-> c, given |-> given] /\ session' = session /\ scp' = scp
        /\ call'.c = c /\ call'.given = given
    BY <1>1 DEF Call
  <2>2. CASE GivesUp(c, given)
    <3>1. sent' = <<>>
      BY <1>1, <2>2 DEF Call
    <3> QED BY <1>0, <2>1, <3>1 DEF SentInv
  <2>3. CASE ~GivesUp(c, given)
    <3>1. sent' = ToSend(c, given)
      BY <1>1, <2>3 DEF Call
    <3>2. ~GivesUp(c, given)'
      BY <2>1, <2>3 DEF GivesUp
    <3>3. ToSend(c, given)' = ToSend(c, given)
      BY <2>1 DEF ToSend
    <3>4. ~GivesUp(call.c, call.given)' /\ ToSend(call.c, call.given)' = ToSend(c, given)'
      BY <2>1, <3>2 DEF GivesUp, ToSend
    <3> QED BY <1>0, <2>1, <3>1, <3>3, <3>4 DEF SentInv
  <2> QED BY <2>2, <2>3
<1>2. ASSUME answer' # NoAnswer, session' \in BOOLEAN, scp' = scp PROVE SentInv'
  BY <1>0, <1>2 DEF SentInv, NoAnswer
<1>3. CASE SeAnswers
  <2>1. answer'.sw \in {"OK", "error", "lost"}
    BY <1>3 DEF SeAnswers
  <2>2. answer' # NoAnswer
    BY <2>1 DEF NoAnswer
  <2>3. session' = session /\ scp' = scp
    BY <1>3 DEF SeAnswers
  <2> QED BY <1>0, <1>2, <2>2, <2>3
<1>4. ASSUME UNCHANGED <<session, scp, call, sent, answer>> PROVE SentInv'
  BY <1>4 DEF SentInv, GivesUp, ToSend, NoAnswer
<1>5. CASE TlvGet
  BY <1>4, <1>5 DEF TlvGet
<1>6. CASE Return
  <2>1. answer' # NoAnswer /\ scp' = scp /\ session' \in BOOLEAN
    BY <1>6 DEF Return, NoAnswer
  <2> QED BY <1>2, <2>1
<1>7. CASE Done
  BY <1>0, <1>7 DEF Done, SentInv
<1>8. CASE UNCHANGED vars
  BY <1>4, <1>8 DEF vars
<1> QED BY <1>1, <1>3, <1>5, <1>6, <1>7, <1>8 DEF Next

\* So the SE understands what was meant.
LEMMA SentIsAsGiven == SentInv => SentAsGiven
<1> SUFFICES ASSUME SentInv, sent # <<>>, answer = NoAnswer
             PROVE  Tells(call.c, call.given, Understood(sent))
  BY Zenon DEF SentAsGiven, Tells
<1>1. /\ call.c \in Table /\ call.given \in Givens(call.c)
      /\ ~GivesUp(call.c, call.given) /\ sent = ToSend(call.c, call.given)
      /\ session \in BOOLEAN /\ scp \in BOOLEAN
  BY DEF SentInv
<1>2. Tells(call.c, call.given, Understood(ToSend(call.c, call.given)))
  BY <1>1, SentTells
<1> QED BY <1>1, <1>2

\* Whatever command of the API is called with whatever arguments, with or without a
\* session and a secure channel: the command that goes out (the tlvSet functions and
\* DoAPDUTxRx of se05x_tlv.c, its se05x_Transform and se05x_Transform_scp, and
\* sss_se05x_TXn) is one the SE takes apart into just the header and the values the call was given.
THEOREM CommandsSayWhatIsMeant == Spec => []SentAsGiven
BY SentInit, SentNext, SentIsAsGiven, PTL DEF Spec

=============================================================================
