------------------------- MODULE SssContexts_proofs -------------------------
(***************************************************************************)
(* What the contexts of SssContexts keep of a message is right, for        *)
(* blocks, APDUs and pieces of any size, any number of contexts, messages  *)
(* and failed exchanges.                                                   *)
(*                                                                         *)
(* The inductive invariant CInv is about the middle of a message: what     *)
(* the object of the SE or of the library holds is whole blocks, and       *)
(* followed by the cache it is all that was given so far (Holds); of the   *)
(* contexts that share an object one at most has a message that goes on    *)
(* (OneOpen).                                                              *)
(*                                                                         *)
(* A call is a sequence of requests of any length, and After is their      *)
(* effect, a recursive function.  What it computes is proved by descent:   *)
(* LeastNat takes the least number for which a claim fails, and Climb      *)
(* makes that an induction over a set of numbers.                          *)
(***************************************************************************)
EXTENDS SssContexts, SequenceTheorems, WellFoundedInduction, TLAPS

-----------------------------------------------------------------------------
(* Numbers and blocks.                                                     *)

\* A set of numbers has a least one.
LEMMA LeastNat ==
  ASSUME NEW T \in SUBSET Nat, T # {}
  PROVE  \E n \in T : \A m \in T : n <= m
<1> DEFINE R == {ss \in Nat \X Nat : ss[1] < ss[2]}
<1>1. IsWellFoundedOn(R, Nat)
  <2>1. IsWellFoundedOn(OpToRel(<, Nat), Nat)
    BY ONLY NatLessThanWellFounded
  <2>2. OpToRel(<, Nat) = R
    BY DEF OpToRel
  <2> QED BY <2>1, <2>2
<1>2. \A x, y \in Nat : <<y, x>> \in R <=> y < x
  OBVIOUS
<1> HIDE DEF R
<1>3. PICK x \in T : \A y \in T : ~ (<<y, x>> \in R)
  BY <1>1, WFMin
<1>4. ASSUME NEW y \in T
      PROVE  x <= y
  <2>1. x \in Nat /\ y \in Nat
    OBVIOUS
  <2>2. ~ (<<y, x>> \in R)
    BY <1>3
  <2>3. ~ (y < x)
    BY <2>1, <2>2, <1>2
  <2> QED BY <2>1, <2>3
<1> QED BY <1>4

\* A number that starts at 0 and is passed on to the next reaches all up to n.
LEMMA Climb ==
  ASSUME NEW n \in Nat, NEW S \in SUBSET Nat, 0 \in S,
         \A i \in Nat : i \in S /\ i < n => i + 1 \in S
  PROVE  0 .. n \subseteq S
<1> DEFINE T == (0 .. n) \ S
<1>1. SUFFICES ASSUME T # {} PROVE FALSE
  OBVIOUS
<1>2. T \in SUBSET Nat
  OBVIOUS
<1>3. PICK m \in T : \A k \in T : m <= k
  BY <1>1, <1>2, LeastNat
<1>4. m \in Nat /\ m # 0 /\ m <= n
  BY <1>3
<1>5. m - 1 \in Nat /\ m - 1 < n /\ m - 1 \notin T
  BY <1>3, <1>4
<1>6. m - 1 \in S
  BY <1>5
<1>7. (m - 1) + 1 \in S
  BY <1>5, <1>6
<1>8. m \in S
  BY <1>7, <1>4
<1> QED BY <1>8, <1>3

\* Blocks have a unit, and an APDU's data is whole blocks.
LEMMA BlockFacts == Block \in Nat /\ Block # 0 /\ Block > 0 /\ MaxChunk \in Nat /\ MaxChunk > 0 /\ Whole(MaxChunk)
BY ContextsAssumption DEF Whole

\* What division and remainder are.
LEMMA Quotients ==
  ASSUME NEW a \in Nat, NEW b \in Nat, b > 0
  PROVE  /\ a \div b \in Nat /\ a % b \in Nat /\ a % b < b
         /\ a = b * (a \div b) + (a % b) /\ a % b <= a
OBVIOUS

\* Only one remainder fits.
LEMMA Remainder ==
  ASSUME NEW b \in Nat, b > 0, NEW q \in Nat, NEW r \in Nat, r < b
  PROVE  (b * q + r) % b = r
OBVIOUS

\* Whole numbers of blocks are the multiples of a block.
LEMMA Multiples ==
  ASSUME NEW a \in Nat
  PROVE  Whole(a) <=> \E q \in Nat : a = Block * q
<1>1. Whole(a) => a = Block * (a \div Block) /\ a \div Block \in Nat
  BY Quotients, BlockFacts DEF Whole
<1>2. ASSUME NEW q \in Nat, a = Block * q
      PROVE  Whole(a)
  <2>1. (Block * q + 0) % Block = 0
    BY BlockFacts, Remainder
  <2>2. Block * q + 0 = a
    BY <1>2
  <2> QED BY <2>1, <2>2 DEF Whole
<1> QED BY <1>1, <1>2

\* None and one are whole numbers of blocks.
LEMMA BlocksAreWhole == Whole(0) /\ Whole(Block)
BY BlockFacts, Multiples DEF Whole

\* Whole numbers of blocks add up to whole ones, and do not change what is left over.
LEMMA WholeSum ==
  ASSUME NEW a \in Nat, NEW b \in Nat, Whole(a)
  PROVE  /\ (a + b) % Block = b % Block
         /\ Whole(a + b) <=> Whole(b)
         /\ Over(a + b) = Over(b)
<1>1. PICK p \in Nat : a = Block * p
  BY Multiples
<1> DEFINE q == b \div Block
           r == b % Block
<1>2. q \in Nat /\ r \in Nat /\ r < Block /\ b = Block * q + r
  BY Quotients, BlockFacts
<1> HIDE DEF q, r
<1>3. Block * (p + q) = Block * p + Block * q
  BY <1>2, BlockFacts
<1>4. a + b = Block * (p + q) + r /\ p + q \in Nat
  BY <1>1, <1>2, <1>3, BlockFacts
<1>5. (a + b) % Block = r
  BY <1>4, <1>2, BlockFacts, Remainder
<1> QED BY <1>5 DEF r, Whole, Over

\* What fills up a block makes it whole.
LEMMA OverFacts ==
  ASSUME NEW n \in Nat
  PROVE  Over(n) \in Nat /\ Over(n) < Block /\ Whole(n + Over(n))
<1>1. CASE Whole(n)
  BY <1>1, BlockFacts DEF Over, Whole
<1>2. CASE ~ Whole(n)
  <2> DEFINE q == n \div Block
             r == n % Block
  <2>1. q \in Nat /\ r \in Nat /\ r < Block /\ n = Block * q + r /\ r # 0
    BY <1>2, Quotients, BlockFacts DEF Whole
  <2>2. Over(n) = Block - r
    BY <2>1 DEF Over
  <2> HIDE DEF q, r
  <2>3. Block * (q + 1) = Block * q + Block
    BY <2>1, BlockFacts
  <2>4. n + Over(n) = Block * (q + 1) /\ q + 1 \in Nat /\ Over(n) \in Nat /\ Over(n) < Block
    BY <2>1, <2>2, <2>3, BlockFacts
  <2> QED BY <2>4, Multiples
<1> QED BY <1>1, <1>2

-----------------------------------------------------------------------------
(* Requests, one after the other.                                          *)

IsRun(f, N, o, reqs) == f = [i \in 0 .. N |-> IF i = 0 THEN o ELSE Does(f[i - 1], reqs[i])]

\* The recursion of After has a solution.
LEMMA RunExists ==
  ASSUME NEW N \in Nat, NEW o, NEW reqs
  PROVE  \E f : IsRun(f, N, o, reqs)
<1> DEFINE S == {n \in Nat : \E f : IsRun(f, n, o, reqs)}
<1>1. 0 \in S
  <2> DEFINE f == [i \in 0 .. 0 |-> o]
  <2>1. IsRun(f, 0, o, reqs)
    BY DEF IsRun
  <2> QED BY <2>1
<1>2. ASSUME NEW n \in Nat, n \in S
      PROVE  n + 1 \in S
  <2>1. PICK f : IsRun(f, n, o, reqs)
    BY <1>2
  <2> DEFINE g == [i \in 0 .. (n + 1) |-> IF i <= n THEN f[i] ELSE Does(f[n], reqs[i])]
             h == [i \in 0 .. (n + 1) |-> IF i = 0 THEN o ELSE Does(g[i - 1], reqs[i])]
  <2>2. ASSUME NEW i \in 0 .. (n + 1)
        PROVE  g[i] = h[i]
    <3>1. CASE i = 0
      BY <3>1, <2>1 DEF IsRun
    <3>2. CASE i # 0 /\ i <= n
      <4>1. f[i] = Does(f[i - 1], reqs[i])
        BY <3>2, <2>1 DEF IsRun
      <4>2. g[i] = f[i] /\ g[i - 1] = f[i - 1]
        BY <3>2
      <4> QED BY <4>1, <4>2, <3>2
    <3>3. CASE i = n + 1
      <4>1. g[i] = Does(f[n], reqs[i]) /\ g[i - 1] = f[n] /\ i # 0
        BY <3>3
      <4> QED BY <4>1
    <3> QED BY <3>1, <3>2, <3>3
  <2>3. g = h
    BY <2>2
  <2> HIDE DEF g
  <2>4. IsRun(g, n + 1, o, reqs)
    BY <2>3 DEF IsRun
  <2> QED BY <2>4
<1> HIDE DEF S
<1>3. S \in SUBSET Nat
  BY DEF S
<1>4. N \in S
  BY <1>1, <1>2, <1>3, Climb
<1> QED BY <1>4 DEF S

\* What After is, request by request.
LEMMA AfterSteps ==
  ASSUME NEW o, NEW S, NEW reqs \in Seq(S)
  PROVE  /\ After(o, reqs, 0) = o
         /\ \A n \in 1 .. Len(reqs) : After(o, reqs, n) = Does(After(o, reqs, n - 1), reqs[n])
<1> DEFINE did == CHOOSE f : IsRun(f, Len(reqs), o, reqs)
<1>0. Len(reqs) \in Nat
  OBVIOUS
<1>1. IsRun(did, Len(reqs), o, reqs)
  BY <1>0, RunExists
<1>2. \A n : After(o, reqs, n) = did[n]
  BY DEF After, IsRun
<1> HIDE DEF did
<1>3. did = [i \in 0 .. Len(reqs) |-> IF i = 0 THEN o ELSE Does(did[i - 1], reqs[i])]
  BY <1>1 DEF IsRun
<1>4. did[0] = o
  BY <1>0, <1>3
<1>5. ASSUME NEW n \in 1 .. Len(reqs)
      PROVE  did[n] = Does(did[n - 1], reqs[n])
  BY <1>0, <1>3
<1> QED BY <1>2, <1>4, <1>5

\* How a sequence of requests ends: what was done was taken, one after the other; without
\* a fault it stops only at one that is not taken.
LEMMA EndsFacts ==
  ASSUME NEW c, NEW S, NEW reqs \in Seq(S), NEW e \in Ends(c, reqs), faults \in 0 .. MaxFaults
  PROVE  LET k == kind[c]
             o == object[ObjectOf(c)]
         IN  /\ DidOf(reqs, e) \in 0 .. Len(reqs)
             /\ \A n \in 1 .. DidOf(reqs, e) : Takes(k, After(o, reqs, n - 1), reqs[n])
             /\ e.bad \in 0 .. Len(reqs) /\ e.faults \in {0, 1} /\ faults + e.faults \in 0 .. MaxFaults
             /\ e.bad = 0 => DidOf(reqs, e) = Len(reqs) /\ e.faults = 0
             /\ e.bad # 0 /\ e.faults = 0 =>
                  /\ e.bad \in 1 .. Len(reqs) /\ DidOf(reqs, e) = e.bad - 1
                  /\ ~ Takes(k, After(o, reqs, e.bad - 1), reqs[e.bad])
<1> DEFINE k == kind[c]
           o == object[ObjectOf(c)]
           no == Refused(k, o, reqs)
           first == IF no = {} THEN Len(reqs) + 1 ELSE CHOOSE n \in no : \A i \in no : n <= i
           faulty == IF faults < MaxFaults THEN {n \in 1 .. (first - 1) : Looked(k, reqs[n])} ELSE {}
<1>1. Len(reqs) \in Nat /\ MaxFaults \in Nat /\ faults \in Nat /\ faults <= MaxFaults
  BY ContextsAssumption
<1>2. /\ no \subseteq 1 .. Len(reqs)
      /\ \A n \in 1 .. Len(reqs) : n \in no <=> ~ Takes(k, After(o, reqs, n - 1), reqs[n])
  BY DEF Refused
<1>3. \/ e.faults = 1 /\ e.bad \in faulty /\ e.did \in {0, 1}
      \/ e.faults = 0 /\ e.did = 0 /\ e.bad = IF no = {} THEN 0 ELSE first
  <2>1. Ends(c, reqs) = {[bad |-> n, did |-> d, faults |-> 1] : n \in faulty, d \in {0, 1}}
                        \cup {[bad |-> IF no = {} THEN 0 ELSE first, did |-> 0, faults |-> 0]}
    BY DEF Ends
  <2> HIDE DEF no, first, faulty
  <2> QED BY <2>1
<1> HIDE DEF no
<1>4. /\ no = {} => first = Len(reqs) + 1
      /\ no # {} => first \in no
      /\ \A i \in no : first <= i
  <2>1. CASE no = {}
    BY <2>1
  <2>2. CASE no # {}
    <3>1. no \in SUBSET Nat
      BY <1>1, <1>2
    <3>2. \E n \in no : \A i \in no : n <= i
      BY <2>2, <3>1, LeastNat
    <3>3. first = CHOOSE n \in no : \A i \in no : n <= i
      BY <2>2
    <3> QED BY <2>2, <3>2, <3>3
  <2> QED BY <2>1, <2>2
<1> HIDE DEF first
<1>5. first \in 1 .. (Len(reqs) + 1)
  <2>1. no = {} => first = Len(reqs) + 1
    BY <1>4
  <2>2. no # {} => first \in 1 .. Len(reqs)
    BY <1>2, <1>4
  <2> QED BY <1>1, <2>1, <2>2
<1>6. \A n \in 1 .. (first - 1) : Takes(k, After(o, reqs, n - 1), reqs[n])
  <2>1. ASSUME NEW n \in 1 .. (first - 1)
        PROVE  n \in 1 .. Len(reqs) /\ n \notin no
    BY <1>1, <1>4, <1>5
  <2> QED BY <2>1, <1>2
<1>7. CASE e.faults = 1 /\ e.bad \in faulty /\ e.did \in {0, 1}
  <2>1. faults < MaxFaults /\ e.bad \in 1 .. (first - 1)
    BY <1>7
  <2>2. DidOf(reqs, e) = e.bad - 1 + e.did
    BY <2>1 DEF DidOf
  <2>3. DidOf(reqs, e) \in 0 .. (first - 1)
    BY <2>1, <2>2, <1>5, <1>7
  <2>4. \A n \in 1 .. DidOf(reqs, e) : n \in 1 .. (first - 1)
    BY <2>3, <1>5
  <2> QED BY <2>1, <2>3, <2>4, <1>1, <1>5, <1>6, <1>7
<1>8. CASE e.faults = 0 /\ e.bad = 0 /\ no = {}
  <2>1. DidOf(reqs, e) = Len(reqs) /\ first = Len(reqs) + 1
    BY <1>8, <1>4 DEF DidOf
  <2>2. first - 1 = Len(reqs)
    BY <2>1, <1>1
  <2> QED BY <2>1, <2>2, <1>1, <1>6, <1>8
<1>9. CASE e.faults = 0 /\ e.did = 0 /\ e.bad = first /\ no # {}
  <2>1. first \in no /\ first \in 1 .. Len(reqs)
    BY <1>2, <1>4, <1>9
  <2>2. DidOf(reqs, e) = first - 1
    BY <2>1, <1>9, <1>1 DEF DidOf
  <2>3. ~ Takes(k, After(o, reqs, first - 1), reqs[first])
    BY <2>1, <1>2
  <2> QED BY <2>1, <2>2, <2>3, <1>1, <1>6, <1>9
<1> QED BY <1>3, <1>7, <1>8, <1>9

-----------------------------------------------------------------------------
(* Units of data, and the pieces they come in.                             *)

Unit == {<<m, i>> : m \in 1 .. MaxMessages, i \in 1 .. (MaxTotal + MaxAad)} \cup {Zero}

Objects  == [st : {"none", "idle", "live"}, data : Data, aad : Data, want : 0 .. MaxTotal]
Requests == [op : {"create", "start", "delete", "aad", "update", "last", "final"}, data : Data, want : 0 .. MaxTotal]

\* Data is the sequences of units.
LEMMA DataIs == Data = Seq(Unit)
BY DEF Data, Unit

\* Sequences of units, joined and cut, are such sequences.
LEMMA DataFacts ==
  /\ <<>> \in Data
  /\ \A s \in Data : Len(s) \in Nat /\ (s = <<>> <=> Len(s) = 0) /\ s \o <<>> = s /\ <<>> \o s = s
  /\ \A s, t \in Data : s \o t \in Data /\ Len(s \o t) = Len(s) + Len(t)
  /\ \A s, t, u \in Data : (s \o t) \o u = s \o (t \o u)
<1>1. \A s \in Data : Len(s) \in Nat /\ (s = <<>> <=> Len(s) = 0) /\ s \o <<>> = s /\ <<>> \o s = s
  BY DataIs, EmptySeq, ConcatEmptySeq
<1>2. \A s, t \in Data : s \o t \in Data /\ Len(s \o t) = Len(s) + Len(t)
  BY DataIs, ConcatProperties
<1>3. \A s, t, u \in Data : (s \o t) \o u = s \o (t \o u)
  BY DataIs, ConcatAssociative
<1> QED BY <1>1, <1>2, <1>3, DataIs, EmptySeq

\* Joining three sequences, it does not matter which two are joined first.
LEMMA Associative ==
  ASSUME NEW s \in Data, NEW t \in Data, NEW u \in Data
  PROVE  (s \o t) \o u = s \o (t \o u)
BY DataFacts

\* Two sequences of units make one.
LEMMA JoinFacts ==
  ASSUME NEW s \in Data, NEW t \in Data
  PROVE  s \o t \in Data /\ Len(s \o t) = Len(s) + Len(t) /\ Len(s) \in Nat /\ Len(t) \in Nat
BY DataFacts

\* A part of a sequence, and the part before it.
LEMMA SubSeqFacts ==
  ASSUME NEW s \in Data, NEW a \in Nat, NEW b \in Nat, a <= b, b <= Len(s)
  PROVE  /\ SubSeq(s, a + 1, b) \in Data /\ Len(SubSeq(s, a + 1, b)) = b - a
         /\ SubSeq(s, 1, a) \o SubSeq(s, a + 1, b) = SubSeq(s, 1, b)
<1>1. s \in Seq(Unit) /\ Len(s) \in Nat /\ \A i \in (a + 1) .. b : s[i] \in Unit
  BY DataIs
<1>2. SubSeq(s, a + 1, b) \in Data /\ Len(SubSeq(s, a + 1, b)) = b - a
  BY <1>1, DataIs, SubSeqProperties
<1>3. SubSeq(s, 1, a) \o SubSeq(s, a + 1, b) = SubSeq(s, 1, b)
  <2>1. 1 \in 1 .. Len(s) + 1 /\ a \in 1 - 1 .. Len(s) /\ b \in a .. Len(s)
    BY <1>1
  <2> QED BY <2>1, <1>1, ConcatAdjacentSubSeq
<1> QED BY <1>2, <1>3

\* The part with nothing in it and the part with all.
LEMMA WholeSeq ==
  ASSUME NEW s \in Data
  PROVE  SubSeq(s, 1, 0) = <<>> /\ SubSeq(s, 1, Len(s)) = s
BY DataIs, SubSeqEmpty, SubSeqFull

\* What an application gives in two pieces is what it gives in one.
LEMMA UnitsFacts ==
  ASSUME NEW m \in 1 .. MaxMessages, NEW from \in Nat, NEW n \in Nat, from + n <= MaxTotal + MaxAad
  PROVE  /\ Piece(m, from, n) \in Data /\ Len(Piece(m, from, n)) = n
         /\ Units(m, from) \in Data /\ Len(Units(m, from)) = from
         /\ Units(m, from) \o Piece(m, from, n) = Units(m, from + n)
<1>1. MaxTotal + MaxAad \in Nat
  BY ContextsAssumption
<1>2. \A i \in 1 .. n : <<m, from + i>> \in Unit
  BY <1>1 DEF Unit
<1>3. Piece(m, from, n) \in Data /\ Len(Piece(m, from, n)) = n
  BY <1>2, DataIs DEF Piece
<1>4. ASSUME NEW j \in Nat, j <= MaxTotal + MaxAad
      PROVE  Units(m, j) \in Data /\ Len(Units(m, j)) = j
  <2>1. \A i \in 1 .. j : <<m, i>> \in Unit
    BY <1>1, <1>4 DEF Unit
  <2> QED BY <2>1, DataIs DEF Units
<1>5. Units(m, from) \in Data /\ Len(Units(m, from)) = from
  BY <1>1, <1>4
<1>6. Units(m, from + n) \in Data /\ Len(Units(m, from + n)) = from + n
  BY <1>1, <1>4
<1> DEFINE both == Units(m, from) \o Piece(m, from, n)
<1>7. /\ both \in Data /\ Len(both) = from + n
      /\ \A i \in 1 .. (from + n) : both[i] = IF i <= from THEN Units(m, from)[i] ELSE Piece(m, from, n)[i - from]
  BY <1>3, <1>5, DataIs, ConcatProperties
<1> HIDE DEF both
<1>8. ASSUME NEW i \in 1 .. (from + n)
      PROVE  both[i] = Units(m, from + n)[i]
  <2>1. CASE i <= from
    BY <2>1, <1>7 DEF Units
  <2>2. CASE i > from
    <3>1. i - from \in 1 .. n /\ from + (i - from) = i
      BY <2>2
    <3>2. Piece(m, from, n)[i - from] = <<m, i>>
      BY <3>1 DEF Piece
    <3> QED BY <2>2, <3>2, <1>7 DEF Units
  <2> QED BY <2>1, <2>2
<1>9. both = Units(m, from + n)
  BY <1>6, <1>7, <1>8, DataIs, SeqEqual
<1> QED BY <1>3, <1>5, <1>9 DEF both

\* What fills up a block is data too.
LEMMA ZerosFacts ==
  ASSUME NEW n \in Nat
  PROVE  Zeros(n) \in Data /\ Len(Zeros(n)) = n /\ (n = 0 => Zeros(n) = <<>>)
<1>1. Zeros(n) \in Data /\ Len(Zeros(n)) = n
  BY DataIs DEF Zeros, Unit
<1> QED BY <1>1, DataFacts

\* Where piece number i of a sequence that is cut ends.
Upto(s, size, i) == IF size * i <= Len(s) THEN size * i ELSE Len(s)

\* Pieces of a cut follow one another and are the sequence together.
LEMMA CutFacts ==
  ASSUME NEW s \in Data, NEW size \in Nat, size > 0
  PROVE  LET cut == Cut(s, size) IN
         /\ cut \in Seq(Data) /\ Len(cut) \in Nat
         /\ Upto(s, size, 0) = 0 /\ Upto(s, size, Len(cut)) = Len(s)
         /\ \A i \in 1 .. Len(cut) :
              /\ Upto(s, size, i - 1) \in Nat /\ Upto(s, size, i) \in Nat
              /\ Upto(s, size, i - 1) <= Upto(s, size, i) /\ Upto(s, size, i) <= Len(s)
              /\ Upto(s, size, i - 1) = size * (i - 1) /\ Upto(s, size, i - 1) < Len(s)
              /\ cut[i] = SubSeq(s, Upto(s, size, i - 1) + 1, Upto(s, size, i))
<1> DEFINE L == Len(s)
           N == (L + size - 1) \div size
           r == (L + size - 1) % size
<1>1. L \in Nat /\ L + size - 1 \in Nat
  BY DataFacts
<1>2. N \in Nat /\ r \in Nat /\ r < size /\ L + size - 1 = size * N + r
  BY <1>1, Quotients
<1>3. Cut(s, size) = [i \in 1 .. N |-> SubSeq(s, ((i - 1) * size) + 1, Min({i * size, Len(s)}))]
  BY DEF Cut
<1> HIDE DEF L, N, r
<1>4. size * N \in Nat /\ size * N >= L
  BY <1>1, <1>2
<1>5. ASSUME NEW i \in 1 .. N
      PROVE  /\ size * (i - 1) < L /\ size * (i - 1) = (i - 1) * size /\ size * i = i * size
             /\ size * (i - 1) \in Nat /\ size * i \in Nat /\ size * (i - 1) <= size * i
  <2>1. size * N = size * (N - 1) + size
    BY <1>2
  <2>2. size * (N - 1) < L /\ N - 1 \in Nat
    BY <2>1, <1>1, <1>2
  <2>3. size * (i - 1) <= size * (N - 1) /\ size * (i - 1) \in Nat
    BY <1>2
  <2>4. size * i = size * (i - 1) + size /\ size * i \in Nat
    BY <1>2
  <2>5. size * (i - 1) = (i - 1) * size /\ size * i = i * size
    BY <1>2
  <2>6. size * (N - 1) \in Nat
    BY <2>2
  <2> QED BY <2>2, <2>3, <2>4, <2>5, <2>6, <1>1
<1>6. ASSUME NEW a \in Nat, NEW b \in Nat
      PROVE  Min({a, b}) = IF a <= b THEN a ELSE b
  BY DEF Min
<1>7. ASSUME NEW i \in 1 .. N
      PROVE  /\ Upto(s, size, i - 1) \in Nat /\ Upto(s, size, i) \in Nat
             /\ Upto(s, size, i - 1) <= Upto(s, size, i) /\ Upto(s, size, i) <= Len(s)
             /\ Upto(s, size, i - 1) = size * (i - 1) /\ Upto(s, size, i - 1) < Len(s)
             /\ Upto(s, size, i) = Min({i * size, Len(s)})
  BY <1>1, <1>5, <1>6 DEF Upto, L
<1>8. ASSUME NEW i \in 1 .. N
      PROVE  /\ Cut(s, size)[i] = SubSeq(s, Upto(s, size, i - 1) + 1, Upto(s, size, i))
             /\ Cut(s, size)[i] \in Data
  <2>1. Cut(s, size)[i] = SubSeq(s, Upto(s, size, i - 1) + 1, Upto(s, size, i))
    BY <1>3, <1>5, <1>7
  <2> QED BY <2>1, <1>7, SubSeqFacts
<1>9. Cut(s, size) \in Seq(Data) /\ Len(Cut(s, size)) = N
  <2>1. Cut(s, size) \in [1 .. N -> Data]
    BY <1>3, <1>8
  <2> QED BY <2>1, <1>2
<1>10. Upto(s, size, 0) = 0 /\ Upto(s, size, N) = Len(s)
  BY <1>1, <1>2, <1>4 DEF Upto, L
<1> QED BY <1>2, <1>7, <1>8, <1>9, <1>10

\* The next request.
LEMMA AfterNext ==
  ASSUME NEW o, NEW S, NEW reqs \in Seq(S), NEW i \in Nat, i < Len(reqs)
  PROVE  After(o, reqs, i + 1) = Does(After(o, reqs, i), reqs[i + 1])
<1>1. PICK n \in 1 .. Len(reqs) : n = i + 1
  OBVIOUS
<1>2. After(o, reqs, n) = Does(After(o, reqs, n - 1), reqs[n])
  BY ZenonT(40), AfterSteps
<1>3. n - 1 = i
  BY <1>1
<1> QED BY <1>1, <1>2, <1>3

-----------------------------------------------------------------------------
(* What requests make of an object.                                        *)

\* A request leaves an object an object.
LEMMA DoesTyped ==
  ASSUME NEW o \in Objects, NEW r \in Requests
  PROVE  Does(o, r) \in Objects
<1>1. NoObject \in Objects /\ \A s, t \in Data : s \o t \in Data
  BY DataFacts, ContextsAssumption DEF NoObject, Objects
<1> QED BY <1>1 DEF Does, Objects, Requests, NoObject

\* Objects stay well formed.
LEMMA AfterTyped ==
  ASSUME NEW o \in Objects, NEW reqs \in Seq(Requests), NEW n \in 0 .. Len(reqs)
  PROVE  After(o, reqs, n) \in Objects
<1> DEFINE S == {i \in Nat : i <= Len(reqs) => After(o, reqs, i) \in Objects}
<1>1. 0 \in S
  BY AfterSteps
<1>2. ASSUME NEW i \in Nat, i \in S, i < Len(reqs)
      PROVE  i + 1 \in S
  <2>1. i + 1 \in 1 .. Len(reqs) /\ (i + 1) - 1 = i
    BY <1>2
  <2>2. After(o, reqs, i + 1) = Does(After(o, reqs, i), reqs[i + 1])
    BY <1>2, AfterNext
  <2>3. After(o, reqs, i) \in Objects /\ reqs[i + 1] \in Requests
    BY <1>2, <2>1
  <2> QED BY <2>2, <2>3, DoesTyped
<1> HIDE DEF S
<1>3. 0 .. Len(reqs) \subseteq S
  <2>1. S \in SUBSET Nat /\ Len(reqs) \in Nat
    BY DEF S
  <2> QED BY <2>1, <1>1, <1>2, Climb
<1> QED BY <1>3 DEF S

\* o with data appended to what request op appends to.
More(o, op, data) ==
    IF op = "aad" THEN [o EXCEPT !.aad = @ \o data] ELSE [o EXCEPT !.data = @ \o data]

(* A function on 1 .. n with values in a set is a sequence of length n over it. *)
LEMMA FunctionIsSeq ==
  ASSUME NEW A, NEW n \in Nat, NEW f \in [1 .. n -> A]
  PROVE  f \in Seq(A) /\ Len(f) = n
OBVIOUS

\* The pieces of a sequence add up to it, however it is cut.
LEMMA CutAfter ==
  ASSUME NEW o \in Objects, NEW s \in Data, NEW size \in Nat, size > 0, NEW op \in {"aad", "update"},
         NEW reqs, reqs = [i \in 1 .. Len(Cut(s, size)) |-> Req(op, Cut(s, size)[i], 0)]
  PROVE  /\ reqs \in Seq(Requests) /\ Len(reqs) = Len(Cut(s, size))
         /\ \A n \in 0 .. Len(reqs) : After(o, reqs, n) = More(o, op, SubSeq(s, 1, Upto(s, size, n)))
         /\ After(o, reqs, Len(reqs)) = More(o, op, s)
<1> DEFINE cut == Cut(s, size)
           up(i) == Upto(s, size, i)
           S == {n \in Nat : n <= Len(reqs) => After(o, reqs, n) = More(o, op, SubSeq(s, 1, up(n)))}
<1>1. /\ cut \in Seq(Data) /\ Len(cut) \in Nat /\ up(0) = 0 /\ up(Len(cut)) = Len(s)
      /\ \A i \in 1 .. Len(cut) :
           /\ up(i - 1) \in Nat /\ up(i) \in Nat /\ up(i - 1) <= up(i) /\ up(i) <= Len(s)
           /\ cut[i] = SubSeq(s, up(i - 1) + 1, up(i))
  BY CutFacts
<1> HIDE DEF cut, up
<1>2. reqs = [i \in 1 .. Len(cut) |-> Req(op, cut[i], 0)]
  BY DEF cut
<1>3. \A i \in 1 .. Len(cut) : Req(op, cut[i], 0) \in Requests
  BY <1>1, ContextsAssumption DEF Req, Requests
<1>4. reqs \in Seq(Requests) /\ Len(reqs) = Len(cut)
  <2>1. reqs \in [1 .. Len(cut) -> Requests]
    BY <1>2, <1>3
  <2>2. Len(cut) \in Nat
    BY <1>1
  <2> QED BY <2>1, <2>2, FunctionIsSeq
<1>5. 0 \in S
  <2>1. SubSeq(s, 1, up(0)) = <<>>
    BY <1>1, WholeSeq
  <2>2. More(o, op, <<>>) = o
    BY DataFacts DEF More, Objects
  <2> QED BY <2>1, <2>2, <1>4, AfterSteps
<1>6. ASSUME NEW n \in Nat, n \in S, n < Len(reqs)
      PROVE  n + 1 \in S
  <2>1. n + 1 \in 1 .. Len(reqs) /\ (n + 1) - 1 = n /\ n + 1 \in 1 .. Len(cut)
    BY <1>4, <1>6
  <2>2. After(o, reqs, n + 1) = Does(After(o, reqs, n), reqs[n + 1])
    BY <1>4, <1>6, AfterNext
  <2>3. After(o, reqs, n) = More(o, op, SubSeq(s, 1, up(n)))
    BY <1>6
  <2>4. reqs[n + 1] = Req(op, SubSeq(s, up(n) + 1, up(n + 1)), 0)
    BY <2>1, <1>1, <1>2
  <2>5. up(n) \in Nat /\ up(n + 1) \in Nat /\ up(n) <= up(n + 1) /\ up(n + 1) <= Len(s)
    BY <2>1, <1>1
  <2> DEFINE a == SubSeq(s, 1, up(n))
             b == SubSeq(s, up(n) + 1, up(n + 1))
  <2>6. a \o b = SubSeq(s, 1, up(n + 1))
    BY <2>5, SubSeqFacts
  <2>7. a \in Data /\ b \in Data
    <3>1. SubSeq(s, 0 + 1, up(n)) \in Data
      BY ONLY <2>5, SubSeqFacts, s \in Data, DataFacts
    <3> QED BY <3>1, <2>5, SubSeqFacts
  <2> HIDE DEF a, b
  <2>8. (o.data \o a) \o b = o.data \o (a \o b) /\ (o.aad \o a) \o b = o.aad \o (a \o b)
    <3>1. o.data \in Data /\ o.aad \in Data
      BY DEF Objects
    <3>2. ASSUME NEW x \in Data
          PROVE  (x \o a) \o b = x \o (a \o b)
      BY SMTT(30), <2>7, DataFacts
    <3> QED BY <3>1, <3>2
  <2>9. Does(More(o, op, a), Req(op, b, 0)) = More(o, op, a \o b)
    BY <2>8 DEF Does, More, Req, Objects
  <2>10. After(o, reqs, n + 1) = Does(More(o, op, a), Req(op, b, 0))
    BY <2>2, <2>3, <2>4 DEF a, b
  <2>11. After(o, reqs, n + 1) = More(o, op, SubSeq(s, 1, up(n + 1)))
    BY <2>6, <2>9, <2>10
  <2> QED BY <2>11
<1> HIDE DEF S
<1>7. 0 .. Len(reqs) \subseteq S
  <2>1. S \in SUBSET Nat /\ Len(reqs) \in Nat
    BY <1>4 DEF S
  <2> QED BY <2>1, <1>5, <1>6, Climb
<1>8. \A n \in 0 .. Len(reqs) : After(o, reqs, n) = More(o, op, SubSeq(s, 1, up(n)))
  BY <1>7 DEF S
<1>9. After(o, reqs, Len(reqs)) = More(o, op, s)
  <2>1. Len(reqs) \in 0 .. Len(reqs) /\ up(Len(reqs)) = Len(s)
    BY <1>1, <1>4
  <2>2. After(o, reqs, Len(reqs)) = More(o, op, SubSeq(s, 1, Len(s)))
    BY <2>1, <1>8
  <2> QED BY <2>2, WholeSeq
<1> QED BY <1>4, <1>8, <1>9 DEF cut, up

\* Requests that come after others start from what those left.
LEMMA AfterShift ==
  ASSUME NEW o, NEW S, NEW reqs \in Seq(S), NEW rest \in Seq(S), NEW m \in Nat,
         Len(reqs) = m + Len(rest), \A i \in 1 .. Len(rest) : reqs[m + i] = rest[i]
  PROVE  \A n \in 0 .. Len(rest) : After(o, reqs, m + n) = After(After(o, reqs, m), rest, n)
<1> DEFINE T == {n \in Nat : n <= Len(rest) => After(o, reqs, m + n) = After(After(o, reqs, m), rest, n)}
<1>0. Len(rest) \in Nat /\ Len(reqs) \in Nat
  OBVIOUS
<1>1. 0 \in T
  <2>1. After(After(o, reqs, m), rest, 0) = After(o, reqs, m) /\ m + 0 = m
    BY AfterSteps
  <2> QED BY <2>1
<1>2. ASSUME NEW n \in Nat, n \in T, n < Len(rest)
      PROVE  n + 1 \in T
  <2>1. After(After(o, reqs, m), rest, n + 1) = Does(After(After(o, reqs, m), rest, n), rest[n + 1])
    BY <1>2, AfterNext
  <2>2. m + n \in Nat /\ m + n < Len(reqs) /\ (m + n) + 1 = m + (n + 1) /\ n + 1 \in 1 .. Len(rest)
    BY <1>0, <1>2
  <2>3. After(o, reqs, (m + n) + 1) = Does(After(o, reqs, m + n), reqs[(m + n) + 1])
    BY <2>2, AfterNext
  <2>4. After(o, reqs, m + n) = After(After(o, reqs, m), rest, n)
    BY <1>0, <1>2
  <2>5. reqs[(m + n) + 1] = rest[n + 1]
    BY <2>2
  <2> QED BY <2>1, <2>2, <2>3, <2>4, <2>5
<1> HIDE DEF T
<1>3. 0 .. Len(rest) \subseteq T
  <2>1. T \in SUBSET Nat
    BY DEF T
  <2> QED BY <2>1, <1>0, <1>1, <1>2, Climb
<1> QED BY <1>3 DEF T

\* A live object that holds whole blocks takes whole blocks, one after the other, and those
\* that take one at a time take that.
OneAtATime == {"mbedtls_ecb", "mbedtls_des_ecb"}
LEMMA WholeUpdates ==
  ASSUME NEW o \in Objects, o.st = "live", NEW k,
         NEW chunks \in Seq(Data), \A i \in 1 .. Len(chunks) : Whole(Len(chunks[i])), Whole(Len(o.data)),
         k \in OneAtATime => \A i \in 1 .. Len(chunks) : Len(chunks[i]) = Block,
         NEW reqs, reqs = [i \in 1 .. Len(chunks) |-> Update1(chunks[i])]
  PROVE  /\ reqs \in Seq(Requests) /\ Len(reqs) = Len(chunks)
         /\ \A n \in 1 .. Len(reqs) : Takes(k, After(o, reqs, n - 1), reqs[n])
<1> DEFINE Right(x) == x \in Objects /\ x.st = "live" /\ Whole(Len(x.data))
           T == {n \in Nat : n <= Len(reqs) => Right(After(o, reqs, n))}
<1>1. reqs \in Seq(Requests) /\ Len(reqs) = Len(chunks) /\ Len(reqs) \in Nat
  <2>1. \A i \in 1 .. Len(chunks) : Update1(chunks[i]) \in Requests
    BY ContextsAssumption DEF Update1, Req, Requests
  <2>2. reqs \in [1 .. Len(chunks) -> Requests]
    BY <2>1
  <2> QED BY <2>2
<1>2. \A i \in 1 .. Len(reqs) :
        /\ reqs[i].op = "update" /\ reqs[i].data = chunks[i]
        /\ reqs[i].data \in Data /\ Whole(Len(reqs[i].data))
  BY <1>1 DEF Update1, Req
<1>3. 0 \in T
  BY <1>1, AfterSteps
<1>4. ASSUME NEW n \in Nat, n \in T, n < Len(reqs)
      PROVE  n + 1 \in T
  <2> DEFINE a == After(o, reqs, n)
             r == reqs[n + 1]
  <2>0. n + 1 \in 1 .. Len(reqs) /\ n + 1 \in 0 .. Len(reqs) /\ n <= Len(reqs)
    BY <1>1, <1>4
  <2>1. Right(a) /\ r.op = "update" /\ r.data \in Data /\ Whole(Len(r.data))
    <3>1. Right(a)
      BY <2>0, <1>4
    <3>2. r.op = "update" /\ r.data \in Data /\ Whole(Len(r.data))
      BY <2>0, <1>2
    <3> QED BY <3>1, <3>2
  <2>2. After(o, reqs, n + 1) = Does(a, r)
    BY <1>1, <1>4, AfterNext
  <2>3. After(o, reqs, n + 1) \in Objects
    BY <1>1, <2>0, AfterTyped
  <2> HIDE DEF a, r
  <2>4. Does(a, r) = [a EXCEPT !.data = @ \o r.data]
    BY <2>1 DEF Does
  <2>5. a.data \in Data /\ Len(a.data) \in Nat /\ Len(r.data) \in Nat
    BY <2>1, DataFacts DEF Objects
  <2>6. Len(a.data \o r.data) = Len(a.data) + Len(r.data)
    BY <2>1, <2>5, DataFacts
  <2>7. Whole(Len(a.data \o r.data))
    <3>1. Whole(Len(a.data) + Len(r.data))
      BY <2>1, <2>5, WholeSum
    <3> QED BY <3>1, <2>6
  <2>8. Does(a, r).st = "live" /\ Does(a, r).data = a.data \o r.data
    BY <2>1, <2>4 DEF Objects
  <2>9. Right(After(o, reqs, n + 1))
    <3>1. Does(a, r) \in Objects /\ Whole(Len(Does(a, r).data))
      BY <2>2, <2>3, <2>7, <2>8
    <3> QED BY <2>2, <2>8, <3>1
  <2> QED BY <2>9
<1> HIDE DEF T
<1>5. 0 .. Len(reqs) \subseteq T
  <2>1. T \in SUBSET Nat
    BY DEF T
  <2> QED BY <2>1, <1>1, <1>3, <1>4, Climb
<1>6. ASSUME NEW n \in 1 .. Len(reqs)
      PROVE  Takes(k, After(o, reqs, n - 1), reqs[n])
  <2>0. n - 1 \in 0 .. Len(reqs) /\ n - 1 <= Len(reqs)
    BY <1>1
  <2>1. Right(After(o, reqs, n - 1))
    BY <2>0, <1>5 DEF T
  <2>2. k \in OneAtATime => Len(reqs[n].data) = Block
    BY <1>1, <1>2
  <2> QED BY <2>1, <2>2, <1>2 DEF Takes, InBlocks, OneAtATime
<1> QED BY <1>1, <1>6

\* The pieces of whole blocks are whole blocks.
LEMMA CutWhole ==
  ASSUME NEW s \in Data, NEW size \in Nat, size > 0, Whole(size), Whole(Len(s))
  PROVE  \A i \in 1 .. Len(Cut(s, size)) : Whole(Len(Cut(s, size)[i]))
<1> SUFFICES ASSUME NEW i \in 1 .. Len(Cut(s, size))
             PROVE  Whole(Len(Cut(s, size)[i]))
  OBVIOUS
<1> DEFINE a == Upto(s, size, i - 1)
           b == Upto(s, size, i)
<1>1. /\ a \in Nat /\ b \in Nat /\ a <= b /\ b <= Len(s) /\ a = size * (i - 1)
      /\ Cut(s, size)[i] = SubSeq(s, a + 1, b)
  BY CutFacts
<1>2. Len(Cut(s, size)[i]) = b - a
  BY <1>1, SubSeqFacts
<1>3. PICK p \in Nat : size = Block * p
  BY Multiples
<1>4. PICK q \in Nat : Len(s) = Block * q
  BY Multiples, DataFacts
<1>5. i - 1 \in Nat /\ i \in Nat
  BY CutFacts
<1>6. \E x \in Nat : a = Block * x
  <2>1. (Block * p) * (i - 1) = Block * (p * (i - 1)) /\ p * (i - 1) \in Nat
    BY <1>5, BlockFacts
  <2> QED BY <2>1, <1>1, <1>3
<1>7. \E x \in Nat : b = Block * x
  <2>1. size * i = Block * (p * i) /\ p * i \in Nat
    BY <1>3, <1>5, BlockFacts
  <2>2. b = size * i \/ b = Len(s)
    BY DEF Upto
  <2> QED BY <2>1, <2>2, <1>4
<1>8. PICK x \in Nat : a = Block * x
  BY <1>6
<1>9. PICK y \in Nat : b = Block * y
  BY <1>7
<1>10. y >= x /\ y - x \in Nat
  BY <1>1, <1>8, <1>9, BlockFacts
<1>11. b - a = Block * (y - x)
  BY <1>8, <1>9, <1>10, BlockFacts
<1>12. b - a \in Nat
  BY <1>1
<1> QED BY <1>2, <1>10, <1>11, <1>12, Multiples

\* What is not more than a block, and not nothing, is one.
LEMMA JustOne ==
  ASSUME NEW n \in Nat, Whole(n), n > 0, n <= Block
  PROVE  n = Block
<1>1. CASE n < Block
  <2>1. (Block * 0 + n) % Block = n
    BY <1>1, BlockFacts, Remainder
  <2>2. Block * 0 + n = n
    BY BlockFacts
  <2> QED BY <2>1, <2>2 DEF Whole
<1>2. CASE ~ (n < Block)
  BY <1>2, BlockFacts
<1> QED BY <1>1, <1>2

\* Whole blocks cut to blocks.
LEMMA CutBlocks ==
  ASSUME NEW s \in Data, Whole(Len(s))
  PROVE  \A i \in 1 .. Len(Cut(s, Block)) : Len(Cut(s, Block)[i]) = Block
<1> SUFFICES ASSUME NEW i \in 1 .. Len(Cut(s, Block))
             PROVE  Len(Cut(s, Block)[i]) = Block
  OBVIOUS
<1>0. Block \in Nat /\ Block > 0 /\ Whole(Block)
  BY BlockFacts, BlocksAreWhole
<1> DEFINE a == Upto(s, Block, i - 1)
           b == Upto(s, Block, i)
<1>1. /\ a \in Nat /\ b \in Nat /\ a <= b /\ b <= Len(s) /\ a = Block * (i - 1) /\ a < Len(s)
      /\ Cut(s, Block)[i] = SubSeq(s, a + 1, b)
  BY <1>0, CutFacts
<1>2. Len(Cut(s, Block)[i]) = b - a
  BY <1>1, SubSeqFacts
<1>3. Whole(b - a)
  BY <1>0, <1>2, CutWhole
<1>4. i \in Nat /\ Len(s) \in Nat
  BY <1>0, CutFacts, DataFacts
<1>5. b = Block * i \/ (b = Len(s) /\ ~ (Block * i <= Len(s)))
  <2>1. CASE Block * i <= Len(s)
    BY <2>1 DEF Upto
  <2>2. CASE ~ (Block * i <= Len(s))
    BY <2>2 DEF Upto
  <2> QED BY <2>1, <2>2
<1>6. Block * i = Block * (i - 1) + Block /\ Block * i \in Nat
  BY <1>0, <1>4
<1> HIDE DEF a, b
<1>7. b - a \in Nat /\ b - a > 0 /\ b - a <= Block
  BY <1>0, <1>1, <1>4, <1>5, <1>6
<1> QED BY <1>2, <1>3, <1>7, JustOne

-----------------------------------------------------------------------------
(* The inductive invariant.                                                *)

CtxTypes == [id : BOOLEAN, cache : Data, aad : Data, buffer : Data, total : 0 .. MaxTotal]
AppTypes == [st : {"none", "ready", "open", "failed", "refused"}, msg : 0 .. MaxMessages,
             n : 0 .. MaxTotal, aad : 0 .. MaxAad, want : 0 .. MaxTotal]

Typed ==
    /\ kind \in [Contexts -> AllKinds] /\ \A c, d \in Contexts : kind[c] = kind[d]
    /\ ctx \in [Contexts -> CtxTypes]
    /\ \A c \in Contexts : Len(ctx[c].cache) < Block /\ Len(ctx[c].buffer) <= ctx[c].total
    /\ app \in [Contexts -> AppTypes]
    /\ object \in [SeKinds \cup Contexts -> Objects]
    /\ forgotten \subseteq SeKinds /\ messages \in 0 .. MaxMessages /\ faults \in 0 .. MaxFaults

\* The kinds for which a message that is started anew finds nothing of the one before, and
\* those that keep all additional data they are given.
Fresh(k)    == k \notin Ciphers \cap Restarts
Lossless(k) == k \notin KeepLast \cap AadInChunks

\* Object o and the cache of context x of kind k are what was given of message a: whole
\* blocks in the one, the rest in the other.
Holds(k, x, a, o) ==
    /\ o.st = "live"
    /\ k \in Macs => o.data = Units(a.msg, a.n)
    /\ k \notin Macs => Whole(Len(o.data)) /\ (Fresh(k) => o.data \o x.cache = Units(a.msg, a.n))
    /\ Lossless(k) => o.aad = Units(a.msg, a.aad)
    /\ k \in Ccms => o.want = a.want

\* A library's CCM has all of it in the context.
InHand(k, x, a) ==
    /\ x.buffer = Units(a.msg, a.n) /\ x.total = a.want
    /\ Lossless(k) /\ a.aad > 0 => x.aad = Units(a.msg, a.aad)

\* mbed TLS's GCM starts with the AAD.
Waits(k, a) == k = "mbedtls_gcm" /\ a.aad = 0

Goes(k, x, a, o) ==
    a.st = "open" =>
      /\ a.msg \in 1 .. MaxMessages
      /\ k = "host_ccm" => InHand(k, x, a)
      /\ Waits(k, a) => a.n = 0 /\ x.cache = <<>>
      /\ k # "host_ccm" /\ ~ Waits(k, a) => o.st = "none" \/ Holds(k, x, a, o)

\* What is so of each context: a message that goes on is right, a cipher that awaits its
\* first message has nothing cached, and a refusal has a reason.
Rested(k, x, a) == a.st = "ready" /\ k \in Ciphers => x.cache = <<>>
Excused(k, n) == (k = "se_des" /\ ~ Whole(n)) \/ k = "mbedtls_des_ecb"
Justified(k, a, o, f) ==
    Fresh(k) /\ a.st = "refused" /\ f = 0 => Excused(k, a.n) \/ o.st = "none"

Right(c) ==
    /\ Goes(kind[c], ctx[c], app[c], object[ObjectOf(c)])
    /\ Rested(kind[c], ctx[c], app[c])
    /\ Justified(kind[c], app[c], object[ObjectOf(c)], faults)

\* Of those that share an object one has a message that goes on.
OneOpen == \A c \in Contexts : \A d \in Sharing(c) : ~ (app[c].st = "open" /\ app[d].st = "open")

DoneRight ==
    /\ Restarts \cap Ciphers = {} => ExactMessage
    /\ AadInChunks \cap KeepLast = {} => ExactAad

CInv ==
    /\ Typed /\ OneOpen /\ DoneRight /\ NothingLeft
    /\ \A c \in Contexts : Right(c)

-----------------------------------------------------------------------------
(* An exchange with an object, and what it means to the other contexts.    *)

Taken(k, o, reqs) == \A n \in 1 .. Len(reqs) : Takes(k, After(o, reqs, n - 1), reqs[n])

\* A context's object, and who shares it.
LEMMA ObjectOfFacts ==
  ASSUME Typed, NEW c \in Contexts
  PROVE  /\ kind[c] \in AllKinds /\ ObjectOf(c) \in SeKinds \cup Contexts
         /\ object[ObjectOf(c)] \in Objects /\ ctx[c] \in CtxTypes /\ app[c] \in AppTypes
         /\ \A d \in Contexts \ {c} : d \in Sharing(c) <=> ObjectOf(d) = ObjectOf(c)
         /\ kind[c] \in HostKinds => Sharing(c) = {}
BY DEF Typed, ObjectOf, Sharing, AllKinds, SeKinds, HostKinds, HostCiphers, MbedCiphers, MbedAes, MbedDes

\* What an exchange leaves, by its outcome.
LEMMA ExchangeFacts ==
  ASSUME Typed, NEW c \in Contexts, NEW reqs \in Seq(Requests), NEW e \in Ends(c, reqs),
         Exchange(c, reqs, e)
  PROVE  LET k == kind[c]
             o == object[ObjectOf(c)]
             p == object'[ObjectOf(c)]
         IN  /\ object' \in [SeKinds \cup Contexts -> Objects]
             /\ \A x \in SeKinds \cup Contexts : x # ObjectOf(c) => object'[x] = object[x]
             /\ faults' \in 0 .. MaxFaults /\ (faults' = 0 => faults = 0)
             /\ e.bad \in 0 .. Len(reqs)
             /\ e.bad = 0 => p = After(o, reqs, Len(reqs)) /\ Taken(k, o, reqs)
             /\ Len(reqs) > 0 /\ reqs[1].op # "create" /\ o.st = "none" => e.bad # 0 /\ p = o
             /\ e.bad # 0 /\ faults' = 0 => e.faults = 0 /\ ~ Taken(k, o, reqs)
<1> DEFINE k == kind[c]
           o == object[ObjectOf(c)]
           p == object'[ObjectOf(c)]
           did == DidOf(reqs, e)
<1>1. faults \in 0 .. MaxFaults /\ MaxFaults \in Nat /\ Len(reqs) \in Nat
  BY ContextsAssumption DEF Typed
<1>2. ObjectOf(c) \in SeKinds \cup Contexts /\ o \in Objects
  BY ObjectOfFacts
<1>3. object' = [object EXCEPT ![ObjectOf(c)] = After(@, reqs, did)] /\ faults' = faults + e.faults
  BY DEF Exchange
<1>4. /\ did \in 0 .. Len(reqs)
      /\ \A n \in 1 .. did : Takes(k, After(o, reqs, n - 1), reqs[n])
      /\ e.bad \in 0 .. Len(reqs) /\ e.faults \in {0, 1} /\ faults + e.faults \in 0 .. MaxFaults
      /\ e.bad = 0 => did = Len(reqs) /\ e.faults = 0
      /\ e.bad # 0 /\ e.faults = 0 =>
           /\ e.bad \in 1 .. Len(reqs) /\ did = e.bad - 1
           /\ ~ Takes(k, After(o, reqs, e.bad - 1), reqs[e.bad])
  BY <1>1, EndsFacts
<1> HIDE DEF did, k
<1>5. After(o, reqs, did) \in Objects
  BY <1>2, <1>4, AfterTyped
<1>6. /\ object' \in [SeKinds \cup Contexts -> Objects] /\ p = After(o, reqs, did)
      /\ \A x \in SeKinds \cup Contexts : x # ObjectOf(c) => object'[x] = object[x]
  BY <1>2, <1>3, <1>5 DEF Typed
<1> HIDE DEF o, p
<1>7. faults' \in 0 .. MaxFaults /\ (faults' = 0 => faults = 0 /\ e.faults = 0)
  BY <1>1, <1>3, <1>4
<1>8. e.bad = 0 => p = After(o, reqs, Len(reqs)) /\ Taken(k, o, reqs)
  BY <1>4, <1>6 DEF Taken
<1>9. e.bad # 0 /\ faults' = 0 => e.faults = 0 /\ ~ Taken(k, o, reqs)
  BY <1>4, <1>7 DEF Taken
<1>10. ASSUME Len(reqs) > 0, reqs[1].op # "create", o.st = "none"
       PROVE  e.bad # 0 /\ p = o
  <2>1. After(o, reqs, 0) = o /\ 1 - 1 = 0
    BY AfterSteps
  <2>2. reqs[1] \in Requests
    BY <1>1, <1>10
  <2>3. ~ Takes(k, o, reqs[1])
    BY <2>2, <1>10 DEF Takes, Requests
  <2>4. did = 0
    <3>1. SUFFICES ASSUME did # 0 PROVE FALSE
      OBVIOUS
    <3>2. 1 \in 1 .. did
      BY <3>1, <1>1, <1>4
    <3>3. Takes(k, After(o, reqs, 1 - 1), reqs[1])
      BY <3>2, <1>4
    <3> QED BY <3>3, <2>1, <2>3
  <2>5. e.bad # 0
    BY <2>4, <1>1, <1>4, <1>10
  <2> QED BY <2>1, <2>4, <2>5, <1>6
<1> QED BY <1>4, <1>6, <1>7, <1>8, <1>9, <1>10 DEF k, o, p

\* A context is none the worse for a step of another that leaves it alone, or gives it up,
\* and leaves its object alone while its message goes on, or deletes it.
LEMMA OthersKeep ==
  ASSUME NEW d \in Contexts, Right(d), kind' = kind, ctx'[d] = ctx[d],
         app'[d] = app[d] \/ app'[d].st = "failed",
         app'[d].st = "open" => object'[ObjectOf(d)] = object[ObjectOf(d)] \/ object'[ObjectOf(d)].st = "none",
         app'[d].st = "refused" =>
            /\ faults' = 0 => faults = 0
            /\ object[ObjectOf(d)].st = "none" => object'[ObjectOf(d)].st = "none"
  PROVE  Right(d)'
<1> DEFINE k == kind[d]
           x == ctx[d]
           a == app[d]
           b == app'[d]
           o == object[ObjectOf(d)]
           p == object'[ObjectOf(d)]
<1>1. Goes(k, x, a, o) /\ Rested(k, x, a) /\ Justified(k, a, o, faults)
  BY DEF Right
<1>2. ObjectOf(d)' = ObjectOf(d)
  BY DEF ObjectOf
<1>3. Right(d)' <=> Goes(k, x, b, p) /\ Rested(k, x, b) /\ Justified(k, b, p, faults')
  BY <1>2 DEF Right
<1> HIDE DEF k, x, a, b, o, p
<1>4. /\ b = a \/ b.st = "failed"
      /\ b.st = "open" => p = o \/ p.st = "none"
      /\ b.st = "refused" => (faults' = 0 => faults = 0) /\ (o.st = "none" => p.st = "none")
  BY DEF k, x, a, b, o, p
<1>5. Goes(k, x, b, p)
  BY <1>1, <1>4 DEF Goes
<1>6. Rested(k, x, b)
  BY <1>1, <1>4 DEF Rested
<1>7. Justified(k, b, p, faults')
  BY <1>1, <1>4 DEF Justified
<1> QED BY <1>3, <1>5, <1>6, <1>7

\* The context whose message goes on talks to its object: nobody else has a message there.
LEMMA OngoingOthers ==
  ASSUME CInv, NEW c \in Contexts, app[c].st = "open",
         NEW reqs \in Seq(Requests), NEW e \in Ends(c, reqs), Exchange(c, reqs, e),
         Len(reqs) > 0 => reqs[1].op # "create",
         kind' = kind, forgotten' = forgotten, ctx' \in [Contexts -> CtxTypes],
         \A d \in Contexts : ctx'[d].id = ctx[d].id,
         \A d \in Contexts \ {c} : ctx'[d] = ctx[d] /\ app'[d] = app[d]
  PROVE  OneOpen' /\ NothingLeft' /\ \A d \in Contexts \ {c} : Right(d)'
<1>0. Typed /\ OneOpen /\ NothingLeft /\ \A d \in Contexts : Right(d)
  BY DEF CInv
<1> DEFINE O == ObjectOf(c)
<1>1. O \in SeKinds \cup Contexts /\ \A d \in Contexts : ObjectOf(d) \in SeKinds \cup Contexts
  BY <1>0, ObjectOfFacts
<1>2. /\ \A x \in SeKinds \cup Contexts : x # O => object'[x] = object[x]
      /\ faults' = 0 => faults = 0
      /\ Len(reqs) > 0 /\ object[O].st = "none" => object'[O] = object[O]
  BY <1>0, ExchangeFacts
<1>3. Len(reqs) = 0 => object'[O] = object[O]
  <2>1. SUFFICES ASSUME Len(reqs) = 0 PROVE object'[O] = object[O]
    OBVIOUS
  <2>2. DidOf(reqs, e) \in 0 .. Len(reqs)
    BY <1>0, EndsFacts DEF Typed
  <2>3. DidOf(reqs, e) = 0
    BY <2>1, <2>2
  <2> QED BY <2>3, <1>0, <1>1, AfterSteps DEF Exchange, Typed
<1>4. \A x \in SeKinds \cup Contexts : object[x].st = "none" => object'[x].st = "none"
  <2>1. Len(reqs) \in Nat
    OBVIOUS
  <2> QED BY <2>1, <1>2, <1>3
<1>5. OneOpen'
  <2>1. \A x \in Contexts : Sharing(x)' = Sharing(x)
    BY DEF Sharing, ObjectOf
  <2>2. SUFFICES ASSUME NEW x \in Contexts, NEW y \in Sharing(x), app'[x].st = "open", app'[y].st = "open"
                 PROVE  FALSE
    BY <2>1 DEF OneOpen
  <2>3. y \in Contexts /\ app[x].st = "open" /\ app[y].st = "open"
    BY <2>2 DEF Sharing
  <2> QED BY <2>3, <1>0 DEF OneOpen
<1>6. NothingLeft'
  <2>1. SUFFICES ASSUME NEW k \in SeKinds \ forgotten, object'[k].st # "none"
                 PROVE  \E d \in Contexts : kind[d] = k /\ ctx'[d].id
    BY DEF NothingLeft
  <2>2. object[k].st # "none"
    BY <2>1, <1>4
  <2> QED BY <2>2, <1>0 DEF NothingLeft
<1>7. ASSUME NEW d \in Contexts \ {c}
      PROVE  Right(d)'
  <2>1. app'[d].st = "open" => object'[ObjectOf(d)] = object[ObjectOf(d)]
    <3>1. CASE ObjectOf(d) # O
      BY <3>1, <1>1, <1>2
    <3>2. CASE ObjectOf(d) = O
      <4>1. d \in Sharing(c)
        BY <3>2 DEF Sharing
      <4> QED BY <4>1, <1>0 DEF OneOpen
    <3> QED BY <3>1, <3>2
  <2>2. object[ObjectOf(d)].st = "none" => object'[ObjectOf(d)].st = "none"
    BY <1>1, <1>4
  <2> QED BY <2>1, <2>2, <1>0, <1>2, OthersKeep
<1> QED BY <1>5, <1>6, <1>7

\* Where no message finishes there is nothing to be exact about.
LEMMA NothingDone == done' = Nothing => DoneRight'
BY DEF Nothing, DoneRight, ExactMessage, ExactAad

\* A step that reaches no object concerns nobody else.
LEMMA QuietOthers ==
  ASSUME CInv, NEW c \in Contexts, app'[c].st = "open" => app[c].st = "open",
         kind' = kind, forgotten' = forgotten, object' = object, faults' = faults,
         \A d \in Contexts : ctx'[d].id = ctx[d].id,
         \A d \in Contexts \ {c} : ctx'[d] = ctx[d] /\ app'[d] = app[d]
  PROVE  OneOpen' /\ NothingLeft' /\ \A d \in Contexts \ {c} : Right(d)'
<1>0. Typed /\ OneOpen /\ NothingLeft /\ \A d \in Contexts : Right(d)
  BY DEF CInv
<1>1. OneOpen'
  <2>1. \A x \in Contexts : Sharing(x)' = Sharing(x)
    BY DEF Sharing, ObjectOf
  <2>2. SUFFICES ASSUME NEW x \in Contexts, NEW y \in Sharing(x), app'[x].st = "open", app'[y].st = "open"
                 PROVE  FALSE
    BY <2>1 DEF OneOpen
  <2>3. y \in Contexts /\ app[x].st = "open" /\ app[y].st = "open"
    BY <2>2 DEF Sharing
  <2> QED BY <2>3, <1>0 DEF OneOpen
<1>2. NothingLeft'
  <2>1. SUFFICES ASSUME NEW k \in SeKinds \ forgotten, object[k].st # "none"
                 PROVE  \E d \in Contexts : kind[d] = k /\ ctx'[d].id
    BY DEF NothingLeft
  <2> QED BY <2>1, <1>0 DEF NothingLeft
<1>3. ASSUME NEW d \in Contexts \ {c}
      PROVE  Right(d)'
  BY <1>0, OthersKeep
<1> QED BY <1>1, <1>2, <1>3

\* What a message that may be given more looks like.
LEMMA GivenFacts ==
  ASSUME CInv, NEW c \in Contexts, NEW n \in Nat, MayGive(c, n)
  PROVE  /\ Typed /\ Right(c) /\ kind[c] \in AllKinds /\ ctx[c] \in CtxTypes /\ app[c] \in AppTypes
         /\ object[ObjectOf(c)] \in Objects /\ ObjectOf(c) \in SeKinds \cup Contexts
         /\ app[c].st = "open" /\ app[c].msg \in 1 .. MaxMessages
         /\ app[c].n \in Nat /\ app[c].n + n \in 0 .. MaxTotal
         /\ ~ Waits(kind[c], app[c]) /\ (kind[c] = "host_ccm" => app[c].aad > 0)
         /\ Piece(app[c].msg, app[c].n, n) \in Data /\ Len(Piece(app[c].msg, app[c].n, n)) = n
         /\ Units(app[c].msg, app[c].n) \o Piece(app[c].msg, app[c].n, n) = Units(app[c].msg, app[c].n + n)
<1>1. Typed /\ Right(c)
  BY DEF CInv
<1>2. /\ kind[c] \in AllKinds /\ ctx[c] \in CtxTypes /\ app[c] \in AppTypes
      /\ object[ObjectOf(c)] \in Objects /\ ObjectOf(c) \in SeKinds \cup Contexts
  BY <1>1, ObjectOfFacts
<1>3. app[c].st = "open" /\ app[c].n + n <= MaxTotal /\ (kind[c] \in KeepLast => app[c].aad > 0)
  BY DEF MayGive
<1>4. app[c].msg \in 1 .. MaxMessages
  BY <1>1, <1>3 DEF Right, Goes
<1>5. app[c].n \in Nat /\ app[c].n + n \in 0 .. MaxTotal /\ MaxTotal \in Nat /\ MaxAad \in Nat
  BY <1>2, <1>3, ContextsAssumption DEF AppTypes
<1>6. ~ Waits(kind[c], app[c]) /\ (kind[c] = "host_ccm" => app[c].aad > 0)
  BY <1>3 DEF Waits, KeepLast
<1>7. app[c].n + n <= MaxTotal + MaxAad
  BY <1>5
<1>8. /\ Piece(app[c].msg, app[c].n, n) \in Data /\ Len(Piece(app[c].msg, app[c].n, n)) = n
      /\ Units(app[c].msg, app[c].n) \o Piece(app[c].msg, app[c].n, n) = Units(app[c].msg, app[c].n + n)
  <2>1. PICK m \in 1 .. MaxMessages, from \in Nat : m = app[c].msg /\ from = app[c].n
    BY <1>4, <1>5
  <2>2. from + n <= MaxTotal + MaxAad
    BY <2>1, <1>7
  <2>3. /\ Piece(m, from, n) \in Data /\ Len(Piece(m, from, n)) = n
        /\ Units(m, from) \o Piece(m, from, n) = Units(m, from + n)
    BY <2>2, UnitsFacts
  <2> QED BY <2>1, <2>3
<1> QED BY <1>1, <1>2, <1>3, <1>4, <1>5, <1>6, <1>8

\* Data that does not fill a block: the cache takes it.
LEMMA UpdateShortKeeps ==
  ASSUME CInv, NEW c \in Contexts, NEW n \in Nat, UpdateShort(c, n)
  PROVE  CInv'
<1> DEFINE a == app[c]
           x == ctx[c]
           k == kind[c]
           o == object[ObjectOf(c)]
           src == Piece(a.msg, a.n, n)
<1>1. /\ MayGive(c, n) /\ k \notin Macs \cup {"host_ccm"} /\ Len(x.cache) + n < Block
      /\ ctx' = [ctx EXCEPT ![c].cache = @ \o src]
      /\ app' = [app EXCEPT ![c].n = @ + n, ![c].st = "open"]
      /\ done' = Nothing /\ UNCHANGED <<kind, forgotten, object, messages, faults>>
  BY DEF UpdateShort, Short, Given
<1>2. /\ Typed /\ Right(c) /\ x \in CtxTypes /\ a \in AppTypes /\ o \in Objects
      /\ a.st = "open" /\ a.n \in Nat /\ a.n + n \in 0 .. MaxTotal
      /\ ~ Waits(k, a) /\ src \in Data /\ Len(src) = n
      /\ Units(a.msg, a.n) \o src = Units(a.msg, a.n + n)
  BY <1>1, GivenFacts
<1> HIDE DEF src
<1>3. x.cache \o src \in Data /\ Len(x.cache \o src) = Len(x.cache) + n /\ x.cache \in Data
  BY <1>2, DataFacts DEF CtxTypes
<1>4. /\ ctx'[c] = [x EXCEPT !.cache = x.cache \o src] /\ ctx'[c] \in CtxTypes
      /\ app'[c] = [a EXCEPT !.n = a.n + n, !.st = "open"] /\ app'[c] \in AppTypes
      /\ \A d \in Contexts \ {c} : ctx'[d] = ctx[d] /\ app'[d] = app[d]
  BY <1>1, <1>2, <1>3 DEF Typed, CtxTypes, AppTypes
<1>5. Typed'
  <2>1. ctx' \in [Contexts -> CtxTypes] /\ app' \in [Contexts -> AppTypes]
    BY <1>1, <1>2, <1>4 DEF Typed
  <2>2. \A d \in Contexts : Len(ctx'[d].cache) < Block /\ Len(ctx'[d].buffer) <= ctx'[d].total
    BY <1>1, <1>2, <1>3, <1>4 DEF Typed, CtxTypes
  <2> QED BY <2>1, <2>2, <1>1, <1>2 DEF Typed
<1>6. OneOpen' /\ NothingLeft' /\ \A d \in Contexts \ {c} : Right(d)'
  <2>1. \A d \in Contexts : ctx'[d].id = ctx[d].id
    BY <1>2, <1>4 DEF CtxTypes
  <2> QED BY <2>1, <1>1, <1>2, <1>4, QuietOthers
<1>7. Right(c)'
  <2> DEFINE y == ctx'[c]
             b == app'[c]
  <2>1. Goes(k, x, a, o)
    BY <1>2 DEF Right
  <2>2. /\ y.cache = x.cache \o src
        /\ b.st = "open" /\ b.n = a.n + n /\ b.msg = a.msg /\ b.aad = a.aad /\ b.want = a.want
    BY <1>2, <1>4 DEF CtxTypes, AppTypes
  <2> HIDE DEF x, y, a, b, k, o
  <2>3. (o.data \o x.cache) \o src = o.data \o (x.cache \o src)
    <3>1. o.data \in Data
      BY <1>2 DEF Objects
    <3> QED BY <3>1, <1>2, <1>3, Associative
  <2>4. Holds(k, x, a, o) => Holds(k, y, b, o)
    BY <2>2, <2>3, <1>1, <1>2 DEF Holds
  <2>5. Goes(k, y, b, o)
    BY <2>1, <2>2, <2>4, <1>1, <1>2 DEF Goes, Waits
  <2>6. Rested(k, y, b) /\ Justified(k, b, o, faults)
    BY <2>2 DEF Rested, Justified
  <2> QED BY <2>5, <2>6, <1>1 DEF Right, ObjectOf, k, o, y, b
<1> QED BY <1>1, <1>5, <1>6, <1>7, NothingDone DEF CInv

\* Data for a library's CCM: the buffer takes it, or the call fails.
LEMMA UpdateCcmKeeps ==
  ASSUME CInv, NEW c \in Contexts, NEW n \in Nat, UpdateCcm(c, n)
  PROVE  CInv'
<1> DEFINE a == app[c]
           x == ctx[c]
           src == Piece(a.msg, a.n, n)
           fits == Len(x.buffer) + n <= x.total
<1>1. /\ MayGive(c, n) /\ kind[c] = "host_ccm"
      /\ ctx' = [ctx EXCEPT ![c].buffer = IF fits THEN @ \o src ELSE <<>>]
      /\ app' = [app EXCEPT ![c].n = @ + n, ![c].st = IF fits THEN "open" ELSE "failed"]
      /\ done' = Nothing /\ UNCHANGED <<kind, forgotten, object, messages, faults>>
  BY DEF UpdateCcm, Given
<1>2. /\ Typed /\ Right(c) /\ x \in CtxTypes /\ a \in AppTypes
      /\ a.st = "open" /\ a.n \in Nat /\ a.n + n \in 0 .. MaxTotal
      /\ src \in Data /\ Len(src) = n
      /\ Units(a.msg, a.n) \o src = Units(a.msg, a.n + n)
  BY <1>1, GivenFacts
<1> HIDE DEF src
<1>3. x.buffer \o src \in Data /\ Len(x.buffer \o src) = Len(x.buffer) + n /\ <<>> \in Data /\ Len(<<>>) = 0
  BY <1>2, DataFacts DEF CtxTypes
<1>4. /\ ctx'[c] = [x EXCEPT !.buffer = IF fits THEN x.buffer \o src ELSE <<>>] /\ ctx'[c] \in CtxTypes
      /\ app'[c] = [a EXCEPT !.n = a.n + n, !.st = IF fits THEN "open" ELSE "failed"] /\ app'[c] \in AppTypes
      /\ \A d \in Contexts \ {c} : ctx'[d] = ctx[d] /\ app'[d] = app[d]
  BY <1>1, <1>2, <1>3 DEF Typed, CtxTypes, AppTypes
<1>5. Typed'
  <2>1. ctx' \in [Contexts -> CtxTypes] /\ app' \in [Contexts -> AppTypes]
    BY <1>1, <1>2, <1>4 DEF Typed
  <2>2. Len(ctx'[c].cache) < Block /\ Len(ctx'[c].buffer) <= ctx'[c].total
    BY <1>2, <1>3, <1>4 DEF Typed, CtxTypes
  <2>3. \A d \in Contexts : Len(ctx'[d].cache) < Block /\ Len(ctx'[d].buffer) <= ctx'[d].total
    BY <1>2, <1>4, <2>2 DEF Typed
  <2> QED BY <2>1, <2>3, <1>1, <1>2 DEF Typed
<1>6. OneOpen' /\ NothingLeft' /\ \A d \in Contexts \ {c} : Right(d)'
  <2>1. \A d \in Contexts : ctx'[d].id = ctx[d].id
    BY <1>2, <1>4 DEF CtxTypes
  <2> QED BY <2>1, <1>1, <1>2, <1>4, QuietOthers
<1>7. Right(c)'
  <2>1. app'[c].st = "open" => fits
    BY <1>2, <1>4 DEF AppTypes
  <2>2. a.msg \in 1 .. MaxMessages /\ InHand("host_ccm", x, a)
    BY <1>1, <1>2 DEF Right, Goes
  <2>3. fits => InHand("host_ccm", ctx'[c], app'[c])
    BY ZenonT(40), <2>2, <1>2, <1>4 DEF InHand, CtxTypes, AppTypes
  <2>4. app'[c].st \in {"open", "failed"} /\ app'[c].msg = a.msg
    BY <1>2, <1>4 DEF AppTypes
  <2>5. Goes("host_ccm", ctx'[c], app'[c], object[ObjectOf(c)])
    BY <2>1, <2>2, <2>3, <2>4 DEF Goes, Waits
  <2> QED BY <2>4, <2>5, <1>1 DEF Right, ObjectOf, Rested, Justified
<1> QED BY <1>1, <1>5, <1>6, <1>7, NothingDone DEF CInv

\* A last piece that is too long: the message is given up.
LEMMA FinishTooLongKeeps ==
  ASSUME CInv, NEW c \in Contexts, FinishTooLong(c)
  PROVE  CInv'
<1>1. /\ app' = [app EXCEPT ![c].st = "failed"]
      /\ done' = Nothing /\ UNCHANGED <<kind, forgotten, ctx, object, messages, faults>>
  BY DEF FinishTooLong, App
<1>2. Typed /\ app[c] \in AppTypes
  BY ObjectOfFacts DEF CInv
<1>3. /\ app'[c] = [app[c] EXCEPT !.st = "failed"] /\ app'[c] \in AppTypes /\ app'[c].st = "failed"
      /\ \A d \in Contexts \ {c} : app'[d] = app[d]
  BY <1>1, <1>2 DEF Typed, AppTypes
<1>4. Typed'
  BY <1>1, <1>2, <1>3 DEF Typed
<1>5. OneOpen' /\ NothingLeft' /\ \A d \in Contexts \ {c} : Right(d)'
  BY <1>1, <1>2, <1>3, QuietOthers
<1>6. Right(c)'
  BY <1>3 DEF Right, Goes, Rested, Justified
<1> QED BY <1>1, <1>4, <1>5, <1>6, NothingDone DEF CInv

\* One request, and two.
LEMMA OneRequest ==
  ASSUME NEW o, NEW r \in Requests, NEW k
  PROVE  /\ <<r>> \in Seq(Requests) /\ Len(<<r>>) = 1 /\ <<r>>[1] = r
         /\ After(o, <<r>>, 1) = Does(o, r) /\ (Taken(k, o, <<r>>) <=> Takes(k, o, r))
<1>0. <<r>> \in Seq(Requests) /\ Len(<<r>>) = 1 /\ <<r>>[1] = r
  OBVIOUS
<1>1. PICK s \in Seq(Requests) : s = <<r>>
  BY <1>0
<1>2. After(o, s, 0) = o
  BY AfterSteps
<1>3. ASSUME NEW n \in 1 .. Len(s)
      PROVE  After(o, s, n) = Does(After(o, s, n - 1), s[n])
  BY ZenonT(40), AfterSteps
<1>4. After(o, s, 1) = Does(o, r)
  BY <1>0, <1>1, <1>2, <1>3
<1>5. Taken(k, o, s) <=> Takes(k, After(o, s, 1 - 1), s[1])
  BY <1>0, <1>1 DEF Taken
<1>6. Taken(k, o, s) <=> Takes(k, o, r)
  BY <1>0, <1>1, <1>2, <1>5
<1> QED BY <1>0, <1>1, <1>4, <1>6

\* A request and another after it.
LEMMA TwoRequests ==
  ASSUME NEW o, NEW q \in Requests, NEW r \in Requests, NEW k
  PROVE  /\ <<q, r>> \in Seq(Requests) /\ Len(<<q, r>>) = 2 /\ <<q, r>>[1] = q
         /\ After(o, <<q, r>>, 1) = Does(o, q) /\ After(o, <<q, r>>, 2) = Does(Does(o, q), r)
         /\ Taken(k, o, <<q, r>>) <=> Takes(k, o, q) /\ Takes(k, Does(o, q), r)
<1>0. <<q, r>> \in Seq(Requests) /\ Len(<<q, r>>) = 2 /\ <<q, r>>[1] = q /\ <<q, r>>[2] = r
  OBVIOUS
<1>1. PICK s \in Seq(Requests) : s = <<q, r>>
  BY <1>0
<1>2. After(o, s, 0) = o
  BY AfterSteps
<1>3. ASSUME NEW n \in 1 .. Len(s)
      PROVE  After(o, s, n) = Does(After(o, s, n - 1), s[n])
  BY ZenonT(40), AfterSteps
<1>4. After(o, s, 1) = Does(o, q) /\ After(o, s, 2) = Does(Does(o, q), r)
  <2>1. 1 \in 1 .. Len(s) /\ 2 \in 1 .. Len(s) /\ 1 - 1 = 0 /\ 2 - 1 = 1
    BY <1>0, <1>1
  <2>2. After(o, s, 1) = Does(o, q)
    BY <2>1, <1>0, <1>1, <1>2, <1>3
  <2> QED BY <2>1, <2>2, <1>0, <1>1, <1>3
<1>5. Taken(k, o, s) <=> Takes(k, After(o, s, 1 - 1), s[1]) /\ Takes(k, After(o, s, 2 - 1), s[2])
  BY <1>0, <1>1 DEF Taken
<1>6. Taken(k, o, s) <=> Takes(k, o, q) /\ Takes(k, Does(o, q), r)
  BY <1>0, <1>1, <1>2, <1>4, <1>5
<1> QED BY <1>0, <1>1, <1>4, <1>6

\* Requests are made of an operation and of data.
LEMMA RequestTypes ==
  ASSUME NEW d \in Data, NEW want \in 0 .. MaxTotal
  PROVE  /\ \A op \in {"create", "start", "delete", "aad", "update", "last", "final"} :
              Req(op, d, want) \in Requests /\ Req(op, d, 0) \in Requests
         /\ Update1(d) \in Requests /\ Req("update", d, 0) = Update1(d)
BY ContextsAssumption DEF Req, Requests, Update1

\* How a call ends, from the requests it made.
LEMMA OutcomeFacts ==
  ASSUME NEW c, NEW S, NEW reqs \in Seq(S), NEW e \in Ends(c, reqs), faults \in 0 .. MaxFaults, NEW good
  PROVE  /\ Outcome(e, good) \in {good, "failed", "refused"}
         /\ good \notin {"failed", "refused"} => (Outcome(e, good) = good <=> e.bad = 0)
         /\ good # "refused" => (Outcome(e, good) = "refused" <=> e.bad # 0 /\ e.faults = 0)
<1>1. e.faults \in {0, 1}
  BY EndsFacts
  <1> QED BY <1>1 DEF Outcome

\* What a call means to its own context, when it has made the requests it should: it fails,
\* or is refused for a reason, or what it has done is right.
LEMMA OwnRight ==
  ASSUME Typed, NEW c \in Contexts, NEW reqs \in Seq(Requests), NEW e \in Ends(c, reqs),
         Exchange(c, reqs, e), kind' = kind,
         NEW good \in {"open", "ready"}, app'[c].st = Outcome(e, good),
         Len(reqs) > 0 => reqs[1].op # "create",
         NEW k, k = kind[c], NEW o, o = object[ObjectOf(c)],
         Fresh(k) /\ o.st # "none" => Taken(k, o, reqs) \/ Excused(k, app'[c].n),
         app'[c].st = good /\ Taken(k, o, reqs) =>
            /\ Goes(k, ctx'[c], app'[c], After(o, reqs, Len(reqs)))
            /\ Rested(k, ctx'[c], app'[c])
  PROVE  Right(c)'
<1> DEFINE p == object'[ObjectOf(c)]
           b == app'[c]
<1>1. /\ e.bad = 0 => p = After(o, reqs, Len(reqs)) /\ Taken(k, o, reqs)
      /\ Len(reqs) > 0 /\ reqs[1].op # "create" /\ o.st = "none" => p = o
      /\ e.bad # 0 /\ faults' = 0 => e.faults = 0 /\ ~ Taken(k, o, reqs)
  BY ExchangeFacts
<1>2. /\ b.st \in {good, "failed", "refused"} /\ (b.st = good <=> e.bad = 0)
      /\ b.st = "refused" <=> e.bad # 0 /\ e.faults = 0
  BY OutcomeFacts DEF Typed
<1>3. Right(c)' <=> Goes(k, ctx'[c], b, p) /\ Rested(k, ctx'[c], b) /\ Justified(k, b, p, faults')
  BY DEF Right, ObjectOf
<1> HIDE DEF p, b
<1>4. CASE b.st = good
  BY <1>1, <1>2, <1>3, <1>4 DEF Justified, b
<1>5. CASE b.st = "failed"
  BY <1>3, <1>5 DEF Goes, Rested, Justified
<1>6. CASE b.st = "refused"
  <2>1. Goes(k, ctx'[c], b, p) /\ Rested(k, ctx'[c], b)
    BY <1>6 DEF Goes, Rested
  <2>2. ASSUME Fresh(k), faults' = 0
        PROVE  Excused(k, b.n) \/ p.st = "none"
    <3>1. ~ Taken(k, o, reqs)
      BY <1>1, <1>2, <1>6, <2>2
    <3>2. CASE o.st = "none"
      <4>1. Len(reqs) > 0
        BY <3>1 DEF Taken
      <4> QED BY <4>1, <3>2, <1>1
    <3>3. CASE o.st # "none"
      BY <3>1, <3>3, <2>2 DEF b
    <3> QED BY <3>2, <3>3
  <2> QED BY <2>1, <2>2, <1>3 DEF Justified
<1> QED BY <1>2, <1>4, <1>5, <1>6

\* The rest of the invariant after a call that goes on with a message, or ends it.
LEMMA OngoingKeeps ==
  ASSUME CInv, NEW c \in Contexts, app[c].st = "open",
         NEW reqs \in Seq(Requests), NEW e \in Ends(c, reqs), Exchange(c, reqs, e),
         Len(reqs) > 0 => reqs[1].op # "create",
         UNCHANGED <<kind, forgotten, messages>>,
         NEW x \in CtxTypes, ctx' = [ctx EXCEPT ![c] = x], x.id = ctx[c].id,
         Len(x.cache) < Block, Len(x.buffer) <= x.total,
         NEW b \in AppTypes, app' = [app EXCEPT ![c] = b],
         Right(c)', DoneRight'
  PROVE  CInv'
<1>1. Typed
  BY DEF CInv
<1>2. /\ ctx' \in [Contexts -> CtxTypes] /\ app' \in [Contexts -> AppTypes]
      /\ ctx'[c] = x /\ \A d \in Contexts \ {c} : ctx'[d] = ctx[d] /\ app'[d] = app[d]
  BY <1>1 DEF Typed
<1>3. /\ \A d \in Contexts : ctx'[d].id = ctx[d].id
      /\ \A d \in Contexts : Len(ctx'[d].cache) < Block /\ Len(ctx'[d].buffer) <= ctx'[d].total
  BY <1>1, <1>2 DEF Typed
<1>4. object' \in [SeKinds \cup Contexts -> Objects] /\ faults' \in 0 .. MaxFaults
  BY <1>1, ExchangeFacts
<1>5. Typed'
  BY <1>1, <1>2, <1>3, <1>4 DEF Typed
<1>6. OneOpen' /\ NothingLeft' /\ \A d \in Contexts \ {c} : Right(d)'
  BY <1>2, <1>3, OngoingOthers
<1> QED BY <1>5, <1>6 DEF CInv

\* The kinds of context are told apart.
LEMMA KindFacts ==
  ASSUME NEW k \in AllKinds
  PROVE  /\ k \in Macs => k \notin Ciphers /\ k \notin Aeads /\ k \notin KeepLast /\ k # "se_ccm"
         /\ k \in Ciphers => k \notin Aeads /\ k \notin KeepLast /\ k # "se_ccm"
         /\ k \in Aeads <=> k \notin Macs /\ k \notin Ciphers
         /\ k \in KeepLast <=> k \in {"mbedtls_gcm", "host_ccm"}
         /\ k \in Ccms <=> k \in {"se_ccm", "host_ccm"}
         /\ k \in Ccms => k \in Aeads
         /\ k \in Aeads => Fresh(k)
         /\ k \notin KeepLast => Lossless(k)
BY DEF AllKinds, SeKinds, HostKinds, Macs, Ciphers, Aeads, Ccms, KeepLast, Fresh, Lossless, HostCiphers, MbedCiphers, MbedAes, MbedDes

\* Data for a MAC or digest goes out as it comes.
LEMMA UpdateMacKeeps ==
  ASSUME CInv, NEW c \in Contexts, NEW n \in Nat, UpdateMac(c, n)
  PROVE  CInv'
<1> DEFINE a == app[c]
           k == kind[c]
           x == ctx[c]
           o == object[ObjectOf(c)]
           src == Piece(a.msg, a.n, n)
           r == Update1(src)
<1>1. MayGive(c, n) /\ k \in Macs /\ done' = Nothing /\ UNCHANGED <<kind, forgotten, ctx, messages>>
  BY DEF UpdateMac
<1>2. /\ Typed /\ Right(c) /\ k \in AllKinds /\ x \in CtxTypes /\ a \in AppTypes /\ o \in Objects
      /\ a.st = "open" /\ a.n \in Nat /\ a.n + n \in 0 .. MaxTotal
      /\ src \in Data /\ ~ Waits(k, a)
      /\ Units(a.msg, a.n) \o src = Units(a.msg, a.n + n)
  BY <1>1, GivenFacts
<1>3. r \in Requests /\ r.op = "update" /\ r.data = src
  BY <1>2, RequestTypes, ContextsAssumption DEF Update1, Req
<1>4. PICK reqs \in Seq(Requests) : reqs = <<r>>
  BY <1>3, OneRequest
<1>5. /\ Len(reqs) = 1 /\ reqs[1].op = "update"
      /\ After(o, reqs, Len(reqs)) = Does(o, r) /\ (Taken(k, o, reqs) <=> Takes(k, o, r))
  BY <1>3, <1>4, OneRequest
<1>6. PICK e \in Ends(c, reqs) : Exchange(c, reqs, e) /\ Given(c, n, Outcome(e, "open"))
  BY <1>4 DEF UpdateMac
<1> DEFINE b == [a EXCEPT !.n = a.n + n, !.st = Outcome(e, "open")]
<1>7. Outcome(e, "open") \in {"open", "failed", "refused"}
  BY <1>2, OutcomeFacts DEF Typed
<1>8. app' = [app EXCEPT ![c] = b] /\ b \in AppTypes /\ app'[c] = b
  BY <1>2, <1>6, <1>7 DEF Given, Typed, AppTypes
<1>9. /\ k \notin Ciphers /\ k \notin Aeads /\ k # "se_ccm" /\ k # "se_des" /\ k # "host_ccm"
      /\ k \notin {"mbedtls_ecb", "mbedtls_des_ecb"}
  BY <1>1, <1>2, KindFacts DEF Ciphers, Ccms, HostCiphers, MbedCiphers, MbedAes, MbedDes
<1>10. Takes(k, o, r) <=> o.st = "live"
  BY <1>3, <1>9 DEF Takes, InBlocks
<1>11. o.st = "none" \/ Holds(k, x, a, o)
  BY <1>2, <1>9 DEF Goes, Right
<1> DEFINE p == Does(o, r)
<1>12. /\ p.st = o.st /\ p.data = o.data \o src /\ p.aad = o.aad /\ p.want = o.want
       /\ b.msg = a.msg /\ b.n = a.n + n /\ b.aad = a.aad /\ b.want = a.want /\ b.st = Outcome(e, "open")
  <2>1. p = [o EXCEPT !.data = @ \o src]
    BY <1>3 DEF Does
  <2> QED BY <2>1, <1>2 DEF Objects, AppTypes
<1>13. a.msg \in 1 .. MaxMessages
  BY <1>2 DEF Right, Goes
<1>14. ctx'[c] = x /\ Len(x.cache) < Block /\ Len(x.buffer) <= x.total /\ ctx' = [ctx EXCEPT ![c] = x]
  BY <1>1, <1>2 DEF Typed
<1> HIDE DEF a, k, o, b, p, r, src, x
<1>15. Fresh(k) /\ o.st # "none" => Taken(k, o, reqs)
  BY <1>5, <1>10, <1>11 DEF Holds
<1>16. ASSUME b.st = "open", Taken(k, o, reqs)
       PROVE  Goes(k, x, b, p)
  <2>1. Holds(k, x, a, o)
    BY <1>5, <1>10, <1>11, <1>16
  <2>2. Holds(k, x, b, p)
    BY <2>1, <1>1, <1>2, <1>12 DEF Holds
  <2> QED BY <2>2, <1>2, <1>9, <1>12, <1>13 DEF Goes, Waits
<1>17. Rested(k, x, b)
  BY <1>9 DEF Rested
<1>18. Right(c)'
  <2>1. /\ kind' = kind /\ k = kind[c] /\ o = object[ObjectOf(c)] /\ app'[c].st = Outcome(e, "open")
    BY <1>1, <1>8, <1>12 DEF k, o
  <2>2. app'[c].st = "open" /\ Taken(k, o, reqs) =>
          Goes(k, ctx'[c], app'[c], After(o, reqs, Len(reqs))) /\ Rested(k, ctx'[c], app'[c])
    BY <1>5, <1>8, <1>14, <1>16, <1>17 DEF p
  <2>3. Len(reqs) > 0 => reqs[1].op # "create"
    BY <1>5
  <2> QED BY <2>1, <2>2, <2>3, <1>2, <1>6, <1>15, OwnRight
<1>19. x.id = ctx[c].id /\ app[c].st = "open"
  BY <1>2 DEF x, a
<1> QED BY <1>1, <1>2, <1>5, <1>6, <1>8, <1>14, <1>18, <1>19, NothingDone, OngoingKeeps

-----------------------------------------------------------------------------
(* Additional data.                                                        *)

\* No data is nothing.
LEMMA NoUnits == \A m : Units(m, 0) = <<>> /\ \A n : Piece(m, 0, n) = Units(m, n)
<1>1. ASSUME NEW m PROVE Units(m, 0) = <<>>
  <2>1. Units(m, 0) \in Seq({}) /\ Len(Units(m, 0)) = 0
    BY DEF Units
  <2> QED BY <2>1, EmptySeq
<1>2. ASSUME NEW m, NEW n PROVE Piece(m, 0, n) = Units(m, n)
  BY DEF Piece, Units
<1> QED BY <1>1, <1>2

\* Nothing can be joined to nothing but nothing.
LEMMA JoinedToNothing ==
  ASSUME NEW s \in Data, NEW t \in Data, s \o t = <<>>
  PROVE  s = <<>> /\ t = <<>>
<1>1. Len(s \o t) = Len(s) + Len(t) /\ Len(s) \in Nat /\ Len(t) \in Nat /\ Len(<<>>) = 0
  BY DataFacts
<1> QED BY <1>1, DataFacts

\* The requests for a chunk of AAD: they append it, or start with it.
LEMMA AadReqsFacts ==
  ASSUME NEW k \in Aeads, NEW chunk \in Data, NEW o \in Objects
  PROVE  LET reqs == AadReqs(k, chunk)
             p == After(o, reqs, Len(reqs))
         IN  /\ reqs \in Seq(Requests) /\ (Len(reqs) > 0 => reqs[1].op # "create")
             /\ k \notin KeepLast =>
                  /\ p = [o EXCEPT !.aad = @ \o chunk]
                  /\ o.st = "live" /\ o.data = <<>> => Taken(k, o, reqs)
             /\ k = "mbedtls_gcm" =>
                  /\ p.st = "live" /\ p.data = <<>> /\ p.aad = chunk
                  /\ Taken(k, o, reqs) <=> o.st # "none"
             /\ k = "host_ccm" => Taken(k, o, reqs)
<1> DEFINE reqs == AadReqs(k, chunk)
           p == After(o, reqs, Len(reqs))
           r == Req("aad", chunk, 0)
           s == Req("start", <<>>, 0)
<1>1. r \in Requests /\ s \in Requests /\ r.op = "aad" /\ r.data = chunk /\ s.op = "start" /\ s.want = 0
  <2>1. r \in Requests /\ s \in Requests
    BY RequestTypes, DataFacts, ContextsAssumption
  <2> QED BY <2>1 DEF Req
<1>2. <<>> \o chunk = chunk
  BY DataFacts
<1>3. CASE k = "openssl_gcm"
  <2>1. PICK q \in Seq(Requests) : q = <<r>>
    BY <1>1, OneRequest
  <2>2. reqs = q /\ k \notin KeepLast /\ k # "host_ccm" /\ k # "mbedtls_gcm"
    BY <1>3, <2>1 DEF AadReqs, KeepLast
  <2>3. /\ Len(q) = 1 /\ q[1].op = "aad" /\ After(o, q, 1) = Does(o, r)
        /\ Taken(k, o, q) <=> Takes(k, o, r)
    BY <1>1, <2>1, OneRequest
  <2>4. Does(o, r) = [o EXCEPT !.aad = @ \o chunk]
    BY <1>1 DEF Does
  <2>5. o.st = "live" /\ o.data = <<>> => Takes(k, o, r)
    BY <1>1 DEF Takes
  <2> HIDE DEF r, s
  <2>6. p = [o EXCEPT !.aad = @ \o chunk]
    BY <2>2, <2>3, <2>4
  <2> HIDE DEF p
  <2> QED BY <2>2, <2>3, <2>5, <2>6 DEF p
<1>4. CASE k = "mbedtls_gcm"
  <2>1. PICK q \in Seq(Requests) : q = <<s, r>>
    BY <1>1, TwoRequests
  <2>2. reqs = q /\ k # "host_ccm" /\ k \in KeepLast
    BY <1>4, <2>1 DEF AadReqs, KeepLast
  <2>3. /\ Len(q) = 2 /\ q[1].op = "start" /\ After(o, q, 2) = Does(Does(o, s), r)
        /\ Taken(k, o, q) <=> Takes(k, o, s) /\ Takes(k, Does(o, s), r)
    BY SMTT(30), <1>1, <2>1, TwoRequests
  <2>4. Does(o, s).st = "live" /\ Does(o, s).data = <<>> /\ Does(o, s).aad = <<>> /\ Does(o, s) \in Objects
    BY <1>1, DoesTyped DEF Does, NoObject
  <2>5. LET d == Does(Does(o, s), r) IN d.st = "live" /\ d.data = <<>> /\ d.aad = chunk
    <3> DEFINE d == Does(o, s)
    <3> HIDE DEF d
    <3>1. Does(d, r) = [d EXCEPT !.aad = @ \o chunk]
      BY <1>1 DEF Does
    <3> QED BY <3>1, <1>2, <2>4 DEF d, Objects
  <2>6. (Takes(k, o, s) <=> o.st # "none") /\ Takes(k, Does(o, s), r)
    BY <1>1, <2>4 DEF Takes
  <2> HIDE DEF r, s
  <2>7. p.st = "live" /\ p.data = <<>> /\ p.aad = chunk
    BY <2>2, <2>3, <2>5
  <2> HIDE DEF p
  <2> QED BY <1>4, <2>2, <2>3, <2>6, <2>7 DEF p
<1>5. CASE k = "host_ccm"
  <2>1. PICK q \in Seq(Requests) : q = <<>>
    BY EmptySeq
  <2>2. reqs = q /\ k \in KeepLast /\ k # "mbedtls_gcm" /\ Len(q) = 0
    BY <1>5, <2>1 DEF AadReqs, KeepLast
  <2>3. Taken(k, o, q)
    BY <2>2 DEF Taken
  <2> QED BY <2>2, <2>3
<1>6. CASE k \in {"se_gcm", "se_ccm"}
  <2> DEFINE cut == Cut(chunk, Block)
             q == [i \in 1 .. Len(cut) |-> Req("aad", cut[i], 0)]
  <2>1. reqs = q /\ k \notin KeepLast /\ k # "host_ccm" /\ k # "mbedtls_gcm"
    BY <1>6 DEF AadReqs, KeepLast
  <2>2. /\ q \in Seq(Requests) /\ Len(q) = Len(cut)
        /\ \A n \in 0 .. Len(q) : After(o, q, n) = More(o, "aad", SubSeq(chunk, 1, Upto(chunk, Block, n)))
        /\ After(o, q, Len(q)) = More(o, "aad", chunk)
    BY BlockFacts, CutAfter
  <2>3. \A i \in 1 .. Len(q) : q[i].op = "aad"
    BY <2>2 DEF Req
  <2> HIDE DEF q
  <2>4. ASSUME o.st = "live", o.data = <<>>
        PROVE  Taken(k, o, q)
    <3>1. SUFFICES ASSUME NEW n \in 1 .. Len(q)
                   PROVE  Takes(k, After(o, q, n - 1), q[n])
      BY DEF Taken
    <3>2. n - 1 \in 0 .. Len(q)
      BY <2>2
    <3>3. After(o, q, n - 1) = More(o, "aad", SubSeq(chunk, 1, Upto(chunk, Block, n - 1)))
      BY <2>2, <3>2
    <3>4. \A d : More(o, "aad", d).st = "live" /\ More(o, "aad", d).data = <<>>
      BY <2>4 DEF More, Objects
    <3> QED BY <2>3, <3>3, <3>4 DEF Takes
  <2>5. Len(q) \in Nat
    BY <2>2
  <2>6. Len(q) > 0 => q[1].op # "create"
    BY <2>3, <2>5
  <2>7. After(o, q, Len(q)) = [o EXCEPT !.aad = @ \o chunk]
    BY <2>2 DEF More
  <2> QED BY <2>1, <2>2, <2>4, <2>6, <2>7
<1> QED BY <1>3, <1>4, <1>5, <1>6 DEF Aeads, Ccms

\* Additional data reaches the object, or the context that keeps it.
LEMMA UpdateAadKeeps ==
  ASSUME CInv, NEW c \in Contexts, NEW n \in Nat, n > 0, UpdateAad(c, n)
  PROVE  CInv'
<1> DEFINE a == app[c]
           k == kind[c]
           x == ctx[c]
           o == object[ObjectOf(c)]
           chunk == Piece(a.msg, a.aad, n)
           y == IF k = "host_ccm" THEN [x EXCEPT !.aad = chunk] ELSE x
<1>1. /\ a.st = "open" /\ k \in Aeads /\ a.n = 0 /\ a.aad + n <= MaxAad /\ (a.aad = 0 \/ k \in AadInChunks)
      /\ done' = Nothing /\ UNCHANGED <<kind, forgotten, messages>>
      /\ ctx' = IF k = "host_ccm" THEN [ctx EXCEPT ![c].aad = chunk] ELSE ctx
  BY DEF UpdateAad
<1>2. /\ Typed /\ Right(c) /\ k \in AllKinds /\ x \in CtxTypes /\ a \in AppTypes /\ o \in Objects
  BY ObjectOfFacts DEF CInv
<1>3. a.msg \in 1 .. MaxMessages /\ a.aad \in Nat /\ a.aad + n \in 0 .. MaxAad
  BY <1>1, <1>2, ContextsAssumption DEF Right, Goes, AppTypes
<1>4. /\ chunk \in Data /\ Units(a.msg, a.aad) \o chunk = Units(a.msg, a.aad + n)
      /\ Units(a.msg, 0) = <<>> /\ (a.aad = 0 => chunk = Units(a.msg, a.aad + n))
  <2>1. PICK m \in 1 .. MaxMessages, from \in Nat : m = a.msg /\ from = a.aad
    BY <1>3
  <2>2. from + n <= MaxTotal + MaxAad
    BY <2>1, <1>3, ContextsAssumption
  <2>3. Piece(m, from, n) \in Data /\ Units(m, from) \o Piece(m, from, n) = Units(m, from + n)
    BY <2>2, UnitsFacts
  <2>4. Units(m, 0) = <<>> /\ Piece(m, 0, n) = Units(m, n)
    BY NoUnits
  <2>5. from = 0 => from + n = n
    OBVIOUS
  <2> QED BY <2>1, <2>3, <2>4, <2>5
<1>5. PICK reqs \in Seq(Requests) : reqs = AadReqs(k, chunk)
  BY <1>1, <1>2, <1>4, AadReqsFacts
<1> DEFINE p == After(o, reqs, Len(reqs))
<1>6. /\ Len(reqs) > 0 => reqs[1].op # "create"
      /\ k \notin KeepLast =>
           /\ p = [o EXCEPT !.aad = @ \o chunk]
           /\ o.st = "live" /\ o.data = <<>> => Taken(k, o, reqs)
      /\ k = "mbedtls_gcm" =>
           /\ p.st = "live" /\ p.data = <<>> /\ p.aad = chunk
           /\ Taken(k, o, reqs) <=> o.st # "none"
      /\ k = "host_ccm" => Taken(k, o, reqs)
  <2>1. k \in Aeads /\ chunk \in Data /\ o \in Objects
    BY <1>1, <1>2, <1>4
  <2> HIDE DEF k, o, chunk
  <2> QED BY <2>1, <1>5, AadReqsFacts
<1>7. PICK e \in Ends(c, reqs) :
         Exchange(c, reqs, e) /\ app' = [app EXCEPT ![c].aad = @ + n, ![c].st = Outcome(e, "open")]
  BY <1>5 DEF UpdateAad
<1> DEFINE b == [a EXCEPT !.aad = a.aad + n, !.st = Outcome(e, "open")]
<1>8. Outcome(e, "open") \in {"open", "failed", "refused"}
  BY <1>2, OutcomeFacts DEF Typed
<1>9. app' = [app EXCEPT ![c] = b] /\ b \in AppTypes /\ app'[c] = b
  BY <1>2, <1>3, <1>7, <1>8 DEF Typed, AppTypes
<1>10. b.msg = a.msg /\ b.n = 0 /\ b.aad = a.aad + n /\ b.want = a.want /\ b.st = Outcome(e, "open")
  BY <1>1, <1>2 DEF AppTypes
<1>11. /\ k \notin Macs /\ k \notin Ciphers /\ k # "se_des" /\ Fresh(k)
       /\ k \in KeepLast <=> k \in {"mbedtls_gcm", "host_ccm"}
       /\ k \in KeepLast /\ Lossless(k) => a.aad = 0
       /\ k = "mbedtls_gcm" => k \notin Ccms /\ k \in KeepLast
       /\ k = "host_ccm" => k \in KeepLast
  BY <1>1, <1>2, KindFacts DEF Ciphers, Ccms, Lossless, HostCiphers, MbedCiphers, MbedAes, MbedDes
<1>12. /\ y \in CtxTypes /\ ctx' = [ctx EXCEPT ![c] = y] /\ ctx'[c] = y
       /\ y.id = x.id /\ y.cache = x.cache /\ y.buffer = x.buffer /\ y.total = x.total
       /\ k = "host_ccm" => y.aad = chunk
       /\ Len(y.cache) < Block /\ Len(y.buffer) <= y.total
  BY <1>1, <1>2, <1>4 DEF Typed, CtxTypes
<1>13. Goes(k, x, a, o)
  BY <1>2 DEF Right
<1>14. a.aad + n > 0 /\ a.n = 0
  BY <1>1, <1>3
<1> HIDE DEF a, k, o, b, p, x, y, chunk
<1>15. Fresh(k) /\ o.st # "none" => Taken(k, o, reqs)
  <2>1. SUFFICES ASSUME o.st # "none", k \notin KeepLast PROVE Taken(k, o, reqs)
    BY <1>6, <1>11
  <2>2. Holds(k, x, a, o)
    BY <2>1, <1>1, <1>11, <1>13 DEF Goes, Waits
  <2>3. o.data \o x.cache = <<>> /\ o.st = "live"
    BY <2>2, <1>4, <1>11, <1>14 DEF Holds
  <2>4. o.data = <<>>
    BY <2>3, <1>2, JoinedToNothing DEF Objects, CtxTypes
  <2> QED BY <2>1, <2>3, <2>4, <1>6
<1>16. ASSUME b.st = "open", Taken(k, o, reqs)
       PROVE  Goes(k, y, b, p)
  <2>1. CASE k = "host_ccm"
    <3>1. InHand(k, x, a)
      BY <2>1, <1>1, <1>13 DEF Goes
    <3>2. InHand(k, y, b)
      BY <2>1, <3>1, <1>4, <1>10, <1>11, <1>12, <1>14 DEF InHand
    <3> QED BY <2>1, <3>2, <1>3, <1>10 DEF Goes, Waits
  <2>2. CASE k = "mbedtls_gcm"
    <3>1. o.st # "none" /\ p.st = "live" /\ p.data = <<>> /\ p.aad = chunk
      BY <2>2, <1>6, <1>16
    <3>2. x.cache = <<>>
      <4>1. CASE Waits(k, a)
        BY <4>1, <1>1, <1>13 DEF Goes
      <4>2. CASE ~ Waits(k, a)
        <5>1. Holds(k, x, a, o)
          BY <4>2, <3>1, <2>2, <1>1, <1>13 DEF Goes
        <5>2. o.data \o x.cache = <<>>
          BY <5>1, <1>4, <1>11, <1>14 DEF Holds
        <5> QED BY <5>2, <1>2, JoinedToNothing DEF Objects, CtxTypes
      <4> QED BY <4>1, <4>2
    <3>3. Whole(Len(<<>>)) /\ <<>> \o <<>> = <<>>
      BY DataFacts, BlockFacts DEF Whole
    <3>4. p.data \o y.cache = Units(b.msg, b.n) /\ Whole(Len(p.data))
      BY <3>1, <3>2, <3>3, <1>4, <1>10, <1>12
    <3>5. Holds(k, y, b, p)
      BY <2>2, <3>1, <3>4, <1>4, <1>10, <1>11 DEF Holds
    <3> QED BY <2>2, <3>5, <1>3, <1>10, <1>14 DEF Goes, Waits
  <2>3. CASE k \notin KeepLast
    <3>1. p.st = o.st /\ p.data = o.data /\ p.aad = o.aad \o chunk /\ p.want = o.want
      BY <2>3, <1>2, <1>6 DEF Objects
    <3>2. o.st = "none" \/ Holds(k, x, a, o)
      BY <2>3, <1>1, <1>11, <1>13 DEF Goes, Waits
    <3>3. Holds(k, x, a, o) => Holds(k, y, b, p)
      BY <2>3, <3>1, <1>4, <1>10, <1>11, <1>12, <1>14 DEF Holds
    <3> QED BY <2>3, <3>1, <3>2, <3>3, <1>3, <1>10, <1>11 DEF Goes, Waits
  <2> QED BY <2>1, <2>2, <2>3, <1>11
<1>17. Rested(k, y, b)
  BY <1>11 DEF Rested
<1>18. Right(c)'
  <2>1. /\ kind' = kind /\ k = kind[c] /\ o = object[ObjectOf(c)] /\ app'[c].st = Outcome(e, "open")
    BY <1>1, <1>9, <1>10 DEF k, o
  <2>2. app'[c].st = "open" /\ Taken(k, o, reqs) =>
          Goes(k, ctx'[c], app'[c], After(o, reqs, Len(reqs))) /\ Rested(k, ctx'[c], app'[c])
    BY <1>9, <1>12, <1>16, <1>17 DEF p
  <2>3. Len(reqs) > 0 => reqs[1].op # "create"
    BY <1>6
  <2> QED BY <2>1, <2>2, <2>3, <1>2, <1>7, <1>15, OwnRight
<1>19. y.id = ctx[c].id /\ app[c].st = "open"
  BY <1>1, <1>12 DEF x, a
<1> QED BY <1>1, <1>6, <1>7, <1>9, <1>12, <1>18, <1>19, NothingDone, OngoingKeeps

-----------------------------------------------------------------------------
(* Updates in blocks.                                                      *)

\* A number without what is left over is whole.
LEMMA WithoutRest ==
  ASSUME NEW n \in Nat
  PROVE  /\ n % Block \in Nat /\ n % Block < Block /\ n % Block <= n
         /\ n - (n % Block) \in Nat /\ Whole(n - (n % Block))
<1> DEFINE q == n \div Block
           r == n % Block
<1>1. q \in Nat /\ r \in Nat /\ r < Block /\ n = Block * q + r /\ r <= n
  BY Quotients, BlockFacts
<1> HIDE DEF q, r
<1>2. n - r = Block * q /\ n - r \in Nat
  BY <1>1, BlockFacts
<1>3. Whole(n - r)
  BY <1>1, <1>2, Multiples
<1> QED BY <1>1, <1>2, <1>3 DEF r

\* The chunks that go out are whole blocks, and are what was cached and the source up to
\* the new rest.
LEMMA ChunksFacts ==
  ASSUME NEW c \in Contexts, NEW src \in Data, NEW cache \in Data, cache = ctx[c].cache,
         Len(cache) < Block, Len(cache) + Len(src) >= Block
  PROVE  LET R == Rest(c, src)
             chunks == Chunks(c, src)
         IN  /\ R \in 0 .. Len(src) /\ Len(src) - R < Block /\ Whole(Len(cache) + R)
             /\ chunks \in Seq(Data) /\ \A i \in 1 .. Len(chunks) : Whole(Len(chunks[i]))
             /\ kind[c] \notin SeKinds => \A i \in 1 .. Len(chunks) : Len(chunks[i]) = Block
             /\ \A o \in Objects :
                  LET reqs == [i \in 1 .. Len(chunks) |-> Update1(chunks[i])] IN
                  After(o, reqs, Len(reqs)) = More(o, "update", cache \o SubSeq(src, 1, R))
<1> DEFINE L == Len(src)
           K == Len(cache)
           R == Rest(c, src)
           S == Sent(c, src)
           F == FirstBlock(c, src)
           f == cache \o SubSeq(src, 1, Block - K)
           size == IF kind[c] \in SeKinds THEN MaxChunk ELSE Block
           T == SubSeq(src, S + 1, R)
           cut == Cut(T, size)
           chunks == Chunks(c, src)
           reqs == [i \in 1 .. Len(chunks) |-> Update1(chunks[i])]
           empty == kind[c] \in SeKinds /\ cache = <<>>
<1>1. L \in Nat /\ K \in Nat /\ K < Block /\ K + L >= Block /\ (cache = <<>> <=> K = 0) /\ Block \in Nat
  BY DataFacts, BlockFacts
<1>2. /\ empty => F = <<>> /\ S = 0
      /\ ~ empty => F = <<f>> /\ S = Block - K
  <2>1. <<f>> # <<>>
    OBVIOUS
  <2> QED BY <2>1 DEF FirstBlock, Sent, Fill
<1>3. S \in 0 .. L /\ (empty => K + S = 0) /\ (~ empty => K + S = Block)
  <2>1. Block - K \in 0 .. L /\ K + (Block - K) = Block /\ 0 \in 0 .. L
    BY <1>1
  <2>2. empty => S = 0 /\ K = 0
    BY <1>1, <1>2
  <2>3. ~ empty => S = Block - K
    BY <1>2
  <2> HIDE DEF empty, S, K, L
  <2> QED BY <2>1, <2>2, <2>3
<1>4. R = L - ((L - S) % Block) /\ chunks = F \o cut
  BY DEF Rest, Chunks
<1>5. size \in Nat /\ size > 0 /\ Whole(size) /\ (kind[c] \notin SeKinds => size = Block)
  BY BlockFacts, BlocksAreWhole
<1> HIDE DEF L, K, R, S, F, f, size, chunks
<1>6. R \in S .. L /\ L - R < Block /\ R - S \in Nat /\ Whole(R - S)
  <2>1. L - S \in Nat
    BY <1>1, <1>3
  <2>2. /\ (L - S) % Block \in Nat /\ (L - S) % Block < Block /\ (L - S) % Block <= L - S
        /\ Whole((L - S) - ((L - S) % Block))
    BY <2>1, WithoutRest
  <2>3. R - S = (L - S) - ((L - S) % Block)
    BY <1>1, <1>3, <1>4, <2>2
  <2> QED BY <1>1, <1>3, <1>4, <2>2, <2>3
<1>7. R \in 0 .. L /\ Whole(K + R)
  <2>1. Whole(K + S) /\ K + S \in Nat
    BY <1>1, <1>3, BlocksAreWhole
  <2>2. Whole((K + S) + (R - S))
    BY <2>1, <1>6, WholeSum
  <2>3. (K + S) + (R - S) = K + R
    BY <1>1, <1>3, <1>6
  <2> QED BY <2>2, <2>3, <1>3, <1>6
<1>8. T \in Data /\ Len(T) = R - S /\ SubSeq(src, 1, S) \o T = SubSeq(src, 1, R)
  <2>1. S \in Nat /\ R \in Nat /\ S <= R /\ R <= Len(src)
    BY <1>1, <1>3, <1>6 DEF L
  <2> QED BY <2>1, SubSeqFacts
<1> HIDE DEF T
<1>9. cut \in Seq(Data) /\ \A i \in 1 .. Len(cut) : Whole(Len(cut[i]))
  BY <1>5, <1>6, <1>8, CutFacts, CutWhole
<1>13. kind[c] \notin SeKinds => \A i \in 1 .. Len(cut) : Len(cut[i]) = Block
  BY <1>5, <1>6, <1>8, CutBlocks
<1> DEFINE rest == [i \in 1 .. Len(cut) |-> Req("update", cut[i], 0)]
<1>10. \A o \in Objects :
         /\ rest \in Seq(Requests) /\ Len(rest) = Len(cut)
         /\ After(o, rest, Len(rest)) = More(o, "update", T)
  BY <1>5, <1>8, CutAfter
<1> HIDE DEF cut
<1>11. CASE empty
  <2>1. chunks = cut
    <3>1. <<>> \o cut = cut
      BY <1>9, ConcatEmptySeq
    <3> QED BY <3>1, <1>2, <1>4, <1>11
  <2>2. reqs = rest
    BY <2>1 DEF Update1
  <2>3. SubSeq(src, 1, R) = T
    <3>1. SubSeq(src, 1, S) = <<>>
      BY <1>2, <1>11, WholeSeq
    <3> QED BY <3>1, <1>8, DataFacts
  <2>4. cache \o SubSeq(src, 1, R) = T
    BY <2>3, <1>8, <1>11, DataFacts
  <2> HIDE DEF reqs, rest
  <2>5. \A o \in Objects : After(o, reqs, Len(reqs)) = More(o, "update", cache \o SubSeq(src, 1, R))
    BY <2>2, <2>4, <1>10
  <2> QED BY <2>1, <2>5, <1>6, <1>7, <1>9, <1>13 DEF L, K, R, chunks, reqs
<1>12. CASE ~ empty
  <2>1. f \in Data /\ Len(f) = Block
    <3>1. PICK j \in Nat, z \in Nat : j = Block - K /\ z = 0 /\ K + j = Block
      BY <1>1
    <3>2. z <= j /\ j <= Len(src)
      BY <3>1, <1>1 DEF L
    <3>3. SubSeq(src, z + 1, j) \in Data /\ Len(SubSeq(src, z + 1, j)) = j - z
      BY <3>2, SubSeqFacts
    <3>4. SubSeq(src, 1, j) \in Data /\ Len(SubSeq(src, 1, j)) = j
      BY <3>1, <3>3
    <3>5. cache \o SubSeq(src, 1, j) \in Data /\ Len(cache \o SubSeq(src, 1, j)) = K + j
      <4>1. PICK s \in Data : s = SubSeq(src, 1, j) /\ Len(s) = j
        BY <3>4
      <4>2. cache \o s \in Data /\ Len(cache \o s) = Len(cache) + Len(s)
        BY DataFacts
      <4> QED BY <4>1, <4>2 DEF K
    <3> QED BY <3>1, <3>5 DEF f
  <2>2. chunks = <<f>> \o cut
    BY <1>2, <1>4, <1>12
  <2>3. /\ chunks \in Seq(Data) /\ Len(chunks) = 1 + Len(cut) /\ Len(cut) \in Nat
        /\ chunks[1] = f /\ \A i \in 1 .. Len(cut) : chunks[1 + i] = cut[i]
    <3>1. <<f>> \in Seq(Data) /\ Len(<<f>>) = 1 /\ <<f>>[1] = f /\ Len(cut) \in Nat
      BY <2>1, <1>9
    <3>2. /\ <<f>> \o cut \in Seq(Data) /\ Len(<<f>> \o cut) = Len(<<f>>) + Len(cut)
          /\ \A i \in 1 .. Len(<<f>>) + Len(cut) :
               (<<f>> \o cut)[i] = IF i <= Len(<<f>>) THEN <<f>>[i] ELSE cut[i - Len(<<f>>)]
      BY <3>1, <1>9, ConcatProperties
    <3>3. Len(chunks) = 1 + Len(cut) /\ chunks[1] = f
      BY <3>1, <3>2, <2>2
    <3>4. ASSUME NEW i \in 1 .. Len(cut) PROVE chunks[1 + i] = cut[i]
      <4>1. 1 + i \in 1 .. Len(<<f>>) + Len(cut) /\ ~ (1 + i <= Len(<<f>>)) /\ (1 + i) - Len(<<f>>) = i
        BY <3>1
      <4> QED BY <4>1, <3>2, <2>2
    <3> QED BY <3>1, <3>2, <3>3, <3>4, <2>2
  <2>4. \A i \in 1 .. Len(chunks) : Whole(Len(chunks[i]))
    <3>1. SUFFICES ASSUME NEW i \in 1 .. Len(chunks) PROVE Whole(Len(chunks[i]))
      OBVIOUS
    <3>2. CASE i = 1
      BY <3>2, <2>1, <2>3, BlocksAreWhole
    <3>3. CASE i # 1
      <4>1. i - 1 \in 1 .. Len(cut) /\ 1 + (i - 1) = i
        BY <3>3, <2>3
      <4> QED BY <4>1, <2>3, <1>9
    <3> QED BY <3>2, <3>3
  <2>6. ASSUME kind[c] \notin SeKinds, NEW i \in 1 .. Len(chunks)
        PROVE  Len(chunks[i]) = Block
    <3>1. CASE i = 1
      BY <3>1, <2>1, <2>3
    <3>2. CASE i # 1
      <4>1. i - 1 \in 1 .. Len(cut) /\ 1 + (i - 1) = i
        BY <3>2, <2>3
      <4> QED BY <4>1, <2>3, <2>6, <1>13
    <3> QED BY <3>1, <3>2
  <2>5. ASSUME NEW o \in Objects
        PROVE  After(o, reqs, Len(reqs)) = More(o, "update", cache \o SubSeq(src, 1, R))
    <3>1. reqs \in Seq(Requests) /\ Len(reqs) = 1 + Len(cut) /\ reqs[1] = Update1(f)
      <4>1. \A i \in 1 .. Len(chunks) : Update1(chunks[i]) \in Requests
        BY <2>3, RequestTypes, ContextsAssumption
      <4>2. reqs \in [1 .. Len(chunks) -> Requests] /\ Len(chunks) \in Nat
        BY <4>1, <2>3
      <4> QED BY <4>2, <2>3
    <3>2. rest \in Seq(Requests) /\ Len(rest) = Len(cut)
      BY <1>10
    <3>3. \A i \in 1 .. Len(rest) : reqs[1 + i] = rest[i]
      BY <2>3, <3>2 DEF Update1
    <3> DEFINE q == After(o, reqs, 1)
    <3>4. q = More(o, "update", f)
      <4>1. PICK s \in Seq(Requests) : s = reqs
        BY <3>1
      <4>2. 1 \in 1 .. Len(s) /\ 1 - 1 = 0
        BY <4>1, <3>1, <2>3
      <4>3. ASSUME NEW n \in 1 .. Len(s) PROVE After(o, s, n) = Does(After(o, s, n - 1), s[n])
        BY ZenonT(40), AfterSteps
      <4>4. After(o, s, 0) = o
        BY AfterSteps
      <4> HIDE DEF reqs
      <4>5. After(o, reqs, 1) = Does(o, Update1(f))
        BY <4>1, <4>2, <4>3, <4>4, <3>1
      <4> QED BY <4>5 DEF Does, Update1, Req, More
    <3>5. q \in Objects
      <4>1. o.data \in Data
        BY DEF Objects
      <4>2. o.data \o f \in Data
        BY <4>1, <2>1, DataFacts
      <4> HIDE DEF q
      <4> QED BY <3>4, <4>2 DEF More, Objects
    <3> HIDE DEF reqs, rest
    <3>6. \A n \in 0 .. Len(rest) : After(o, reqs, 1 + n) = After(q, rest, n)
      BY <3>1, <3>2, <3>3, AfterShift
    <3>7. After(o, reqs, Len(reqs)) = After(q, rest, Len(rest))
      BY <3>1, <3>2, <3>6, <2>3
    <3>8. After(q, rest, Len(rest)) = More(q, "update", T)
      BY <3>5, <1>10
    <3> HIDE DEF q
    <3>9. f \o T = cache \o SubSeq(src, 1, R)
      <4>1. PICK z \in Nat : z = 0 /\ S \in Nat /\ z <= S /\ S <= Len(src)
        BY <1>1, <1>3 DEF L
      <4>2. SubSeq(src, z + 1, S) \in Data
        BY <4>1, SubSeqFacts
      <4>3. SubSeq(src, 1, S) \in Data
        BY <4>1, <4>2
      <4>4. f = cache \o SubSeq(src, 1, S)
        BY <1>2, <1>12 DEF f
      <4>5. (cache \o SubSeq(src, 1, S)) \o T = cache \o (SubSeq(src, 1, S) \o T)
        BY <4>3, <1>8, Associative
      <4> QED BY <4>4, <4>5, <1>8
    <3>10. (o.data \o f) \o T = o.data \o (f \o T)
      <4>1. o.data \in Data
        BY DEF Objects
      <4> QED BY ZenonT(40), <4>1, <2>1, <1>8, Associative
    <3>11. More(More(o, "update", f), "update", T) = More(o, "update", f \o T)
      BY <3>10 DEF More, Objects
    <3> QED BY <3>4, <3>7, <3>8, <3>9, <3>11
  <2> HIDE DEF reqs
  <2> QED BY <2>3, <2>4, <2>5, <2>6, <1>6, <1>7 DEF L, K, R, chunks, reqs
<1> QED BY <1>11, <1>12

\* Data that fills blocks: they go out in order, and the cache keeps the rest.
LEMMA UpdateBlocksKeeps ==
  ASSUME CInv, NEW c \in Contexts, NEW n \in Nat, UpdateBlocks(c, n)
  PROVE  CInv'
<1> DEFINE a == app[c]
           k == kind[c]
           x == ctx[c]
           o == object[ObjectOf(c)]
           src == Piece(a.msg, a.n, n)
           R == Rest(c, src)
           chunks == Chunks(c, src)
           sent == SubSeq(src, 1, R)
           rest == SubSeq(src, R + 1, Len(src))
<1>1. /\ MayGive(c, n) /\ k \notin Macs /\ k # "host_ccm" /\ ~ (Len(x.cache) + n < Block)
      /\ done' = Nothing /\ UNCHANGED <<kind, forgotten, messages>>
  BY DEF UpdateBlocks, Short
<1>2. /\ Typed /\ Right(c) /\ k \in AllKinds /\ x \in CtxTypes /\ a \in AppTypes /\ o \in Objects
      /\ a.st = "open" /\ a.n \in Nat /\ a.n + n \in 0 .. MaxTotal /\ a.msg \in 1 .. MaxMessages
      /\ src \in Data /\ Len(src) = n /\ ~ Waits(k, a)
      /\ Units(a.msg, a.n) \o src = Units(a.msg, a.n + n)
  BY <1>1, GivenFacts
<1>3. x.cache \in Data /\ Len(x.cache) < Block /\ Len(x.cache) \in Nat /\ Len(x.cache) + n >= Block
  <2>1. x.cache \in Data /\ Len(x.cache) < Block
    BY <1>2 DEF CtxTypes, Typed
  <2>2. Len(x.cache) \in Nat
    BY <2>1, DataFacts
  <2> HIDE DEF x
  <2> QED BY <2>1, <2>2, <1>1, BlockFacts
<1>4. /\ R \in 0 .. n /\ n - R < Block /\ Whole(Len(x.cache) + R)
      /\ chunks \in Seq(Data) /\ \A i \in 1 .. Len(chunks) : Whole(Len(chunks[i]))
      /\ k \notin SeKinds => \A i \in 1 .. Len(chunks) : Len(chunks[i]) = Block
      /\ LET reqs == [i \in 1 .. Len(chunks) |-> Update1(chunks[i])] IN
         After(o, reqs, Len(reqs)) = More(o, "update", x.cache \o sent)
  <2>1. PICK s \in Data, t \in Data : s = src /\ t = x.cache
    BY <1>2, <1>3
  <2>2. t = ctx[c].cache /\ Len(t) < Block /\ Len(t) + Len(s) >= Block
    BY <2>1, <1>2, <1>3
  <2>3. /\ Rest(c, s) \in 0 .. Len(s) /\ Len(s) - Rest(c, s) < Block /\ Whole(Len(t) + Rest(c, s))
        /\ Chunks(c, s) \in Seq(Data) /\ \A i \in 1 .. Len(Chunks(c, s)) : Whole(Len(Chunks(c, s)[i]))
        /\ kind[c] \notin SeKinds => \A i \in 1 .. Len(Chunks(c, s)) : Len(Chunks(c, s)[i]) = Block
        /\ \A q \in Objects :
             LET reqs == [i \in 1 .. Len(Chunks(c, s)) |-> Update1(Chunks(c, s)[i])] IN
             After(q, reqs, Len(reqs)) = More(q, "update", t \o SubSeq(s, 1, Rest(c, s)))
    BY <2>2, ChunksFacts
  <2> HIDE DEF o, x, a
  <2> QED BY <2>1, <2>3, <1>2
<1>5. PICK reqs \in Seq(Requests) : reqs = [i \in 1 .. Len(chunks) |-> Update1(chunks[i])]
  <2>1. \A i \in 1 .. Len(chunks) : Update1(chunks[i]) \in Requests
    BY <1>4, RequestTypes, ContextsAssumption
  <2>2. [i \in 1 .. Len(chunks) |-> Update1(chunks[i])] \in Seq(Requests)
    BY <1>4, <2>1
  <2> QED BY <2>2
<1>6. PICK e \in Ends(c, reqs) :
        /\ Exchange(c, reqs, e) /\ Given(c, n, Outcome(e, "open"))
        /\ ctx' = [ctx EXCEPT ![c].cache = CacheAfter(c, src, e.bad)]
  BY <1>5 DEF UpdateBlocks
<1> DEFINE b == [a EXCEPT !.n = a.n + n, !.st = Outcome(e, "open")]
           y == [x EXCEPT !.cache = CacheAfter(c, src, e.bad)]
           p == After(o, reqs, Len(reqs))
<1>7. /\ Outcome(e, "open") \in {"open", "failed", "refused"}
      /\ Outcome(e, "open") = "open" <=> e.bad = 0
  BY <1>2, OutcomeFacts DEF Typed
<1>8. app' = [app EXCEPT ![c] = b] /\ b \in AppTypes /\ app'[c] = b
  BY <1>2, <1>6, <1>7 DEF Given, Typed, AppTypes
<1>9. b.msg = a.msg /\ b.n = a.n + n /\ b.aad = a.aad /\ b.want = a.want /\ b.st = Outcome(e, "open")
  BY <1>2 DEF AppTypes
<1>10. /\ sent \in Data /\ Len(sent) = R /\ rest \in Data /\ Len(rest) = n - R /\ sent \o rest = src
  <2>1. PICK s \in Data, i \in Nat, z \in Nat, j \in Nat : s = src /\ i = R /\ z = 0 /\ j = n
    BY <1>2, <1>4
  <2>2. z <= i /\ i <= j /\ j <= Len(s) /\ Len(s) = j
    BY <2>1, <1>2, <1>4
  <2>3. SubSeq(s, z + 1, i) \in Data /\ Len(SubSeq(s, z + 1, i)) = i - z
    BY <2>2, SubSeqFacts
  <2>4. SubSeq(s, 1, i) \in Data /\ Len(SubSeq(s, 1, i)) = i
    BY <2>1, <2>3
  <2>5. /\ SubSeq(s, i + 1, j) \in Data /\ Len(SubSeq(s, i + 1, j)) = j - i
        /\ SubSeq(s, 1, i) \o SubSeq(s, i + 1, j) = SubSeq(s, 1, j)
    BY <2>2, SubSeqFacts
  <2>6. SubSeq(s, 1, j) = s
    BY <2>2, WholeSeq
  <2> QED BY <2>1, <2>2, <2>4, <2>5, <2>6
<1>11. /\ CacheAfter(c, src, e.bad) \in Data /\ Len(CacheAfter(c, src, e.bad)) < Block
       /\ e.bad = 0 => CacheAfter(c, src, e.bad) = rest
  <2>1. <<>> \in Data /\ Len(<<>>) = 0 /\ Block > 0
    BY DataFacts, BlockFacts
  <2>2. CacheAfter(c, src, e.bad) = IF e.bad = 0 THEN rest
          ELSE IF k \in {"openssl_gcm", "mbedtls_gcm"} \/ (k \in SeKinds /\ e.bad = 1) THEN x.cache ELSE <<>>
    BY DEF CacheAfter
  <2> HIDE DEF rest, x, k
  <2> QED BY <2>1, <2>2, <1>3, <1>4, <1>10
<1>12. /\ y \in CtxTypes /\ ctx' = [ctx EXCEPT ![c] = y] /\ ctx'[c] = y
       /\ y.id = x.id /\ y.cache = CacheAfter(c, src, e.bad)
       /\ Len(y.cache) < Block /\ Len(y.buffer) <= y.total
  BY <1>2, <1>6, <1>11 DEF Typed, CtxTypes
<1>13. Goes(k, x, a, o)
  BY <1>2 DEF Right
<1>14. app[c].st = "open" /\ y.id = ctx[c].id
  BY <1>2, <1>12
<1>15. /\ Len(reqs) = Len(chunks) /\ Len(reqs) \in Nat
       /\ Len(reqs) > 0 => reqs[1].op = "update"
  <2>1. Len(chunks) \in Nat /\ Len(reqs) = Len(chunks)
    BY <1>4, <1>5
  <2>2. Len(reqs) > 0 => reqs[1] = Update1(chunks[1])
    BY <2>1, <1>5
  <2> QED BY <2>1, <2>2 DEF Update1, Req
<1>16. k \in KeepLast <=> k = "mbedtls_gcm"
  BY <1>1, <1>2, KindFacts
<1> HIDE DEF a, k, o, b, x, y, src, R, chunks, sent, rest
<1>17. p = [o EXCEPT !.data = @ \o (x.cache \o sent)]
  BY <1>4, <1>5 DEF More
<1> HIDE DEF p
<1>18. o.st = "none" \/ Holds(k, x, a, o)
  BY <1>1, <1>2, <1>13 DEF Goes
<1>19. Holds(k, x, a, o) => Taken(k, o, reqs)
  <2>1. SUFFICES ASSUME Holds(k, x, a, o) PROVE Taken(k, o, reqs)
    OBVIOUS
  <2>2. o.st = "live" /\ Whole(Len(o.data))
    BY <2>1, <1>1 DEF Holds
  <2>4. k \in OneAtATime => k \notin SeKinds
    BY DEF OneAtATime, SeKinds
  <2>3. \A i \in 1 .. Len(reqs) : Takes(k, After(o, reqs, i - 1), reqs[i])
    BY <2>2, <2>4, <1>2, <1>4, <1>5, WholeUpdates
  <2> QED BY <2>3 DEF Taken
<1>20. /\ p.st = o.st /\ p.aad = o.aad /\ p.want = o.want
       /\ p.data = o.data \o (x.cache \o sent)
  BY <1>2, <1>17 DEF Objects
<1>21. o.data \in Data /\ x.cache \o sent \in Data /\ Len(x.cache \o sent) = Len(x.cache) + R
  <2>1. o.data \in Data
    BY <1>2 DEF Objects
  <2> QED BY <2>1, <1>3, <1>10, DataFacts
<1>22. p.data \o rest = (o.data \o x.cache) \o src
  <2>1. (o.data \o (x.cache \o sent)) \o rest = o.data \o ((x.cache \o sent) \o rest)
    BY ZenonT(40), <1>10, <1>21, Associative
  <2>2. (x.cache \o sent) \o rest = x.cache \o (sent \o rest)
    BY <1>3, <1>10, Associative
  <2>3. (o.data \o x.cache) \o src = o.data \o (x.cache \o src)
    BY <1>2, <1>3, <1>21, Associative
  <2> QED BY <2>1, <2>2, <2>3, <1>10, <1>20
<1>23. Whole(Len(o.data)) => Whole(Len(p.data))
  <2>1. PICK s \in Data, t \in Data : s = o.data /\ t = x.cache \o sent
    BY <1>21
  <2>2. Len(s \o t) = Len(s) + Len(t) /\ Len(s) \in Nat /\ Len(t) \in Nat
    BY DataFacts
  <2>3. Whole(Len(t))
    BY <2>1, <1>4, <1>21
  <2>4. Whole(Len(s)) => Whole(Len(s) + Len(t))
    BY <2>2, <2>3, WholeSum
  <2> QED BY <2>1, <2>2, <2>4, <1>20
<1>24. Fresh(k) /\ o.st # "none" => Taken(k, o, reqs)
  BY <1>18, <1>19
<1>25. ASSUME b.st = "open", Taken(k, o, reqs)
       PROVE  Goes(k, y, b, p)
  <2>1. y.cache = rest
    BY <1>7, <1>9, <1>11, <1>12, <1>25
  <2>2. Holds(k, x, a, o) => Holds(k, y, b, p)
    BY <2>1, <1>1, <1>2, <1>9, <1>20, <1>22, <1>23 DEF Holds
  <2> QED BY <2>2, <1>1, <1>2, <1>9, <1>18, <1>20 DEF Goes, Waits
<1>26. Rested(k, y, b) \/ b.st # "open"
  BY DEF Rested
<1>27. Right(c)'
  <2>1. /\ kind' = kind /\ k = kind[c] /\ o = object[ObjectOf(c)] /\ app'[c].st = Outcome(e, "open")
    BY <1>1, <1>8, <1>9 DEF k, o
  <2>2. app'[c].st = "open" /\ Taken(k, o, reqs) =>
          Goes(k, ctx'[c], app'[c], After(o, reqs, Len(reqs))) /\ Rested(k, ctx'[c], app'[c])
    BY <1>8, <1>12, <1>25, <1>26 DEF p
  <2>3. Len(reqs) > 0 => reqs[1].op # "create"
    BY <1>15
  <2> QED BY <2>1, <2>2, <2>3, <1>2, <1>6, <1>24, OwnRight
<1>28. Len(reqs) > 0 => reqs[1].op # "create"
  BY <1>15
<1> QED BY <1>1, <1>6, <1>8, <1>12, <1>14, <1>27, <1>28, NothingDone, OngoingKeeps

-----------------------------------------------------------------------------
(* The requests of finish.                                                 *)

IsJoin(both, s, t) == both = s \o t

\* Requests after others are requests.
LEMMA JoinedTyped ==
  ASSUME NEW s \in Seq(Requests), NEW t \in Seq(Requests)
  PROVE  \E both \in Seq(Requests) : IsJoin(both, s, t)
BY ConcatProperties DEF IsJoin

\* Some requests after others do what each would.
LEMMA Joined ==
  ASSUME NEW o, NEW s \in Seq(Requests), NEW t \in Seq(Requests),
         NEW both \in Seq(Requests), IsJoin(both, s, t), NEW p, p = After(o, s, Len(s))
  PROVE  /\ Len(both) = Len(s) + Len(t)
         /\ Len(s) > 0 => both[1] = s[1]
         /\ Len(s) = 0 /\ Len(t) > 0 => both[1] = t[1]
         /\ After(o, both, Len(both)) = After(p, t, Len(t))
         /\ \A k : Taken(k, o, both) <=> Taken(k, o, s) /\ Taken(k, p, t)
<1>2. PICK l \in Nat, m \in Nat : l = Len(s) /\ m = Len(t)
  OBVIOUS
<1>3. /\ Len(both) = l + m
      /\ \A i \in 1 .. l : both[i] = s[i]
      /\ \A i \in 1 .. m : both[l + i] = t[i]
  <2>1. /\ Len(both) = l + m
        /\ \A i \in 1 .. (l + m) : both[i] = IF i <= l THEN s[i] ELSE t[i - l]
    BY <1>2, ConcatProperties DEF IsJoin
  <2>2. ASSUME NEW i \in 1 .. m PROVE both[l + i] = t[i]
    <3>1. l + i \in 1 .. (l + m) /\ ~ (l + i <= l) /\ (l + i) - l = i
      OBVIOUS
    <3> QED BY <3>1, <2>1
  <2> QED BY <2>1, <2>2
<1> DEFINE T == {n \in Nat : n <= l => After(o, both, n) = After(o, s, n)}
<1>4. 0 \in T
  BY AfterSteps
<1>5. ASSUME NEW n \in Nat, n \in T, n < l
      PROVE  n + 1 \in T
  <2>1. n < Len(s) /\ n < Len(both) /\ n + 1 \in 1 .. l /\ n <= l
    BY <1>2, <1>3, <1>5
  <2>2. After(o, s, n + 1) = Does(After(o, s, n), s[n + 1])
    BY <2>1, AfterNext
  <2>3. After(o, both, n + 1) = Does(After(o, both, n), both[n + 1])
    BY <2>1, AfterNext
  <2> QED BY <2>1, <2>2, <2>3, <1>3, <1>5
<1> HIDE DEF T
<1>6. 0 .. l \subseteq T
  <2>1. T \in SUBSET Nat
    BY DEF T
  <2> QED BY <2>1, <1>4, <1>5, Climb
<1>7. \A n \in 0 .. l : After(o, both, n) = After(o, s, n)
  BY <1>6 DEF T
<1>8. After(o, both, l) = p
  BY <1>2, <1>7
<1>9. \A n \in 0 .. m : After(o, both, l + n) = After(p, t, n)
  <2>1. Len(both) = l + Len(t) /\ \A i \in 1 .. Len(t) : both[l + i] = t[i]
    BY <1>2, <1>3
  <2>2. \A n \in 0 .. Len(t) : After(o, both, l + n) = After(After(o, both, l), t, n)
    BY <2>1, AfterShift
  <2> QED BY <2>2, <1>2, <1>8
<1>10. ASSUME NEW k
       PROVE  Taken(k, o, both) <=> Taken(k, o, s) /\ Taken(k, p, t)
  <2>1. ASSUME NEW n \in 1 .. l
        PROVE  After(o, both, n - 1) = After(o, s, n - 1) /\ both[n] = s[n] /\ n \in 1 .. Len(both)
    <3>1. n - 1 \in 0 .. l
      OBVIOUS
    <3> QED BY <3>1, <1>3, <1>7
  <2>2. ASSUME NEW n \in 1 .. m
        PROVE  /\ After(o, both, (l + n) - 1) = After(p, t, n - 1) /\ both[l + n] = t[n]
               /\ l + n \in 1 .. Len(both)
    <3>1. n - 1 \in 0 .. m /\ l + (n - 1) = (l + n) - 1
      OBVIOUS
    <3>2. After(o, both, l + (n - 1)) = After(p, t, n - 1)
      BY <3>1, <1>9
    <3> QED BY <3>1, <3>2, <1>3
  <2>3. ASSUME Taken(k, o, both)
        PROVE  Taken(k, o, s) /\ Taken(k, p, t)
    <3>1. ASSUME NEW n \in 1 .. l PROVE Takes(k, After(o, s, n - 1), s[n])
      BY <2>1, <2>3 DEF Taken
    <3>2. ASSUME NEW n \in 1 .. m PROVE Takes(k, After(p, t, n - 1), t[n])
      BY <2>2, <2>3 DEF Taken
    <3> QED BY <3>1, <3>2, <1>2 DEF Taken
  <2>4. ASSUME Taken(k, o, s), Taken(k, p, t)
        PROVE  Taken(k, o, both)
    <3>1. SUFFICES ASSUME NEW i \in 1 .. (l + m) PROVE Takes(k, After(o, both, i - 1), both[i])
      BY <1>3 DEF Taken
    <3>2. CASE i <= l
      <4>1. i \in 1 .. l
        BY <3>2
      <4>2. Takes(k, After(o, s, i - 1), s[i])
        BY <4>1, <2>4, <1>2 DEF Taken
      <4> QED BY <4>1, <4>2, <2>1
    <3>3. CASE i > l
      <4>1. PICK n \in 1 .. m : n = i - l
        BY <3>3
      <4>2. Takes(k, After(p, t, n - 1), t[n])
        BY <2>4, <1>2 DEF Taken
      <4>3. l + n = i
        BY <4>1
      <4>4. Takes(k, After(o, both, (l + n) - 1), both[l + n])
        BY <4>2, <2>2
      <4> QED BY <4>3, <4>4
    <3> QED BY <3>2, <3>3
  <2> QED BY <2>3, <2>4
<1>11. After(o, both, l + m) = After(p, t, m)
  BY <1>9
<1>12. l > 0 => both[1] = s[1]
  BY <1>3
<1>13. ASSUME l = 0, m > 0
       PROVE  both[1] = t[1]
  <2>1. both[l + 1] = t[1] /\ l + 1 = 1
    BY <1>3, <1>13
  <2> QED BY <2>1
<1> QED BY <1>2, <1>3, <1>10, <1>11, <1>12, <1>13

\* p is o with data appended.
Appends(o, p, data) ==
    /\ p \in Objects /\ p.st = o.st /\ p.data = o.data \o data /\ p.aad = o.aad /\ p.want = o.want

\* A request that appends data, made unless there is nothing to append.
LEMMA NotEmptyFacts ==
  ASSUME NEW o \in Objects, NEW k, NEW op \in {"update", "last"}, NEW data \in Data
  PROVE  LET reqs == NotEmpty(op, data) IN
         /\ reqs \in Seq(Requests) /\ (Len(reqs) > 0 => reqs[1].op # "create")
         /\ Appends(o, After(o, reqs, Len(reqs)), data)
         /\ data = <<>> \/ Takes(k, o, Req(op, data, 0)) => Taken(k, o, reqs)
<1> DEFINE r == Req(op, data, 0)
           reqs == NotEmpty(op, data)
<1>1. r \in Requests /\ r.op = op /\ r.data = data
  <2>1. r \in Requests
    BY RequestTypes, ContextsAssumption
  <2> QED BY <2>1 DEF Req
<1> HIDE DEF r
<1>2. CASE data = <<>>
  <2>1. PICK s \in Seq(Requests) : s = <<>>
    BY EmptySeq
  <2>2. reqs = s /\ Len(s) = 0
    BY <1>2, <2>1 DEF NotEmpty
  <2>3. After(o, s, 0) = o
    BY AfterSteps
  <2>4. o.data \o data = o.data
    BY <1>2, DataFacts DEF Objects
  <2>5. Taken(k, o, s)
    BY <2>2 DEF Taken
  <2> QED BY <2>2, <2>3, <2>4, <2>5 DEF Appends
<1>3. CASE data # <<>>
  <2>1. PICK s \in Seq(Requests) : s = <<r>>
    BY <1>1, OneRequest
  <2>2. reqs = s
    BY <1>3, <2>1 DEF NotEmpty, r
  <2>3. Len(s) = 1 /\ s[1] = r /\ After(o, s, 1) = Does(o, r) /\ (Taken(k, o, s) <=> Takes(k, o, r))
    BY <1>1, <2>1, OneRequest
  <2>4. Does(o, r) = [o EXCEPT !.data = @ \o data]
    BY <1>1 DEF Does
  <2>5. Appends(o, Does(o, r), data)
    <3>1. o.data \o data \in Data
      BY DataFacts DEF Objects
    <3> QED BY <3>1, <2>4 DEF Appends, Objects
  <2>6. s[1].op # "create"
    BY <1>1, <2>3
  <2> HIDE DEF reqs
  <2> QED BY <1>3, <2>2, <2>3, <2>5, <2>6 DEF r, reqs
<1> QED BY <1>2, <1>3

\* The request that ends a message.
LEMMA FinalFacts ==
  ASSUME NEW o \in Objects, NEW k, NEW data \in Data
  PROVE  LET reqs == Final(data)
             p == After(o, reqs, Len(reqs))
         IN  /\ reqs \in Seq(Requests) /\ Len(reqs) = 1 /\ reqs[1].op = "final"
             /\ p.data = o.data \o data /\ p.aad = o.aad
             /\ Taken(k, o, reqs) <=> o.st = "live" /\ Complete(k, o, Req("final", data, 0))
<1> DEFINE r == Req("final", data, 0)
           reqs == Final(data)
<1>1. r \in Requests /\ r.op = "final" /\ r.data = data
  <2>1. r \in Requests
    BY RequestTypes, ContextsAssumption
  <2> QED BY <2>1 DEF Req
<1>2. PICK s \in Seq(Requests) : s = <<r>>
  BY <1>1, OneRequest
<1>3. reqs = s
  BY <1>2 DEF Final
<1> HIDE DEF r, reqs
<1>4. Len(s) = 1 /\ s[1] = r /\ After(o, s, 1) = Does(o, r) /\ (Taken(k, o, s) <=> Takes(k, o, r))
  BY <1>1, <1>2, OneRequest
<1>5. Does(o, r) = [o EXCEPT !.st = "idle", !.data = @ \o data]
  BY <1>1 DEF Does
<1>6. Does(o, r).data = o.data \o data /\ Does(o, r).aad = o.aad
  BY <1>5 DEF Objects
<1>7. Takes(k, o, r) <=> o.st = "live" /\ Complete(k, o, r)
  BY <1>1 DEF Takes
<1> QED BY <1>1, <1>3, <1>4, <1>6, <1>7 DEF r, reqs

\* Requests that append data, and the final one.
EndsWell(k, o, s, p) ==
    \E reqs \in Seq(Requests) :
       /\ IsJoin(reqs, s, Final(<<>>)) /\ Len(reqs) > 0 /\ reqs[1].op # "create"
       /\ After(o, reqs, Len(reqs)).data = p.data /\ After(o, reqs, Len(reqs)).aad = p.aad
       /\ Taken(k, o, s) /\ p.st = "live" /\ Complete(k, p, Req("final", <<>>, 0)) => Taken(k, o, reqs)
       /\ Taken(k, o, reqs) => Taken(k, o, s)
LEMMA EndFacts ==
  ASSUME NEW o \in Objects, NEW k, NEW s \in Seq(Requests), Len(s) > 0 => s[1].op # "create",
         NEW p \in Objects, p = After(o, s, Len(s))
  PROVE  EndsWell(k, o, s, p)
<1> DEFINE f == Final(<<>>)
<1>1. /\ f \in Seq(Requests) /\ Len(f) = 1 /\ f[1].op = "final"
      /\ After(p, f, Len(f)).data = p.data \o <<>> /\ After(p, f, Len(f)).aad = p.aad
      /\ Taken(k, p, f) <=> p.st = "live" /\ Complete(k, p, Req("final", <<>>, 0))
  BY FinalFacts, DataFacts
<1>2. p.data \o <<>> = p.data
  BY DataFacts DEF Objects
<1>3. PICK g \in Seq(Requests) : g = f
  BY <1>1
<1>0. PICK reqs \in Seq(Requests) : IsJoin(reqs, s, g)
  BY JoinedTyped
<1>9. IsJoin(reqs, s, Final(<<>>))
  BY <1>0, <1>3
<1> DEFINE q == After(o, reqs, Len(reqs))
<1> HIDE DEF f
<1>4. /\ Len(reqs) = Len(s) + 1
      /\ Len(s) > 0 => reqs[1] = s[1]
      /\ Len(s) = 0 => reqs[1] = f[1]
      /\ q = After(p, f, Len(f)) /\ (Taken(k, o, reqs) <=> Taken(k, o, s) /\ Taken(k, p, f))
  <2>1. Len(g) = 1
    BY <1>1, <1>3
  <2>2. /\ Len(reqs) = Len(s) + Len(g)
        /\ Len(s) > 0 => reqs[1] = s[1]
        /\ Len(s) = 0 /\ Len(g) > 0 => reqs[1] = g[1]
        /\ After(o, reqs, Len(reqs)) = After(p, g, Len(g))
        /\ \A i : Taken(i, o, reqs) <=> Taken(i, o, s) /\ Taken(i, p, g)
    BY <1>0, Joined
  <2> HIDE DEF q
  <2>3. Len(reqs) = Len(s) + 1 /\ (Len(s) > 0 => reqs[1] = s[1]) /\ (Len(s) = 0 => reqs[1] = f[1])
    BY <2>1, <2>2, <1>3
  <2>4. q = After(p, f, Len(f)) /\ (Taken(k, o, reqs) <=> Taken(k, o, s) /\ Taken(k, p, f))
    BY <2>2, <1>3 DEF q
  <2> QED BY <2>3, <2>4
<1>5. Len(s) \in Nat
  OBVIOUS
<1>6. Len(reqs) > 0 /\ reqs[1].op # "create"
  BY <1>1, <1>4, <1>5
<1>7. q.data = p.data /\ q.aad = p.aad
  BY <1>1, <1>2, <1>4
<1>8. /\ Taken(k, o, s) /\ p.st = "live" /\ Complete(k, p, Req("final", <<>>, 0)) => Taken(k, o, reqs)
      /\ Taken(k, o, reqs) => Taken(k, o, s)
  BY <1>1, <1>4
<1> QED BY <1>6, <1>7, <1>8, <1>9 DEF EndsWell, q

\* The last block of the SE's ciphers, filled up where it is.
LEMMA FinishSeCipherFacts ==
  ASSUME NEW k \in Ciphers \ HostCiphers, NEW o \in Objects, o.st = "live", Whole(Len(o.data)), NEW all \in Data,
         NEW n, n = Len(o.data \o all)
  PROVE  \E reqs \in Seq(Requests) :
            /\ reqs = FinishCipher(k, all) /\ Len(reqs) > 0 /\ reqs[1].op # "create"
            /\ After(o, reqs, Len(reqs)).data = (o.data \o all) \o Zeros(IF Pads(k) THEN Over(n) ELSE 0)
            /\ After(o, reqs, Len(reqs)).aad = o.aad
            /\ Taken(k, o, reqs) \/ Excused(k, n)
<1> DEFINE over == IF Pads(k) THEN Over(n) ELSE 0
           last == IF Pads(k) THEN Pad(all) ELSE all
<1>1. o.data \in Data
  BY DEF Objects
<1>2. n = Len(o.data) + Len(all) /\ Len(o.data) \in Nat /\ Len(all) \in Nat /\ n \in Nat /\ o.data \o all \in Data
  <2>1. PICK s \in Data, t \in Data : s = o.data /\ t = all
    BY <1>1
  <2>2. Len(s \o t) = Len(s) + Len(t) /\ Len(s) \in Nat /\ Len(t) \in Nat /\ s \o t \in Data
    BY DataFacts
  <2> QED BY <2>1, <2>2
<1>3. Over(n) = Over(Len(all)) /\ Over(n) \in Nat /\ Whole(n + Over(n))
  <2>1. Over(Len(o.data) + Len(all)) = Over(Len(all))
    BY <1>2, WholeSum
  <2> QED BY <2>1, <1>2, OverFacts
<1>4. over \in Nat /\ Zeros(over) \in Data /\ Len(Zeros(over)) = over /\ (over = 0 => Zeros(over) = <<>>)
  BY <1>3, ZerosFacts
<1>5. last = all \o Zeros(over)
  <2>1. CASE Pads(k)
    BY <2>1, <1>3 DEF Pad
  <2>2. CASE ~ Pads(k)
    <3>1. all \o <<>> = all
      BY DataFacts
    <3> QED BY <2>2, <3>1, <1>4
  <2> QED BY <2>1, <2>2
<1>6. FinishCipher(k, all) = Final(last) /\ (Pads(k) <=> k = "se_aes")
  BY DEF FinishCipher, Pads
<1> HIDE DEF over, last
<1>7. last \in Data /\ o.data \o last = (o.data \o all) \o Zeros(over)
  <2>1. all \o Zeros(over) \in Data
    BY <1>4, DataFacts
  <2>2. (o.data \o all) \o Zeros(over) = o.data \o (all \o Zeros(over))
    BY <1>1, <1>4, Associative
  <2> QED BY <2>1, <2>2, <1>5
<1>12. PICK reqs \in Seq(Requests) : reqs = Final(last)
  BY <1>7, FinalFacts
<1> DEFINE p == After(o, reqs, Len(reqs))
<1>8. /\ Len(reqs) = 1 /\ reqs[1].op = "final"
      /\ p.data = o.data \o last /\ p.aad = o.aad
      /\ Taken(k, o, reqs) <=> o.st = "live" /\ Complete(k, o, Req("final", last, 0))
  BY <1>7, <1>12, FinalFacts
<1> HIDE DEF p
<1>9. Len(o.data \o last) = n + over
  <2>1. PICK s \in Data, t \in Data : s = o.data \o all /\ t = Zeros(over)
    BY <1>2, <1>4
  <2>2. Len(s \o t) = Len(s) + Len(t)
    BY DataFacts
  <2> QED BY <2>1, <2>2, <1>4, <1>7
<1>10. Complete(k, o, Req("final", last, 0)) \/ Excused(k, n)
  <2>1. k \notin Ccms
    BY DEF Ciphers, Ccms, HostCiphers, MbedCiphers, MbedAes, MbedDes
  <2>2. Complete(k, o, Req("final", last, 0)) <=> (k \in {"se_aes", "se_des"} => Whole(n + over))
    BY <2>1, <1>9 DEF Complete, Req, HostCiphers
  <2>3. k = "se_aes" => over = Over(n)
    BY <1>6 DEF over
  <2>4. k = "se_des" => over = 0 /\ n + over = n
    BY <1>2, <1>6 DEF over
  <2> QED BY <2>2, <2>3, <2>4, <1>3 DEF Excused
<1>11. p.data = (o.data \o all) \o Zeros(over)
  BY <1>7, <1>8
<1>13. Taken(k, o, reqs) \/ Excused(k, n)
  BY <1>8, <1>10
<1>14. reqs = FinishCipher(k, all) /\ Len(reqs) > 0 /\ reqs[1].op # "create"
  BY <1>6, <1>8, <1>12
<1>15. /\ After(o, reqs, Len(reqs)).data = (o.data \o all) \o Zeros(IF Pads(k) THEN Over(n) ELSE 0)
       /\ After(o, reqs, Len(reqs)).aad = o.aad
  BY <1>8, <1>11 DEF p, over
<1> QED BY <1>13, <1>14, <1>15

\* mbed TLS gets zeros after a message that it decrypts; how many, and how many of them come
\* out behind the message.
Fed(k) == IF k \in MbedAes THEN Block ELSE IF k \in MbedDes THEN 2 * Block ELSE 0
IsExact(k, data, should) == GivenOut(k, data) = should \o Behind(k)

\* Zeros and zeros are zeros.
LEMMA ZerosAndZeros ==
  ASSUME NEW a \in Nat, NEW b \in Nat
  PROVE  Zeros(a + b) = Zeros(a) \o Zeros(b)
<1>1. Zeros(a) \in Seq(Unit) /\ Zeros(b) \in Seq(Unit) /\ Len(Zeros(a)) = a /\ Len(Zeros(b)) = b
  BY ZerosFacts, DataIs
<1>2. Zeros(a + b) \in Seq(Unit) /\ Len(Zeros(a + b)) = a + b
  BY ZerosFacts, DataIs
<1> DEFINE both == Zeros(a) \o Zeros(b)
<1>3. /\ both \in Seq(Unit) /\ Len(both) = a + b
      /\ \A i \in 1 .. (a + b) : both[i] = IF i <= a THEN Zeros(a)[i] ELSE Zeros(b)[i - a]
  <2>1. PICK s \in Seq(Unit), t \in Seq(Unit) : s = Zeros(a) /\ t = Zeros(b)
    BY <1>1
  <2>2. /\ s \o t \in Seq(Unit) /\ Len(s \o t) = Len(s) + Len(t)
        /\ \A i \in 1 .. (Len(s) + Len(t)) : (s \o t)[i] = IF i <= Len(s) THEN s[i] ELSE t[i - Len(s)]
    BY ConcatProperties
  <2> QED BY <2>1, <2>2, <1>1
<1> HIDE DEF both
<1>4. ASSUME NEW i \in 1 .. (a + b)
      PROVE  both[i] = Zeros(a + b)[i]
  <2>1. CASE i <= a
    BY <2>1, <1>3 DEF Zeros
  <2>2. CASE i > a
    <3>1. i - a \in 1 .. b
      BY <2>2
    <3> QED BY <3>1, <2>2, <1>3 DEF Zeros
  <2> QED BY <2>1, <2>2
<1> QED BY <1>2, <1>3, <1>4, SeqEqual DEF both

\* What is kept back of what a library gets is zeros, so the message comes out, and what is
\* left of the zeros.
LEMMA GivenOutFacts ==
  ASSUME NEW k \in AllKinds, k # "mbedtls_des_ecb", NEW msg \in Data
  PROVE  IsExact(k, msg \o Zeros(Fed(k)), msg)
<1>0. Block \in Nat
  BY BlockFacts
<1>1. ASSUME NEW s \in Data
      PROVE  SubSeq(s \o Zeros(Block), 1, Len(s \o Zeros(Block)) - Block) = s
  <2> DEFINE both == s \o Zeros(Block)
  <2>1. /\ Zeros(Block) \in Data /\ Len(Zeros(Block)) = Block /\ Len(s) \in Nat
        /\ both \in Data /\ Len(both) = Len(s) + Block
    <3>1. PICK t \in Data : t = Zeros(Block) /\ Len(t) = Block
      BY <1>0, ZerosFacts
    <3> QED BY <3>1, JoinFacts
  <2>2. \A i \in 1 .. Len(s) : both[i] = s[i]
    <3>1. PICK t \in Seq(Unit), u \in Seq(Unit) : t = s /\ u = Zeros(Block)
      BY <2>1, DataIs
    <3>2. /\ Len(t \o u) = Len(t) + Len(u) /\ Len(t) \in Nat /\ Len(u) \in Nat
          /\ \A i \in 1 .. (Len(t) + Len(u)) : (t \o u)[i] = IF i <= Len(t) THEN t[i] ELSE u[i - Len(t)]
      BY ConcatProperties
    <3>3. \A i \in 1 .. Len(t) : i \in 1 .. (Len(t) + Len(u)) /\ i <= Len(t)
      BY <3>2
    <3>4. \A i \in 1 .. Len(t) : (t \o u)[i] = t[i]
      BY <3>2, <3>3
    <3> QED BY <3>1, <3>4
  <2> HIDE DEF both
  <2>3. Len(both) - Block = Len(s) /\ Len(s) <= Len(both)
    BY <2>1, <1>0
  <2>4. both \in Seq(Unit) /\ s \in Seq(Unit)
    BY <2>1, DataIs
  <2>5. SubSeq(both, 1, Len(s)) = s
    <3>1. /\ SubSeq(both, 1, Len(s)) \in Seq(Unit) /\ Len(SubSeq(both, 1, Len(s))) = Len(s)
          /\ \A i \in 1 .. Len(s) : SubSeq(both, 1, Len(s))[i] = both[i]
      BY <2>1, <2>3, <2>4
    <3> QED BY <3>1, <2>2, <2>4, SeqEqual
  <2> QED BY <2>3, <2>5 DEF both
<1>2. Zeros(0) = <<>> /\ msg \o <<>> = msg /\ Zeros(Block) \in Data
  BY <1>0, ZerosFacts, DataFacts
<1>3. CASE k = "mbedtls_cbc"
  <2>1. Fed(k) = Block /\ Behind(k) = Zeros(0)
    BY <1>3 DEF Fed, Behind, MbedAes
  <2>2. GivenOut(k, msg \o Zeros(Block)) = msg
    BY <1>1, <1>3 DEF GivenOut
  <2> QED BY <2>1, <2>2, <1>2 DEF IsExact
<1>4. CASE k = "mbedtls_des_cbc"
  <2>1. Fed(k) = Block + Block /\ Behind(k) = Zeros(Block)
    BY <1>0, <1>4 DEF Fed, Behind, MbedAes, MbedDes
  <2>5. PICK z \in Data : z = Zeros(Block)
    BY <1>2
  <2>2. msg \o Zeros(Block) \in Data
    BY <2>5, JoinFacts
  <2>3. msg \o Zeros(Block + Block) = (msg \o Zeros(Block)) \o Zeros(Block)
    <3>1. Zeros(Block + Block) = z \o z
      BY <1>0, <2>5, ZerosAndZeros
    <3>2. (msg \o z) \o z = msg \o (z \o z)
      BY Associative
    <3> QED BY <3>1, <3>2, <2>5
  <2>4. GivenOut(k, (msg \o Zeros(Block)) \o Zeros(Block)) = msg \o Zeros(Block)
    BY <2>2, <1>1, <1>4 DEF GivenOut
  <2> QED BY <2>1, <2>3, <2>4 DEF IsExact
<1>5. CASE k = "mbedtls_ecb"
  BY <1>5 DEF IsExact, Fed, Behind, GivenOut, MbedAes
<1>6. CASE k \notin MbedAes \cup MbedDes
  <2>1. Fed(k) = 0 /\ Behind(k) = Zeros(0)
    BY <1>6 DEF Fed, Behind, MbedAes, MbedDes
  <2>2. GivenOut(k, msg) = msg
    BY <1>6 DEF GivenOut, MbedAes, MbedDes
  <2> QED BY <2>1, <2>2, <1>2 DEF IsExact
<1> QED BY <1>3, <1>4, <1>5, <1>6 DEF MbedAes, MbedDes

\* The zeros are one request, which only the ECB of DES does not take.
LEMMA DummyFacts ==
  ASSUME NEW k \in HostCiphers, NEW o \in Objects, o.st = "live", Whole(Len(o.data))
  PROVE  LET d == Dummy(k) IN
         /\ d \in Seq(Requests) /\ (Len(d) > 0 => d[1].op = "update")
         /\ Appends(o, After(o, d, Len(d)), Zeros(Fed(k)))
         /\ Whole(Fed(k)) /\ Fed(k) \in Nat
         /\ Taken(k, o, d) <=> k # "mbedtls_des_ecb"
<1> DEFINE data == Zeros(Fed(k))
           r == Req("update", data, 0)
           d == Dummy(k)
<1>1. Fed(k) \in Nat /\ Whole(Fed(k))
  <2>1. Block \in Nat /\ Whole(0) /\ Whole(Block) /\ 2 * Block = Block * 2
    BY BlockFacts, BlocksAreWhole
  <2>2. 2 * Block \in Nat /\ Whole(2 * Block)
    BY <2>1, Multiples
  <2> QED BY <2>1, <2>2 DEF Fed
<1>2. data \in Data /\ Len(data) = Fed(k) /\ (Fed(k) = 0 => data = <<>>)
  BY <1>1, ZerosFacts
<1>3. r \in Requests /\ r.op = "update" /\ r.data = data
  <2>1. r \in Requests
    BY <1>2, RequestTypes, ContextsAssumption
  <2> QED BY <2>1 DEF Req
<1>4. k \notin Aeads /\ k \in Ciphers
  BY DEF Aeads, Ccms, Ciphers, HostCiphers, MbedCiphers, MbedAes, MbedDes
<1>5. k \in MbedAes \cup MbedDes => d = <<r>>
  BY DEF Dummy, Fed, Update1, MbedAes, MbedDes
<1>6. k \notin MbedAes \cup MbedDes => d = <<>> /\ Fed(k) = 0
  BY DEF Dummy, Fed
<1>7. k \in MbedAes => Fed(k) = Block
  BY DEF Fed
<1>8. k = "mbedtls_des_ecb" => Fed(k) # Block
  <2>1. 2 * Block # Block
    BY BlockFacts
  <2> QED BY <2>1 DEF Fed, MbedAes, MbedDes
<1> HIDE DEF data, r, d
<1>9. CASE k \in MbedAes \cup MbedDes
  <2>1. PICK s \in Seq(Requests) : s = <<r>>
    BY <1>3, OneRequest
  <2>2. d = s
    BY <1>5, <1>9, <2>1
  <2>3. Len(s) = 1 /\ s[1] = r /\ After(o, s, 1) = Does(o, r) /\ (Taken(k, o, s) <=> Takes(k, o, r))
    BY <1>3, <2>1, OneRequest
  <2>4. Does(o, r) = [o EXCEPT !.data = @ \o data]
    BY <1>3 DEF Does
  <2>5. Appends(o, Does(o, r), data)
    <3>1. o.data \o data \in Data
      BY <1>2, DataFacts DEF Objects
    <3> QED BY <3>1, <2>4 DEF Appends, Objects
  <2>6. Takes(k, o, r) <=> (k \in {"mbedtls_ecb", "mbedtls_des_ecb"} => Fed(k) = Block)
    BY <1>1, <1>2, <1>3, <1>4 DEF Takes, InBlocks
  <2>7. Takes(k, o, r) <=> k # "mbedtls_des_ecb"
    BY <2>6, <1>7, <1>8 DEF MbedAes
  <2> QED BY <2>2, <2>3, <2>5, <2>7, <1>1, <1>3 DEF d, data
<1>10. CASE k \notin MbedAes \cup MbedDes
  <2>1. PICK s \in Seq(Requests) : s = <<>>
    BY EmptySeq
  <2>2. d = s /\ Len(s) = 0
    BY <1>6, <1>10, <2>1
  <2>3. After(o, s, 0) = o
    BY AfterSteps
  <2>4. o.data \o data = o.data
    BY <1>2, <1>6, <1>10, DataFacts DEF Objects
  <2>5. Taken(k, o, s) /\ k # "mbedtls_des_ecb"
    BY <2>2, <1>10 DEF Taken, MbedDes
  <2> QED BY <2>2, <2>3, <2>4, <2>5, <1>1 DEF Appends, d, data
<1> QED BY <1>9, <1>10

\* The last block of the libraries' ciphers, filled up, in blocks; and the zeros.
HostFinishes(k, o, all) ==
    \E reqs \in Seq(Requests) :
       /\ reqs = FinishCipher(k, all) /\ Len(reqs) > 0 /\ reqs[1].op # "create"
       /\ After(o, reqs, Len(reqs)).data
            = ((o.data \o all) \o Zeros(Over(Len(o.data \o all)))) \o Zeros(Fed(k))
       /\ After(o, reqs, Len(reqs)).aad = o.aad
       /\ Taken(k, o, reqs) <=> k # "mbedtls_des_ecb"
LEMMA FinishHostCipherFacts ==
  ASSUME NEW k \in HostCiphers, NEW o \in Objects, o.st = "live", Whole(Len(o.data)), NEW all \in Data
  PROVE  HostFinishes(k, o, all)
<1> DEFINE n == Len(o.data \o all)
           last == Pad(all)
           cut == Cut(last, Block)
<1>0. Block \in Nat /\ Block > 0 /\ Whole(Block) /\ o.data \in Data /\ Len(o.data) \in Nat
  BY BlockFacts, BlocksAreWhole, DataFacts DEF Objects
<1>1. /\ Over(n) = Over(Len(all)) /\ Over(n) \in Nat /\ Whole(Len(all) + Over(Len(all)))
      /\ Len(all) \in Nat
  <2>1. PICK s \in Data, t \in Data : s = o.data /\ t = all
    BY <1>0
  <2>2. Len(s \o t) = Len(s) + Len(t) /\ Len(s) \in Nat /\ Len(t) \in Nat
    BY DataFacts
  <2>3. Over(Len(s) + Len(t)) = Over(Len(t))
    BY <2>1, <2>2, WholeSum
  <2>4. Over(Len(t)) \in Nat /\ Whole(Len(t) + Over(Len(t)))
    BY <2>2, OverFacts
  <2> QED BY <2>1, <2>2, <2>3, <2>4
<1>2. Zeros(Over(n)) \in Data /\ Len(Zeros(Over(n))) = Over(n)
  BY <1>1, ZerosFacts
<1>3. /\ last = all \o Zeros(Over(n)) /\ last \in Data /\ Whole(Len(last))
      /\ o.data \o last = (o.data \o all) \o Zeros(Over(n))
  <2>1. last = all \o Zeros(Over(n))
    BY <1>1 DEF Pad
  <2>4. PICK z \in Data : z = Zeros(Over(n)) /\ Len(z) = Over(n)
    BY <1>2
  <2>2. all \o Zeros(Over(n)) \in Data /\ Len(all \o Zeros(Over(n))) = Len(all) + Over(n)
    BY <2>4, JoinFacts
  <2>3. (o.data \o all) \o Zeros(Over(n)) = o.data \o (all \o Zeros(Over(n)))
    <3>1. (o.data \o all) \o z = o.data \o (all \o z)
      BY <1>0, Associative
    <3> QED BY <3>1, <2>4
  <2> QED BY <2>1, <2>2, <2>3, <1>1
<1> HIDE DEF last, n
<1>4. /\ cut \in Seq(Data) /\ \A i \in 1 .. Len(cut) : Whole(Len(cut[i]))
      /\ \A i \in 1 .. Len(cut) : Len(cut[i]) = Block
  BY <1>0, <1>3, CutFacts, CutWhole, CutBlocks
<1>5. PICK s \in Seq(Requests) : s = [i \in 1 .. Len(cut) |-> Update1(cut[i])]
  BY <1>0, <1>3, <1>4, CutAfter DEF Update1
<1> DEFINE p == After(o, s, Len(s))
<1>6. p = More(o, "update", last) /\ Len(s) = Len(cut)
  BY <1>0, <1>3, <1>5, CutAfter DEF Update1
<1> HIDE DEF p
<1>7. Taken(k, o, s)
  <2>1. \A i \in 1 .. Len(s) : Takes(k, After(o, s, i - 1), s[i])
    BY <1>4, <1>5, WholeUpdates
  <2> QED BY <2>1 DEF Taken
<1>8. Len(s) > 0 => s[1].op = "update"
  BY <1>5, <1>6, <1>4 DEF Update1, Req
<1> HIDE DEF cut
<1>9. Appends(o, p, last)
  <2>1. o.data \o last \in Data
    BY <1>0, <1>3, DataFacts
  <2> QED BY <2>1, <1>6 DEF More, Appends, Objects
<1>10. p \in Objects /\ p.st = "live" /\ Whole(Len(p.data)) /\ p.data \in Data
  <2>1. Len(o.data \o last) = Len(o.data) + Len(last) /\ Len(last) \in Nat
    BY <1>0, <1>3, DataFacts
  <2>2. Whole(Len(o.data) + Len(last))
    BY <2>1, <1>0, <1>3, WholeSum
  <2> QED BY <2>1, <2>2, <1>9 DEF Appends, Objects
<1>11. PICK d \in Seq(Requests) :
         /\ d = Dummy(k) /\ (Len(d) > 0 => d[1].op = "update")
         /\ Appends(p, After(p, d, Len(d)), Zeros(Fed(k)))
         /\ Whole(Fed(k)) /\ Fed(k) \in Nat
         /\ Taken(k, p, d) <=> k # "mbedtls_des_ecb"
  BY <1>10, DummyFacts
<1>12. PICK t \in Seq(Requests) : IsJoin(t, s, d)
  BY JoinedTyped
<1> DEFINE q == After(o, t, Len(t))
<1>13. /\ Len(t) = Len(s) + Len(d)
       /\ Len(s) > 0 => t[1] = s[1]
       /\ Len(s) = 0 /\ Len(d) > 0 => t[1] = d[1]
       /\ q = After(p, d, Len(d))
       /\ \A i : Taken(i, o, t) <=> Taken(i, o, s) /\ Taken(i, p, d)
  BY <1>12, Joined DEF p
<1> HIDE DEF q
<1>14. Len(t) > 0 => t[1].op # "create"
  <2>1. Len(s) \in Nat /\ Len(d) \in Nat
    OBVIOUS
  <2> QED BY <2>1, <1>8, <1>11, <1>13
<1>15. Appends(p, q, Zeros(Fed(k))) /\ q \in Objects
  BY <1>11, <1>13 DEF Appends
<1>16. PICK reqs \in Seq(Requests) :
         /\ IsJoin(reqs, t, Final(<<>>)) /\ Len(reqs) > 0 /\ reqs[1].op # "create"
         /\ After(o, reqs, Len(reqs)).data = q.data /\ After(o, reqs, Len(reqs)).aad = q.aad
         /\ Taken(k, o, t) /\ q.st = "live" /\ Complete(k, q, Req("final", <<>>, 0)) => Taken(k, o, reqs)
         /\ Taken(k, o, reqs) => Taken(k, o, t)
  <2>1. PICK g \in Objects : g = q /\ g = After(o, t, Len(t))
    BY <1>15 DEF q
  <2>2. \E reqs \in Seq(Requests) :
            /\ IsJoin(reqs, t, Final(<<>>)) /\ Len(reqs) > 0 /\ reqs[1].op # "create"
            /\ After(o, reqs, Len(reqs)).data = g.data /\ After(o, reqs, Len(reqs)).aad = g.aad
            /\ Taken(k, o, t) /\ g.st = "live" /\ Complete(k, g, Req("final", <<>>, 0)) => Taken(k, o, reqs)
            /\ Taken(k, o, reqs) => Taken(k, o, t)
    <3>1. EndsWell(k, o, t, g)
      BY <2>1, <1>14, EndFacts
    <3> QED BY <3>1 DEF EndsWell
  <2> QED BY <2>1, <2>2
<1>17. reqs = FinishCipher(k, all)
  <2>1. FinishCipher(k, all) = [i \in 1 .. Len(cut) |-> Update1(cut[i])] \o Dummy(k) \o Final(<<>>)
    BY DEF FinishCipher, FinishHostCipher, cut, last
  <2>2. reqs = t \o Final(<<>>) /\ t = s \o d
    BY <1>12, <1>16 DEF IsJoin
  <2> QED BY <2>1, <2>2, <1>5, <1>11
<1>18. Complete(k, q, Req("final", <<>>, 0))
  <2>1. k \notin Ccms /\ k \notin {"se_aes", "se_des"}
    BY DEF Ccms, HostCiphers, MbedCiphers, MbedAes, MbedDes
  <2>2. q.data = p.data \o Zeros(Fed(k)) /\ q.data \in Data
    BY <1>15 DEF Appends, Objects
  <2>3. Zeros(Fed(k)) \in Data /\ Len(Zeros(Fed(k))) = Fed(k)
    BY <1>11, ZerosFacts
  <2>4. PICK a \in Nat, b \in Nat : a = Len(p.data) /\ b = Fed(k) /\ Len(q.data) = a + b
    <3>1. PICK x \in Data, z \in Data : x = p.data /\ z = Zeros(Fed(k)) /\ Len(z) = Fed(k)
      BY <2>3, <1>10
    <3>2. Len(x \o z) = Len(x) + Len(z) /\ Len(x) \in Nat /\ Len(z) \in Nat
      BY JoinFacts
    <3>3. Len(q.data) = Len(x) + Len(z) /\ Len(x) = Len(p.data) /\ Len(z) = Fed(k)
      BY <3>1, <3>2, <2>2
    <3> QED BY <3>2, <3>3
  <2>5. Whole(Len(q.data))
    <3>1. Whole(a) /\ Whole(b)
      BY <2>4, <1>10, <1>11
    <3>2. Whole(a + b)
      BY <3>1, WholeSum
    <3> QED BY <3>2, <2>4
  <2>6. q.data \o <<>> = q.data
    BY <2>2, DataFacts
  <2> QED BY <2>1, <2>5, <2>6 DEF Complete, Req
<1>19. q.st = "live" /\ q.aad = o.aad /\ q.data = ((o.data \o all) \o Zeros(Over(n))) \o Zeros(Fed(k))
  <2>1. q.st = p.st /\ q.aad = p.aad /\ q.data = p.data \o Zeros(Fed(k))
    BY <1>15 DEF Appends
  <2>2. p.st = o.st /\ p.aad = o.aad /\ p.data = o.data \o last
    BY <1>9 DEF Appends
  <2> QED BY <2>1, <2>2, <1>3
<1>20. Taken(k, o, reqs) <=> k # "mbedtls_des_ecb"
  BY <1>7, <1>11, <1>13, <1>16, <1>18, <1>19
<1> QED BY <1>16, <1>17, <1>19, <1>20 DEF HostFinishes, n

\* GCM: all there is, and the tag.
LEMMA FinishGcmFacts ==
  ASSUME NEW k \in {"se_gcm", "openssl_gcm", "mbedtls_gcm"},
         NEW o \in Objects, o.st = "live", Whole(Len(o.data)), NEW all \in Data
  PROVE  \E reqs \in Seq(Requests) :
            /\ reqs = FinishGcm(k, all) /\ Len(reqs) > 0 /\ reqs[1].op # "create"
            /\ After(o, reqs, Len(reqs)).data = o.data \o all /\ After(o, reqs, Len(reqs)).aad = o.aad
            /\ Taken(k, o, reqs)
<1> DEFINE r == Req("update", all, 0)
           s == IF k = "se_gcm" THEN NotEmpty("update", all) ELSE <<r>>
           p == After(o, s, Len(s))
<1>1. r \in Requests /\ r.op = "update" /\ r.data = all
  <2>1. r \in Requests
    BY RequestTypes, ContextsAssumption
  <2> QED BY <2>1 DEF Req
<1>2. k \notin Ciphers /\ k # "se_ccm" /\ k \notin Ccms /\ Takes(k, o, r)
  <2>1. k \notin Ciphers /\ k # "se_ccm" /\ k \notin Ccms
    BY DEF Ciphers, Ccms, HostCiphers, MbedCiphers, MbedAes, MbedDes
  <2> QED BY <2>1, <1>1 DEF Takes, InBlocks
<1>3. /\ s \in Seq(Requests) /\ (Len(s) > 0 => s[1].op # "create")
      /\ Appends(o, p, all) /\ Taken(k, o, s)
  <2>1. CASE k = "se_gcm"
    <3>1. PICK t \in Seq(Requests) : t = NotEmpty("update", all)
      BY NotEmptyFacts
    <3>2. /\ Len(t) > 0 => t[1].op # "create"
          /\ Appends(o, After(o, t, Len(t)), all)
          /\ Takes(k, o, Req("update", all, 0)) => Taken(k, o, t)
      BY <3>1, NotEmptyFacts
    <3>3. s = t
      BY <2>1, <3>1
    <3> HIDE DEF s
    <3> QED BY <3>2, <3>3, <1>2 DEF r
  <2>2. CASE k # "se_gcm"
    <3>1. PICK t \in Seq(Requests) : t = <<r>>
      BY <1>1, OneRequest
    <3>2. s = t
      BY <2>2, <3>1
    <3> HIDE DEF r
    <3>3. Len(t) = 1 /\ t[1] = r /\ After(o, t, 1) = Does(o, r) /\ (Taken(k, o, t) <=> Takes(k, o, r))
      BY <1>1, <3>1, OneRequest
    <3>4. Does(o, r) = [o EXCEPT !.data = @ \o all] /\ o.data \o all \in Data
      BY <1>1, DataFacts DEF Does, Objects
    <3>5. Appends(o, Does(o, r), all)
      BY <3>4 DEF Appends, Objects
    <3> HIDE DEF s
    <3> QED BY <3>2, <3>3, <3>5, <1>1, <1>2
  <2> QED BY <2>1, <2>2
<1>4. Complete(k, p, Req("final", <<>>, 0))
  BY <1>2 DEF Complete
<1>5. \A reqs : IsJoin(reqs, s, Final(<<>>)) => reqs = FinishGcm(k, all)
  BY DEF FinishGcm, Update1, IsJoin
<1> HIDE DEF s, p, r
<1>6. p = After(o, s, Len(s)) /\ p \in Objects /\ p.st = "live" /\ p.data = o.data \o all /\ p.aad = o.aad
  BY <1>3 DEF p, Appends
<1>7. PICK t \in Seq(Requests), d \in Objects : t = s /\ d = p
  BY <1>3, <1>6
<1>8. \E reqs \in Seq(Requests) :
         /\ IsJoin(reqs, t, Final(<<>>)) /\ Len(reqs) > 0 /\ reqs[1].op # "create"
         /\ After(o, reqs, Len(reqs)).data = d.data /\ After(o, reqs, Len(reqs)).aad = d.aad
         /\ Taken(k, o, t) /\ d.st = "live" /\ Complete(k, d, Req("final", <<>>, 0)) => Taken(k, o, reqs)
  <2>1. EndsWell(k, o, t, d)
    BY <1>3, <1>6, <1>7, EndFacts
  <2> QED BY <2>1 DEF EndsWell
<1> QED BY <1>3, <1>4, <1>5, <1>6, <1>7, <1>8

\* CCM on the SE05x: a block, the rest, and the tag.
LEMMA FinishCcmFacts ==
  ASSUME NEW o \in Objects, o.st = "live", Whole(Len(o.data)), NEW all \in Data, Len(all) < Block + Block
  PROVE  \E reqs \in Seq(Requests) :
            /\ reqs = FinishCcm(all) /\ Len(reqs) > 0 /\ reqs[1].op # "create"
            /\ After(o, reqs, Len(reqs)).data = o.data \o all /\ After(o, reqs, Len(reqs)).aad = o.aad
            /\ Len(o.data \o all) = o.want => Taken("se_ccm", o, reqs)
<1> DEFINE k == "se_ccm"
<1>1. ASSUME NEW s \in Seq(Requests), Len(s) > 0 => s[1].op # "create",
             NEW p, p = After(o, s, Len(s)), Appends(o, p, all), Taken(k, o, s),
             \A reqs : IsJoin(reqs, s, Final(<<>>)) => reqs = FinishCcm(all)
      PROVE  \E reqs \in Seq(Requests) :
                /\ reqs = FinishCcm(all) /\ Len(reqs) > 0 /\ reqs[1].op # "create"
                /\ After(o, reqs, Len(reqs)).data = o.data \o all /\ After(o, reqs, Len(reqs)).aad = o.aad
                /\ Len(o.data \o all) = o.want => Taken("se_ccm", o, reqs)
  <2>1. p \in Objects /\ p.st = "live" /\ p.data = o.data \o all /\ p.aad = o.aad /\ p.want = o.want
    BY <1>1 DEF Appends
  <2>2. Len(o.data \o all) = o.want => Complete(k, p, Req("final", <<>>, 0))
    BY <2>1 DEF Complete, Ccms
  <2>3. PICK d \in Objects : d = p
    BY <2>1
  <2>4. \E reqs \in Seq(Requests) :
           /\ IsJoin(reqs, s, Final(<<>>)) /\ Len(reqs) > 0 /\ reqs[1].op # "create"
           /\ After(o, reqs, Len(reqs)).data = d.data /\ After(o, reqs, Len(reqs)).aad = d.aad
           /\ Taken(k, o, s) /\ d.st = "live" /\ Complete(k, d, Req("final", <<>>, 0)) => Taken(k, o, reqs)
    <3>1. EndsWell(k, o, s, d)
      BY <2>3, <1>1, EndFacts
    <3> QED BY <3>1 DEF EndsWell
  <2> QED BY <2>1, <2>2, <2>3, <2>4, <1>1
<1>2. CASE Len(all) < Block
  <2>1. PICK s \in Seq(Requests) : s = NotEmpty("last", all)
    BY NotEmptyFacts
  <2>2. /\ Len(s) > 0 => s[1].op # "create"
        /\ Appends(o, After(o, s, Len(s)), all)
        /\ Takes(k, o, Req("last", all, 0)) => Taken(k, o, s)
    BY <2>1, NotEmptyFacts
  <2>3. Takes(k, o, Req("last", all, 0))
    BY <1>2 DEF Takes, Req
  <2>4. \A reqs : IsJoin(reqs, s, Final(<<>>)) => reqs = FinishCcm(all)
    BY <1>2, <2>1 DEF FinishCcm, IsJoin
  <2> QED BY <2>2, <2>3, <2>4, <1>1
<1>3. CASE ~ (Len(all) < Block)
  <2>1. Len(all) \in Nat /\ Block \in Nat /\ Block <= Len(all) /\ Block > 0
    BY <1>3, DataFacts, BlockFacts
  <2>2. PICK first \in Data, rest \in Data :
          /\ first = SubSeq(all, 1, Block) /\ Len(first) = Block
          /\ rest = SubSeq(all, Block + 1, Len(all)) /\ Len(rest) < Block
          /\ first \o rest = all
    <3>1. PICK z \in Nat, j \in Nat : z = 0 /\ j = Len(all)
      BY <2>1
    <3>0. z <= Block /\ Block <= j /\ j <= Len(all)
      BY <2>1, <3>1
    <3>2. SubSeq(all, z + 1, Block) \in Data /\ Len(SubSeq(all, z + 1, Block)) = Block - z
      BY <2>1, <3>0, <3>1, SubSeqFacts
    <3>3. SubSeq(all, 1, Block) \in Data /\ Len(SubSeq(all, 1, Block)) = Block
      BY <2>1, <3>0, <3>1, <3>2
    <3>4. /\ SubSeq(all, Block + 1, j) \in Data /\ Len(SubSeq(all, Block + 1, j)) = j - Block
          /\ SubSeq(all, 1, Block) \o SubSeq(all, Block + 1, j) = SubSeq(all, 1, j)
      BY <2>1, <3>0, <3>1, SubSeqFacts
    <3>5. SubSeq(all, 1, j) = all /\ j - Block < Block
      BY <2>1, <3>1, WholeSeq
    <3> QED BY <3>1, <3>3, <3>4, <3>5
  <2> DEFINE r == Update1(first)
  <2>3. r \in Requests /\ r.op = "update" /\ r.data = first
    <3>1. r \in Requests
      BY RequestTypes, ContextsAssumption
    <3> QED BY <3>1 DEF Req, Update1
  <2>4. PICK s \in Seq(Requests) : s = <<r>>
    BY <2>3, OneRequest
  <2>5. PICK t \in Seq(Requests) : t = NotEmpty("last", rest)
    BY NotEmptyFacts
  <2>6. FinishCcm(all) = (s \o t) \o Final(<<>>)
    BY <1>3, <2>2, <2>4, <2>5 DEF FinishCcm
  <2> HIDE DEF r
  <2>7. Len(s) = 1 /\ s[1] = r /\ After(o, s, 1) = Does(o, r) /\ (Taken(k, o, s) <=> Takes(k, o, r))
    BY <2>3, <2>4, OneRequest
  <2> DEFINE d == Does(o, r)
  <2>8. d = [o EXCEPT !.data = @ \o first] /\ o.data \o first \in Data
    BY <2>3, DataFacts DEF Does, Objects
  <2>9. Appends(o, d, first)
    BY <2>8 DEF Appends, Objects
  <2>10. Takes(k, o, r)
    BY <2>2, <2>3, BlocksAreWhole DEF Takes, InBlocks
  <2> HIDE DEF d
  <2>11. d \in Objects /\ d.st = "live"
    BY <2>9 DEF Appends
  <2> DEFINE p == After(d, t, Len(t))
  <2>12. /\ Appends(d, p, rest)
         /\ Takes(k, d, Req("last", rest, 0)) => Taken(k, d, t)
    BY <2>5, <2>11, NotEmptyFacts
  <2>13. Takes(k, d, Req("last", rest, 0))
    BY <2>2, <2>11 DEF Takes, Req
  <2> HIDE DEF p
  <2>14. Appends(o, p, all)
    <3>1. (o.data \o first) \o rest = o.data \o (first \o rest)
      <4>1. o.data \in Data
        BY DEF Objects
      <4> QED BY <4>1, Associative
    <3> QED BY <3>1, <2>2, <2>9, <2>12 DEF Appends
  <2>15. d = After(o, s, Len(s))
    BY <2>7 DEF d
  <2>16. PICK st \in Seq(Requests) : IsJoin(st, s, t)
    BY JoinedTyped
  <2>17. /\ Len(st) = Len(s) + Len(t) /\ st[1] = s[1]
         /\ After(o, st, Len(st)) = After(d, t, Len(t))
         /\ \A i : Taken(i, o, st) <=> Taken(i, o, s) /\ Taken(i, d, t)
    <3>1. /\ Len(st) = Len(s) + Len(t)
          /\ Len(s) > 0 => st[1] = s[1]
          /\ Len(s) = 0 /\ Len(t) > 0 => st[1] = t[1]
          /\ After(o, st, Len(st)) = After(d, t, Len(t))
          /\ \A i : Taken(i, o, st) <=> Taken(i, o, s) /\ Taken(i, d, t)
      BY <2>15, <2>16, Joined
    <3> QED BY <3>1, <2>7
  <2>18. p = After(o, st, Len(st)) /\ Taken(k, o, st)
    BY <2>7, <2>10, <2>12, <2>13, <2>17 DEF p
  <2>19. \A reqs : IsJoin(reqs, st, Final(<<>>)) => reqs = FinishCcm(all)
    BY <2>6, <2>16 DEF IsJoin
  <2>20. st[1].op # "create"
    BY <2>3, <2>7, <2>17
  <2> QED BY <2>20,  <2>14, <2>17, <2>18, <2>19, <1>1
<1> QED BY <1>2, <1>3

\* CCM of a library: all of it at once.
LEMMA FinishHostCcmFacts ==
  ASSUME NEW c \in Contexts, NEW src \in Data, ctx[c] \in CtxTypes, NEW o \in Objects, o.st # "none",
         Len(ctx[c].buffer \o src) = ctx[c].total
  PROVE  \E reqs \in Seq(Requests) :
            /\ reqs = FinishHostCcm(c, src) /\ Len(reqs) > 0 /\ reqs[1].op # "create"
            /\ After(o, reqs, Len(reqs)).data = ctx[c].buffer \o src
            /\ After(o, reqs, Len(reqs)).aad = ctx[c].aad
            /\ Taken("host_ccm", o, reqs)
<1> DEFINE k == "host_ccm"
           x == ctx[c]
           got == x.buffer \o src
           q == Req("start", <<>>, x.total)
           r == Req("aad", x.aad, 0)
           u == Update1(got)
<1>1. x.buffer \in Data /\ x.aad \in Data /\ x.total \in 0 .. MaxTotal /\ got \in Data /\ Len(got) = x.total /\ <<>> \in Data
  BY DataFacts DEF CtxTypes
<1>2. got \o Zeros(x.total - Len(got)) = got
  <2>1. x.total - Len(got) = 0
    BY <1>1
  <2>2. Zeros(0) = <<>> /\ got \o <<>> = got
    BY <1>1, ZerosFacts, DataFacts
  <2> QED BY <2>1, <2>2
<1> HIDE DEF got
<1>3. /\ q \in Requests /\ r \in Requests /\ u \in Requests
      /\ q.op = "start" /\ q.want = x.total /\ r.op = "aad" /\ r.data = x.aad /\ u.op = "update" /\ u.data = got
  <2>1. q \in Requests /\ r \in Requests /\ u \in Requests
    BY <1>1, RequestTypes, ContextsAssumption
  <2> QED BY <2>1 DEF Req, Update1
<1>4. FinishHostCcm(c, src) = <<q, r, u>> \o Final(<<>>)
  BY <1>2 DEF FinishHostCcm, got
<1> HIDE DEF q, r, u, x
<1>5. PICK s \in Seq(Requests) : s = <<q, r>>
  BY <1>3, TwoRequests
<1>6. PICK t \in Seq(Requests) : t = <<u>>
  BY <1>3, OneRequest
<1> DEFINE d == Does(o, q)
           e == Does(d, r)
           f == Does(e, u)
<1>7. Len(s) = 2 /\ s[1] = q /\ After(o, s, 2) = e /\ (Taken(k, o, s) <=> Takes(k, o, q) /\ Takes(k, d, r))
  BY ZenonT(40), <1>3, <1>5, TwoRequests
<1>8. Len(t) = 1 /\ t[1] = u /\ After(e, t, 1) = f /\ (Taken(k, e, t) <=> Takes(k, e, u))
  BY <1>3, <1>6, OneRequest
<1>9. d \in Objects /\ d.st = "live" /\ d.data = <<>> /\ d.aad = <<>> /\ d.want = x.total
  <2>1. d \in Objects
    BY <1>3, DoesTyped
  <2>2. d = [NoObject EXCEPT !.st = "live", !.want = x.total]
    BY <1>3 DEF Does
  <2> QED BY <2>1, <2>2 DEF NoObject
<1> HIDE DEF d
<1>10. e \in Objects /\ e.st = "live" /\ e.data = <<>> /\ e.aad = x.aad /\ e.want = x.total
  <2>1. e \in Objects
    BY <1>3, <1>9, DoesTyped
  <2>2. e = [d EXCEPT !.aad = @ \o x.aad] /\ <<>> \o x.aad = x.aad
    BY <1>1, <1>3, DataFacts DEF Does
  <2> QED BY <2>1, <2>2, <1>9 DEF Objects
<1> HIDE DEF e
<1>11. f \in Objects /\ f.st = "live" /\ f.data = got /\ f.aad = x.aad /\ f.want = x.total
  <2>1. f \in Objects
    BY <1>3, <1>10, DoesTyped
  <2>2. f = [e EXCEPT !.data = @ \o got] /\ <<>> \o got = got
    BY <1>1, <1>3, DataFacts DEF Does
  <2> QED BY <2>1, <2>2, <1>10 DEF Objects
<1> HIDE DEF f
<1>12. Takes(k, o, q) /\ Takes(k, d, r) /\ Takes(k, e, u)
  <2>1. Takes(k, o, q) /\ Takes(k, d, r)
    BY <1>3, <1>9 DEF Takes
  <2>2. InBlocks(k, e, u)
    <3>1. Len(e.data) = 0
      BY <1>10, DataFacts
    <3> QED BY <3>1, BlocksAreWhole DEF InBlocks, Ciphers, HostCiphers, MbedCiphers, MbedAes, MbedDes
  <2> QED BY <2>1, <2>2, <1>3, <1>10 DEF Takes
<1>13. PICK st \in Seq(Requests) : IsJoin(st, s, t)
  BY JoinedTyped
<1>14. e = After(o, s, Len(s))
  BY <1>7
<1>15. /\ st[1] = s[1]
       /\ After(o, st, Len(st)) = After(e, t, Len(t))
       /\ \A i : Taken(i, o, st) <=> Taken(i, o, s) /\ Taken(i, e, t)
  <2>1. /\ Len(st) = Len(s) + Len(t)
        /\ Len(s) > 0 => st[1] = s[1]
        /\ Len(s) = 0 /\ Len(t) > 0 => st[1] = t[1]
        /\ After(o, st, Len(st)) = After(e, t, Len(t))
        /\ \A i : Taken(i, o, st) <=> Taken(i, o, s) /\ Taken(i, e, t)
    BY <1>13, <1>14, Joined
  <2> QED BY <2>1, <1>7
<1>16. <<q, r, u>> = st
  BY <1>3, <1>5, <1>6, <1>13 DEF IsJoin
<1>17. Complete(k, f, Req("final", <<>>, 0))
  BY <1>1, <1>11 DEF Complete, Ccms
<1>18. f = After(o, st, Len(st)) /\ Taken(k, o, st)
  BY <1>7, <1>8, <1>12, <1>15
<1>19. st[1].op # "create"
  BY <1>3, <1>7, <1>15
<1>22. \A reqs : IsJoin(reqs, st, Final(<<>>)) => reqs = FinishHostCcm(c, src)
  BY <1>4, <1>16 DEF IsJoin
<1>20. PICK g \in Objects : g = f
  BY <1>11
<1>21. \E reqs \in Seq(Requests) :
          /\ IsJoin(reqs, st, Final(<<>>)) /\ Len(reqs) > 0 /\ reqs[1].op # "create"
          /\ After(o, reqs, Len(reqs)).data = g.data /\ After(o, reqs, Len(reqs)).aad = g.aad
          /\ Taken(k, o, st) /\ g.st = "live" /\ Complete(k, g, Req("final", <<>>, 0)) => Taken(k, o, reqs)
  <2>1. EndsWell(k, o, st, g)
    BY <1>18, <1>19, <1>20, EndFacts
  <2> QED BY <2>1 DEF EndsWell
<1> QED BY <1>11, <1>17, <1>18, <1>20, <1>21, <1>22 DEF got, x

\* Finish does the rest of the message, and no more.
LEMMA FinishFacts ==
  ASSUME CInv, NEW c \in Contexts, NEW n \in Nat, MayGive(c, n), n <= Block,
         kind[c] \in Macs => n = 0, kind[c] \in Ccms => app[c].n + n = app[c].want,
         NEW k, k = kind[c], NEW a, a = app[c], NEW o, o = object[ObjectOf(c)]
  PROVE  \E reqs \in Seq(Requests) :
            /\ reqs = FinishReqs(c, Piece(app[c].msg, app[c].n, n)) /\ Len(reqs) > 0 /\ reqs[1].op # "create"
            /\ o.st # "none" /\ Fresh(k) => Taken(k, o, reqs) \/ Excused(k, a.n + n)
            /\ o.st # "none" /\ Fresh(k) /\ Taken(k, o, reqs)
                 => IsExact(k, After(o, reqs, Len(reqs)).data, Expected(k, a.msg, a.n + n))
            /\ o.st # "none" /\ Lossless(k) => After(o, reqs, Len(reqs)).aad = Units(a.msg, a.aad)
<1> DEFINE x == ctx[c]
           src == Piece(a.msg, a.n, n)
           all == x.cache \o src
           live == [NoObject EXCEPT !.st = "live"]
           U == Units(a.msg, a.n + n)
<1>1. /\ Typed /\ Right(c) /\ k \in AllKinds /\ x \in CtxTypes /\ a \in AppTypes /\ o \in Objects
      /\ a.st = "open" /\ a.n \in Nat /\ a.n + n \in 0 .. MaxTotal /\ a.msg \in 1 .. MaxMessages
      /\ ~ Waits(k, a) /\ src \in Data /\ Len(src) = n
      /\ Units(a.msg, a.n) \o src = U /\ (k = "host_ccm" => a.aad > 0)
  BY GivenFacts
<1>2. Goes(k, x, a, o)
  BY <1>1 DEF Right
<1>3. U \in Data /\ Len(U) = a.n + n
  <2>1. PICK m \in 1 .. MaxMessages, j \in Nat : m = a.msg /\ j = a.n + n /\ j <= MaxTotal + MaxAad
    BY <1>1, ContextsAssumption
  <2>2. j + 0 <= MaxTotal + MaxAad /\ 0 \in Nat
    BY <2>1
  <2>3. Units(m, j) \in Data /\ Len(Units(m, j)) = j
    BY <2>1, <2>2, UnitsFacts
  <2> QED BY <2>1, <2>3
<1>4. /\ x.cache \in Data /\ x.buffer \in Data /\ all \in Data /\ Len(all) < Block + Block
  <2>1. x.cache \in Data /\ x.buffer \in Data /\ Len(x.cache) < Block
    BY <1>1 DEF CtxTypes, Typed
  <2>2. PICK s \in Data, t \in Data : s = x.cache /\ t = src
    BY <2>1, <1>1
  <2>3. s \o t \in Data /\ Len(s \o t) = Len(s) + Len(t) /\ Len(s) \in Nat
    BY DataFacts
  <2>4. Len(s) + Len(t) < Block + Block
    BY <2>1, <2>2, <2>3, <1>1, BlockFacts
  <2> HIDE DEF x, src
  <2> QED BY <2>1, <2>2, <2>3, <2>4
<1>5. live \in Objects /\ live.st = "live" /\ live.data = <<>> /\ Whole(Len(live.data))
  <2>1. live \in Objects /\ live.st = "live" /\ live.data = <<>>
    BY DataFacts, ContextsAssumption DEF NoObject, Objects
  <2> QED BY <2>1, DataFacts, BlocksAreWhole
<1>6. PICK d \in Objects : d = IF o.st = "none" THEN live ELSE o
  BY <1>1, <1>5
<1>7. FinishReqs(c, Piece(app[c].msg, app[c].n, n)) = FinishReqs(c, src)
  OBVIOUS
<1>8. FinishReqs(c, src) = CASE k \in Ciphers -> FinishCipher(k, all)
                             [] k \in Macs -> Final(<<>>)
                             [] k = "se_ccm" -> FinishCcm(all)
                             [] k = "host_ccm" -> FinishHostCcm(c, src)
                             [] OTHER -> FinishGcm(k, all)
  BY DEF FinishReqs
<1>9. /\ k \in Macs => k \notin Ciphers /\ k # "se_ccm" /\ k # "host_ccm"
      /\ k \in Ciphers => k \notin Aeads /\ k # "se_ccm" /\ k # "host_ccm"
      /\ k \in Aeads <=> k \notin Macs /\ k \notin Ciphers
      /\ k \in Ccms <=> k \in {"se_ccm", "host_ccm"}
      /\ k \in Ccms => k \in Aeads
      /\ k \in Aeads \/ k \in Macs => ~ Pads(k)
      /\ k \in Aeads /\ k \notin Ccms => k \in {"se_gcm", "openssl_gcm", "mbedtls_gcm"}
  BY <1>1, KindFacts DEF Aeads, Macs, Pads, Ccms, HostCiphers, MbedCiphers, MbedAes, MbedDes
<1> HIDE DEF x, src, all, live, U
<1>10. Expected(k, a.msg, a.n + n) = U \o Zeros(IF Pads(k) THEN Over(a.n + n) ELSE 0)
  BY DEF Expected, U
<1>11. ~ Pads(k) => Expected(k, a.msg, a.n + n) = U
  <2>1. Zeros(0) = <<>> /\ U \o <<>> = U
    BY <1>3, ZerosFacts, DataFacts
  <2> QED BY <2>1, <1>10
<1>12. ASSUME k # "host_ccm"
       PROVE  /\ o.st # "none" => Holds(k, x, a, o)
              /\ d.st = "live"
              /\ k \notin Macs => Whole(Len(d.data))
              /\ o.st # "none" /\ k \notin Macs /\ Fresh(k) => o.data \o all = U
              /\ o.st # "none" /\ Lossless(k) => o.aad = Units(a.msg, a.aad)
  <2>1. o.st # "none" => Holds(k, x, a, o)
    BY <1>1, <1>2, <1>12 DEF Goes
  <2>2. d.st = "live" /\ (k \notin Macs => Whole(Len(d.data)))
    BY <2>1, <1>5, <1>6 DEF Holds
  <2>3. ASSUME o.st # "none", k \notin Macs, Fresh(k)
        PROVE  o.data \o all = U
    <3>1. o.data \o x.cache = Units(a.msg, a.n)
      BY <2>1, <2>3 DEF Holds
    <3>2. (o.data \o x.cache) \o src = o.data \o (x.cache \o src)
      <4>1. o.data \in Data
        BY <1>1 DEF Objects
      <4> QED BY <4>1, <1>1, <1>4, Associative
    <3> QED BY <3>1, <3>2, <1>1 DEF all
  <2>4. o.st # "none" /\ Lossless(k) => o.aad = Units(a.msg, a.aad)
    BY <2>1 DEF Holds
  <2> QED BY <2>1, <2>2, <2>3, <2>4
<1>18. Expected(k, a.msg, a.n + n) \in Data
  <2>1. Over(a.n + n) \in Nat
    BY <1>1, OverFacts
  <2>2. PICK z \in Data : z = Zeros(IF Pads(k) THEN Over(a.n + n) ELSE 0)
    BY <2>1, ZerosFacts
  <2>3. PICK u \in Data : u = U
    BY <1>3
  <2>4. u \o z \in Data
    BY JoinFacts
  <2> QED BY <2>2, <2>3, <2>4, <1>10
<1>19. ASSUME k \notin HostCiphers
       PROVE  IsExact(k, Expected(k, a.msg, a.n + n), Expected(k, a.msg, a.n + n))
  <2>1. Fed(k) = 0 /\ k # "mbedtls_des_ecb"
    BY <1>19 DEF Fed, HostCiphers, MbedCiphers, MbedAes, MbedDes
  <2>2. Zeros(0) = <<>> /\ \A t \in Data : t \o <<>> = t
    BY ZerosFacts, DataFacts
  <2>3. IsExact(k, Expected(k, a.msg, a.n + n) \o Zeros(Fed(k)), Expected(k, a.msg, a.n + n))
    BY <2>1, <1>1, <1>18, GivenOutFacts
  <2> QED BY <2>1, <2>2, <2>3, <1>18
<1>20. k \notin Ciphers => k \notin HostCiphers
  BY DEF Ciphers
<1>13. CASE k \in Ciphers \ HostCiphers
  <2>1. PICK reqs \in Seq(Requests) :
          /\ reqs = FinishCipher(k, all) /\ Len(reqs) > 0 /\ reqs[1].op # "create"
          /\ After(d, reqs, Len(reqs)).data
               = (d.data \o all) \o Zeros(IF Pads(k) THEN Over(Len(d.data \o all)) ELSE 0)
          /\ After(d, reqs, Len(reqs)).aad = d.aad
          /\ Taken(k, d, reqs) \/ Excused(k, Len(d.data \o all))
    <3>1. d.st = "live" /\ Whole(Len(d.data))
      BY <1>9, <1>12, <1>13
    <3> QED BY <3>1, <1>4, <1>13, FinishSeCipherFacts
  <2>2. reqs = FinishReqs(c, src)
    BY <2>1, <1>8, <1>9, <1>13
  <2>3. ASSUME o.st # "none", Fresh(k)
        PROVE  /\ Taken(k, o, reqs) \/ Excused(k, a.n + n)
               /\ After(o, reqs, Len(reqs)).data = Expected(k, a.msg, a.n + n)
    <3>1. o.data \o all = U /\ d = o
      BY <2>3, <1>6, <1>9, <1>12, <1>13
    <3> QED BY <3>1, <2>1, <1>3, <1>10
  <2>4. o.st # "none" /\ Lossless(k) => After(o, reqs, Len(reqs)).aad = Units(a.msg, a.aad)
    BY <2>1, <1>6, <1>9, <1>12, <1>13
  <2> QED BY <2>1, <2>2, <2>3, <2>4, <1>7, <1>13, <1>19
<1>21. CASE k \in HostCiphers
  <2>0. k \in Ciphers /\ Pads(k)
    BY <1>21 DEF Ciphers, Pads
  <2>1. PICK reqs \in Seq(Requests) :
          /\ reqs = FinishCipher(k, all) /\ Len(reqs) > 0 /\ reqs[1].op # "create"
          /\ After(d, reqs, Len(reqs)).data
               = ((d.data \o all) \o Zeros(Over(Len(d.data \o all)))) \o Zeros(Fed(k))
          /\ After(d, reqs, Len(reqs)).aad = d.aad
          /\ Taken(k, d, reqs) <=> k # "mbedtls_des_ecb"
    <3>1. d.st = "live" /\ Whole(Len(d.data))
      BY <2>0, <1>9, <1>12
    <3>2. PICK w \in Data : w = all
      BY <1>4
    <3>3. HostFinishes(k, d, w)
      BY <3>1, <1>21, FinishHostCipherFacts
    <3> QED BY <3>2, <3>3 DEF HostFinishes
  <2>2. reqs = FinishReqs(c, src)
    BY <2>0, <2>1, <1>8, <1>9
  <2>3. ASSUME o.st # "none", Fresh(k)
        PROVE  /\ Taken(k, o, reqs) \/ Excused(k, a.n + n)
               /\ Taken(k, o, reqs) => IsExact(k, After(o, reqs, Len(reqs)).data, Expected(k, a.msg, a.n + n))
    <3>1. o.data \o all = U /\ d = o
      BY <2>0, <2>3, <1>6, <1>9, <1>12
    <3>2. After(o, reqs, Len(reqs)).data = Expected(k, a.msg, a.n + n) \o Zeros(Fed(k))
      BY <3>1, <2>0, <2>1, <1>3, <1>10
    <3>3. Taken(k, o, reqs) <=> k # "mbedtls_des_ecb"
      BY <3>1, <2>1
    <3>4. k # "mbedtls_des_ecb" => IsExact(k, After(o, reqs, Len(reqs)).data, Expected(k, a.msg, a.n + n))
      BY <3>2, <1>1, <1>18, GivenOutFacts
    <3> QED BY <3>3, <3>4 DEF Excused
  <2>4. o.st # "none" /\ Lossless(k) => After(o, reqs, Len(reqs)).aad = Units(a.msg, a.aad)
    BY <2>0, <2>1, <1>6, <1>9, <1>12
  <2> QED BY <2>1, <2>2, <2>3, <2>4, <1>7
<1>14. CASE k \in Macs
  <2>1. PICK reqs \in Seq(Requests) : reqs = Final(<<>>)
    BY <1>6, FinalFacts, DataFacts
  <2>2. /\ Len(reqs) = 1 /\ reqs[1].op = "final"
        /\ After(d, reqs, Len(reqs)).data = d.data \o <<>> /\ After(d, reqs, Len(reqs)).aad = d.aad
        /\ Taken(k, d, reqs) <=> d.st = "live" /\ Complete(k, d, Req("final", <<>>, 0))
    BY <2>1, FinalFacts, DataFacts
  <2>3. reqs = FinishReqs(c, src)
    BY <2>1, <1>8, <1>9, <1>14
  <2>4. Complete(k, d, Req("final", <<>>, 0))
    <3>1. k \notin {"se_aes", "se_des", "openssl_cipher"} /\ k \notin Ccms
      BY <1>14 DEF Macs, Ccms
    <3> QED BY <3>1 DEF Complete
  <2>5. d.data \o <<>> = d.data
    BY DataFacts DEF Objects
  <2>6. ASSUME o.st # "none"
        PROVE  After(o, reqs, Len(reqs)).data = Expected(k, a.msg, a.n + n)
    <3>1. Holds(k, x, a, o) /\ d = o
      BY <2>6, <1>6, <1>9, <1>12, <1>14
    <3>2. o.data = Units(a.msg, a.n) /\ a.n + n = a.n
      BY <3>1, <1>1, <1>14 DEF Holds
    <3>3. o.data = U
      BY <3>2 DEF U
    <3> QED BY <3>1, <3>3, <2>2, <2>5, <1>9, <1>11, <1>14
  <2>7. o.st # "none" => Taken(k, o, reqs)
    BY <2>2, <2>4, <1>6, <1>9, <1>12, <1>14
  <2>8. o.st # "none" /\ Lossless(k) => After(o, reqs, Len(reqs)).aad = Units(a.msg, a.aad)
    BY <2>2, <1>6, <1>9, <1>12, <1>14
  <2>9. Len(reqs) > 0 /\ reqs[1].op # "create"
    BY <2>2
  <2> QED BY <2>3, <2>6, <2>7, <2>8, <2>9, <1>7, <1>9, <1>14, <1>19, <1>20
<1>15. CASE k = "se_ccm"
  <2>1. PICK reqs \in Seq(Requests) :
          /\ reqs = FinishCcm(all) /\ Len(reqs) > 0 /\ reqs[1].op # "create"
          /\ After(d, reqs, Len(reqs)).data = d.data \o all /\ After(d, reqs, Len(reqs)).aad = d.aad
          /\ Len(d.data \o all) = d.want => Taken("se_ccm", d, reqs)
    <3>1. d.st = "live" /\ Whole(Len(d.data))
      BY <1>9, <1>12, <1>15
    <3> QED BY <3>1, <1>4, FinishCcmFacts
  <2>2. reqs = FinishReqs(c, src)
    <3>1. k \notin Ciphers /\ k \notin Macs
      BY <1>15 DEF Ciphers, Macs, HostCiphers, MbedCiphers, MbedAes, MbedDes
    <3> QED BY <3>1, <2>1, <1>8, <1>15
  <2>3. ASSUME o.st # "none", Fresh(k)
        PROVE  /\ Taken(k, o, reqs)
               /\ After(o, reqs, Len(reqs)).data = Expected(k, a.msg, a.n + n)
    <3>1. o.data \o all = U /\ d = o /\ Holds(k, x, a, o)
      BY <2>3, <1>6, <1>9, <1>12, <1>15
    <3>2. o.want = a.want /\ a.want = a.n + n
      BY <3>1, <1>9, <1>15 DEF Holds
    <3>3. ~ Pads(k)
      BY <1>9, <1>15
    <3> QED BY <3>1, <3>2, <3>3, <2>1, <1>3, <1>11, <1>15
  <2>4. o.st # "none" /\ Lossless(k) => After(o, reqs, Len(reqs)).aad = Units(a.msg, a.aad)
    BY <2>1, <1>6, <1>12, <1>15
  <2> QED BY <2>1, <2>2, <2>3, <2>4, <1>7, <1>9, <1>15, <1>19, <1>20
<1>16. CASE k = "host_ccm"
  <2>1. InHand(k, x, a) /\ a.want = a.n + n
    BY <1>1, <1>2, <1>9, <1>16 DEF Goes
  <2>2. x.buffer \o src = U /\ Len(x.buffer \o src) = x.total
    BY <2>1, <1>1, <1>3 DEF InHand
  <2>3. PICK reqs \in Seq(Requests) :
          /\ reqs = FinishHostCcm(c, src) /\ Len(reqs) > 0 /\ reqs[1].op # "create"
          /\ After(d, reqs, Len(reqs)).data = ctx[c].buffer \o src
          /\ After(d, reqs, Len(reqs)).aad = ctx[c].aad
          /\ Taken("host_ccm", d, reqs)
    <3>1. d.st # "none"
      BY <1>5, <1>6
    <3> QED BY <3>1, <2>2, <1>1, FinishHostCcmFacts DEF x
  <2>4. reqs = FinishReqs(c, src)
    BY <2>3, <1>8, <1>9, <1>16
  <2>5. ASSUME o.st # "none"
        PROVE  /\ Taken(k, o, reqs)
               /\ After(o, reqs, Len(reqs)).data = Expected(k, a.msg, a.n + n)
               /\ Lossless(k) => After(o, reqs, Len(reqs)).aad = Units(a.msg, a.aad)
    <3>1. d = o /\ ~ Pads(k)
      BY <2>5, <1>6, <1>9, <1>16
    <3>2. Lossless(k) => x.aad = Units(a.msg, a.aad)
      BY <2>1, <1>1, <1>16 DEF InHand
    <3> QED BY <3>1, <3>2, <2>2, <2>3, <1>11, <1>16 DEF x
  <2> QED BY <2>3, <2>4, <2>5, <1>7, <1>9, <1>16, <1>19, <1>20
<1>17. CASE k \in {"se_gcm", "openssl_gcm", "mbedtls_gcm"}
  <2>0. k \in Aeads /\ k \notin Ciphers /\ k \notin Macs /\ k # "se_ccm" /\ k # "host_ccm"
    BY <1>9, <1>17 DEF Aeads
  <2>1. PICK reqs \in Seq(Requests) :
          /\ reqs = FinishGcm(k, all) /\ Len(reqs) > 0 /\ reqs[1].op # "create"
          /\ After(d, reqs, Len(reqs)).data = d.data \o all /\ After(d, reqs, Len(reqs)).aad = d.aad
          /\ Taken(k, d, reqs)
    <3>1. d.st = "live" /\ Whole(Len(d.data))
      BY <2>0, <1>12
    <3> QED BY <3>1, <1>4, <1>17, FinishGcmFacts
  <2>2. reqs = FinishReqs(c, src)
    BY <2>0, <2>1, <1>8
  <2>3. ASSUME o.st # "none", Fresh(k)
        PROVE  /\ Taken(k, o, reqs)
               /\ After(o, reqs, Len(reqs)).data = Expected(k, a.msg, a.n + n)
    <3>1. o.data \o all = U /\ d = o /\ ~ Pads(k)
      BY <2>0, <2>3, <1>6, <1>9, <1>12
    <3> QED BY <3>1, <2>1, <1>11
  <2>4. o.st # "none" /\ Lossless(k) => After(o, reqs, Len(reqs)).aad = Units(a.msg, a.aad)
    BY <2>0, <2>1, <1>6, <1>12
  <2> QED BY <2>0, <2>1, <2>2, <2>3, <2>4, <1>7, <1>19, <1>20
<1> QED BY <1>9, <1>13, <1>14, <1>15, <1>16, <1>17, <1>21

\* The end of a message: what is done is what was given.
LEMMA FinishKeeps ==
  ASSUME CInv, NEW c \in Contexts, NEW n \in Nat, Finish(c, n)
  PROVE  CInv'
<1> DEFINE a == app[c]
           k == kind[c]
           x == ctx[c]
           o == object[ObjectOf(c)]
           src == Piece(a.msg, a.n, n)
           y == [x EXCEPT !.cache = IF k \in Ciphers THEN <<>> ELSE @]
<1>1. /\ MayGive(c, n) /\ n <= Block /\ (k \in Macs => n = 0) /\ (k \in Ccms => a.n + n = a.want)
      /\ ctx' = [ctx EXCEPT ![c].cache = IF k \in Ciphers THEN <<>> ELSE @]
      /\ UNCHANGED <<kind, forgotten, messages>>
  BY DEF Finish
<1>2. /\ Typed /\ Right(c) /\ k \in AllKinds /\ x \in CtxTypes /\ a \in AppTypes /\ o \in Objects
      /\ a.st = "open" /\ a.n \in Nat /\ a.n + n \in 0 .. MaxTotal
  BY <1>1, GivenFacts
<1>3. PICK reqs \in Seq(Requests) :
        /\ reqs = FinishReqs(c, src) /\ Len(reqs) > 0 /\ reqs[1].op # "create"
        /\ o.st # "none" /\ Fresh(k) => Taken(k, o, reqs) \/ Excused(k, a.n + n)
        /\ o.st # "none" /\ Fresh(k) /\ Taken(k, o, reqs)
             => IsExact(k, After(o, reqs, Len(reqs)).data, Expected(k, a.msg, a.n + n))
        /\ o.st # "none" /\ Lossless(k) => After(o, reqs, Len(reqs)).aad = Units(a.msg, a.aad)
  BY <1>1, FinishFacts
<1>4. PICK e \in Ends(c, reqs) :
        /\ Exchange(c, reqs, e) /\ Given(c, n, Outcome(e, "ready"))
        /\ done' = IF e.bad # 0 THEN Nothing
                   ELSE [data |-> GivenOut(k, After(o, reqs, Len(reqs)).data), dummy |-> Behind(k),
                         should |-> Expected(k, a.msg, a.n + n),
                         aad |-> After(o, reqs, Len(reqs)).aad, aadShould |-> Units(a.msg, a.aad)]
  BY <1>3 DEF Finish
<1> DEFINE b == [a EXCEPT !.n = a.n + n, !.st = Outcome(e, "ready")]
<1>5. /\ Outcome(e, "ready") \in {"ready", "failed", "refused"}
      /\ Outcome(e, "ready") = "ready" <=> e.bad = 0
  BY <1>2, OutcomeFacts DEF Typed
<1>6. app' = [app EXCEPT ![c] = b] /\ b \in AppTypes /\ app'[c] = b
  BY <1>2, <1>4, <1>5 DEF Given, Typed, AppTypes
<1>7. b.n = a.n + n /\ b.st = Outcome(e, "ready")
  BY <1>2 DEF AppTypes
<1>8. /\ y \in CtxTypes /\ ctx' = [ctx EXCEPT ![c] = y] /\ ctx'[c] = y
      /\ y.id = x.id /\ (k \in Ciphers => y.cache = <<>>)
      /\ Len(y.cache) < Block /\ Len(y.buffer) <= y.total
  <2>1. <<>> \in Data /\ Len(<<>>) = 0 /\ Block > 0
    BY DataFacts, BlockFacts
  <2> QED BY <2>1, <1>1, <1>2 DEF Typed, CtxTypes
<1>9. app[c].st = "open" /\ y.id = ctx[c].id
  BY <1>2, <1>8
<1>10. e.bad = 0 => o.st # "none" /\ Taken(k, o, reqs)
  <2>1. /\ Len(reqs) > 0 /\ reqs[1].op # "create" /\ o.st = "none" => e.bad # 0
        /\ e.bad = 0 => Taken(k, o, reqs)
    BY <1>2, <1>4, ExchangeFacts
  <2> QED BY <2>1, <1>3
<1> HIDE DEF a, k, o, b, x, y, src
<1>11. DoneRight'
  <2>1. CASE e.bad # 0
    BY <2>1, <1>4, NothingDone
  <2>2. CASE e.bad = 0
    <3>1. Restarts \cap Ciphers = {} => Fresh(k)
      BY DEF Fresh
    <3>2. AadInChunks \cap KeepLast = {} => Lossless(k)
      BY DEF Lossless
    <3> QED BY <3>1, <3>2, <2>2, <1>3, <1>4, <1>10 DEF DoneRight, ExactMessage, ExactAad, IsExact
  <2> QED BY <2>1, <2>2
<1>12. Right(c)'
  <2>1. /\ kind' = kind /\ k = kind[c] /\ o = object[ObjectOf(c)] /\ app'[c].st = Outcome(e, "ready")
    BY <1>1, <1>6, <1>7 DEF k, o
  <2>2. app'[c].st = "ready" => Goes(k, ctx'[c], app'[c], After(o, reqs, Len(reqs))) /\ Rested(k, ctx'[c], app'[c])
    BY <1>8 DEF Goes, Rested
  <2>3. Len(reqs) > 0 => reqs[1].op # "create"
    BY <1>3
  <2>4. Fresh(k) /\ o.st # "none" => Taken(k, o, reqs) \/ Excused(k, app'[c].n)
    BY <1>3, <1>6, <1>7
  <2> QED BY <2>1, <2>2, <2>3, <2>4, <1>2, <1>4, OwnRight
<1>13. Len(reqs) > 0 => reqs[1].op # "create"
  BY <1>3
<1> QED BY <1>1, <1>4, <1>6, <1>8, <1>9, <1>11, <1>12, <1>13, OngoingKeeps

-----------------------------------------------------------------------------
(* The beginning and the end of a context, and of a message.               *)

\* Names of contexts and of kinds are told apart, and so are the objects.
LEMMA NameFacts ==
  ASSUME Typed, NEW c \in Contexts
  PROVE  /\ kind[c] \in HostKinds <=> kind[c] \notin SeKinds
         /\ kind[c] \in HostKinds => ObjectOf(c) = c /\ c \notin SeKinds
         /\ kind[c] \in SeKinds => ObjectOf(c) = kind[c]
         /\ \A d \in Contexts : kind[d] = kind[c]
         /\ \A d \in Contexts : kind[c] \in HostKinds /\ d # c => ObjectOf(d) # ObjectOf(c)
<1>1. kind[c] \in AllKinds /\ \A d \in Contexts : kind[d] = kind[c]
  BY DEF Typed
<1>2. kind[c] \in HostKinds <=> kind[c] \notin SeKinds
  BY <1>1 DEF AllKinds, SeKinds, HostKinds, HostCiphers, MbedCiphers, MbedAes, MbedDes
<1>3. c \notin SeKinds
  BY ContextsAssumption DEF AllKinds
<1> QED BY <1>1, <1>2, <1>3 DEF ObjectOf

\* A context that is made.
LEMMA ContextInitKeeps ==
  ASSUME CInv, NEW c \in Contexts, ContextInit(c)
  PROVE  CInv'
<1> DEFINE k == kind[c]
           x == ctx[c]
           a == app[c]
           y == [x EXCEPT !.cache = IF k \in Ciphers THEN <<>> ELSE @]
           b == [a EXCEPT !.st = "ready"]
<1>1. /\ a.st = "none" /\ app' = [app EXCEPT ![c].st = "ready"]
      /\ ctx' = [ctx EXCEPT ![c].cache = IF k \in Ciphers THEN <<>> ELSE @]
      /\ object' = IF k \in HostKinds THEN [object EXCEPT ![c] = [NoObject EXCEPT !.st = "idle"]] ELSE object
      /\ done' = Nothing /\ UNCHANGED <<kind, forgotten, messages, faults>>
  BY DEF ContextInit, App
<1>2. Typed /\ OneOpen /\ NothingLeft /\ \A d \in Contexts : Right(d)
  BY DEF CInv
<1>3. x \in CtxTypes /\ a \in AppTypes
  BY <1>2, ObjectOfFacts
<1>4. /\ b \in AppTypes /\ app' = [app EXCEPT ![c] = b] /\ app'[c] = b /\ b.st = "ready"
      /\ \A d \in Contexts \ {c} : app'[d] = app[d]
  BY <1>1, <1>2, <1>3 DEF Typed, AppTypes
<1>5. /\ y \in CtxTypes /\ ctx' = [ctx EXCEPT ![c] = y] /\ ctx'[c] = y
      /\ y.id = x.id /\ (k \in Ciphers => y.cache = <<>>)
      /\ Len(y.cache) < Block /\ Len(y.buffer) <= y.total
      /\ \A d \in Contexts \ {c} : ctx'[d] = ctx[d]
  <2>1. <<>> \in Data /\ Len(<<>>) = 0 /\ Block > 0
    BY DataFacts, BlockFacts
  <2> QED BY <2>1, <1>1, <1>2, <1>3 DEF Typed, CtxTypes
<1>6. /\ object' \in [SeKinds \cup Contexts -> Objects]
      /\ \A d \in Contexts \ {c} : object'[ObjectOf(d)] = object[ObjectOf(d)]
      /\ \A i \in SeKinds : object'[i] = object[i]
  <2>1. [NoObject EXCEPT !.st = "idle"] \in Objects
    BY DataFacts, ContextsAssumption DEF NoObject, Objects
  <2>2. /\ k \in HostKinds => c \notin SeKinds /\ ObjectOf(c) = c
        /\ \A d \in Contexts : k \in HostKinds /\ d # c => ObjectOf(d) # c
    BY <1>2, NameFacts
  <2>3. \A d \in Contexts : ObjectOf(d) \in SeKinds \cup Contexts
    BY <1>2, ObjectOfFacts
  <2> QED BY <2>1, <2>2, <2>3, <1>1, <1>2 DEF Typed
<1>7. Typed'
  <2>1. ctx' \in [Contexts -> CtxTypes] /\ app' \in [Contexts -> AppTypes]
    BY <1>2, <1>4, <1>5 DEF Typed
  <2>2. \A d \in Contexts : Len(ctx'[d].cache) < Block /\ Len(ctx'[d].buffer) <= ctx'[d].total
    BY <1>2, <1>5 DEF Typed
  <2> QED BY <2>1, <2>2, <1>1, <1>2, <1>6 DEF Typed
<1>8. OneOpen'
  <2>1. \A d \in Contexts : Sharing(d)' = Sharing(d)
    BY <1>1 DEF Sharing, ObjectOf
  <2>2. SUFFICES ASSUME NEW d \in Contexts, NEW e \in Sharing(d), app'[d].st = "open", app'[e].st = "open"
                 PROVE  FALSE
    BY <2>1 DEF OneOpen
  <2>3. d # c /\ e # c /\ e \in Contexts
    BY <2>2, <1>4 DEF Sharing
  <2> QED BY <2>2, <2>3, <1>2, <1>4 DEF OneOpen
<1>9. NothingLeft'
  <2>1. \A d \in Contexts : ctx'[d].id = ctx[d].id
    BY <1>5
  <2>2. SUFFICES ASSUME NEW i \in SeKinds \ forgotten, object'[i].st # "none"
                 PROVE  \E d \in Contexts : kind[d] = i /\ ctx'[d].id
    BY <1>1 DEF NothingLeft
  <2>3. object[i].st # "none"
    BY <2>2, <1>6
  <2>4. PICK d \in Contexts : kind[d] = i /\ ctx[d].id
    BY <2>3, <1>2 DEF NothingLeft
  <2> QED BY <2>1, <2>4
<1>10. ASSUME NEW d \in Contexts \ {c}
       PROVE  Right(d)'
  BY <1>1, <1>2, <1>4, <1>5, <1>6, OthersKeep
<1>11. Right(c)'
  <2>1. Goes(k, y, b, object'[ObjectOf(c)]) /\ Rested(k, y, b) /\ Justified(k, b, object'[ObjectOf(c)], faults')
    BY <1>4, <1>5 DEF Goes, Rested, Justified
  <2>2. kind' = kind /\ ctx'[c] = y /\ app'[c] = b
    BY <1>1, <1>4, <1>5
  <2> HIDE DEF y, b
  <2> QED BY <2>1, <2>2 DEF Right, ObjectOf
<1> QED BY <1>1, <1>7, <1>8, <1>9, <1>10, <1>11, NothingDone DEF CInv

\* A context that is freed, with the object it knows.
LEMMA ContextFreeKeeps ==
  ASSUME CInv, NEW c \in Contexts, ContextFree(c)
  PROVE  CInv'
<1> DEFINE k == kind[c]
           O == ObjectOf(c)
           o == object[O]
           delete == Req("delete", <<>>, 0)
<1>1. Typed /\ OneOpen /\ NothingLeft /\ \A d \in Contexts : Right(d)
  BY DEF CInv
<1>2. PICK read \in BOOLEAN :
        LET there == k = "se_mac" \/ (read /\ o.st # "none")
            reqs == IF k \in HostKinds \/ (ctx[c].id /\ there) THEN <<delete>> ELSE <<>>
        IN  /\ ~ read => UsesList(c) /\ faults < MaxFaults
            /\ \E e \in Ends(c, reqs) :
                  /\ object' = [object EXCEPT ![O] = After(@, reqs, DidOf(reqs, e))]
                  /\ faults' = faults + e.faults + FaultOf(read)
                  /\ ctx' = [ctx EXCEPT ![c] = Known(c, e)]
            /\ forgotten' = IF read THEN forgotten ELSE forgotten \cup {k}
            /\ app' = [app EXCEPT ![c] = NotUsed]
            /\ done' = Nothing /\ UNCHANGED <<kind, messages>>
  BY DEF ContextFree
<1> DEFINE there == k = "se_mac" \/ (read /\ o.st # "none")
           asks == k \in HostKinds \/ (ctx[c].id /\ there)
<1>3. delete \in Requests /\ delete.op = "delete"
  <2>1. delete \in Requests
    BY RequestTypes, DataFacts, ContextsAssumption
  <2> QED BY <2>1 DEF Req
<1> HIDE DEF delete
<1>4. PICK reqs \in Seq(Requests) : reqs = IF asks THEN <<delete>> ELSE <<>>
  BY <1>3, OneRequest, EmptySeq
<1>5. PICK e \in Ends(c, reqs) :
        /\ object' = [object EXCEPT ![O] = After(@, reqs, DidOf(reqs, e))]
        /\ faults' = faults + e.faults + FaultOf(read)
        /\ ctx' = [ctx EXCEPT ![c] = Known(c, e)]
  BY <1>2, <1>4
<1>6. /\ ~ read => UsesList(c) /\ faults < MaxFaults
      /\ forgotten' = IF read THEN forgotten ELSE forgotten \cup {k}
      /\ app' = [app EXCEPT ![c] = NotUsed]
      /\ done' = Nothing /\ UNCHANGED <<kind, messages>>
  BY <1>2
<1>7. /\ k \in AllKinds /\ O \in SeKinds \cup Contexts /\ o \in Objects /\ ctx[c] \in CtxTypes
      /\ \A d \in Contexts : ObjectOf(d) \in SeKinds \cup Contexts
  BY <1>1, ObjectOfFacts
<1>8. faults \in 0 .. MaxFaults /\ MaxFaults \in Nat
  BY <1>1, ContextsAssumption DEF Typed
<1>9. /\ DidOf(reqs, e) \in 0 .. Len(reqs)
      /\ e.bad \in 0 .. Len(reqs) /\ e.faults \in {0, 1} /\ faults + e.faults \in 0 .. MaxFaults
      /\ e.bad = 0 => DidOf(reqs, e) = Len(reqs) /\ e.faults = 0
      /\ \A n \in 1 .. DidOf(reqs, e) : Takes(k, After(o, reqs, n - 1), reqs[n])
  BY <1>8, EndsFacts
<1>10. /\ asks => reqs = <<delete>> /\ Len(reqs) = 1
       /\ ~ asks => reqs = <<>> /\ Len(reqs) = 0
  BY <1>3, <1>4, OneRequest
<1> DEFINE p == After(o, reqs, DidOf(reqs, e))
<1>11. /\ p = o \/ p = NoObject
       /\ asks /\ e.bad = 0 => p = NoObject
  <2>1. After(o, reqs, 0) = o
    BY AfterSteps
  <2>2. asks => After(o, reqs, 1) = NoObject
    <3>1. After(o, <<delete>>, 1) = Does(o, delete)
      BY <1>3, OneRequest
    <3>2. Does(o, delete) = NoObject
      BY <1>3 DEF Does
    <3> QED BY <3>1, <3>2, <1>10
  <2>3. CASE asks
    <3>1. DidOf(reqs, e) \in 0 .. 1 /\ (e.bad = 0 => DidOf(reqs, e) = 1)
      BY <2>3, <1>9, <1>10
    <3>2. DidOf(reqs, e) = 0 \/ DidOf(reqs, e) = 1
      BY <3>1
    <3> QED BY <2>1, <2>2, <2>3, <3>1, <3>2
  <2>4. CASE ~ asks
    <3>1. DidOf(reqs, e) = 0
      BY <2>4, <1>9, <1>10
    <3> QED BY <2>1, <2>4, <3>1
  <2> QED BY <2>3, <2>4
<1>12. NoObject \in Objects /\ NoObject.st = "none"
  BY DataFacts, ContextsAssumption DEF NoObject, Objects
<1>13. object' = [object EXCEPT ![O] = p]
  BY <1>5
<1>14. ~ read => ~ asks /\ e.faults = 0
  <2>1. ~ read => k \in SeKinds \ {"se_mac"} /\ k \notin HostKinds
    BY <1>6 DEF UsesList, SeKinds, HostKinds, HostCiphers, MbedCiphers, MbedAes, MbedDes
  <2>2. ~ read => ~ asks
    BY <2>1
  <2>3. ~ asks => e.bad = 0
    BY <1>9, <1>10
  <2> QED BY <2>2, <2>3, <1>9
<1> HIDE DEF p
<1>15. /\ object' \in [SeKinds \cup Contexts -> Objects] /\ object'[O] = p
       /\ \A i \in SeKinds \cup Contexts : object'[i] = object[i] \/ object'[i] = NoObject
       /\ \A i \in SeKinds \cup Contexts : i # O => object'[i] = object[i]
  BY <1>1, <1>7, <1>11, <1>12, <1>13 DEF Typed
<1>16. faults' \in 0 .. MaxFaults /\ (faults' = 0 => faults = 0)
  <2>1. FaultOf(read) = IF read THEN 0 ELSE 1
    BY DEF FaultOf
  <2> HIDE DEF asks
  <2> QED BY <2>1, <1>5, <1>6, <1>8, <1>9, <1>14
<1> DEFINE y == Known(c, e)
<1>17. /\ y \in CtxTypes /\ Len(y.cache) < Block /\ Len(y.buffer) <= y.total
       /\ e.bad # 0 => y = ctx[c]
  <2>1. NewCtx \in CtxTypes /\ Len(NewCtx.cache) < Block /\ Len(NewCtx.buffer) <= NewCtx.total
    <3>1. <<>> \in Data /\ Len(<<>>) = 0 /\ Block > 0 /\ 0 \in 0 .. MaxTotal
      BY DataFacts, BlockFacts, ContextsAssumption
    <3> QED BY <3>1 DEF NewCtx, CtxTypes
  <2> QED BY <2>1, <1>1, <1>7 DEF Known, Typed
<1> HIDE DEF y
<1>18. /\ ctx' \in [Contexts -> CtxTypes] /\ ctx'[c] = y
       /\ \A d \in Contexts \ {c} : ctx'[d] = ctx[d]
  BY <1>1, <1>5, <1>17 DEF Typed, y
<1>19. NotUsed \in AppTypes /\ NotUsed.st = "none"
  BY ContextsAssumption DEF NotUsed, AppTypes
<1>20. /\ app' \in [Contexts -> AppTypes] /\ app'[c].st = "none"
       /\ \A d \in Contexts \ {c} : app'[d] = app[d]
  BY <1>1, <1>6, <1>19 DEF Typed
<1>21. Typed'
  <2>1. \A d \in Contexts : Len(ctx'[d].cache) < Block /\ Len(ctx'[d].buffer) <= ctx'[d].total
    BY <1>1, <1>17, <1>18 DEF Typed
  <2>2. forgotten' \subseteq SeKinds
    BY <1>1, <1>6 DEF Typed, UsesList
  <2> QED BY <2>1, <2>2, <1>1, <1>6, <1>15, <1>16, <1>18, <1>20 DEF Typed
<1>22. OneOpen'
  <2>1. \A d \in Contexts : Sharing(d)' = Sharing(d)
    BY <1>6 DEF Sharing, ObjectOf
  <2>2. SUFFICES ASSUME NEW d \in Contexts, NEW i \in Sharing(d), app'[d].st = "open", app'[i].st = "open"
                 PROVE  FALSE
    BY <2>1 DEF OneOpen
  <2>3. d # c /\ i # c /\ i \in Contexts
    BY <2>2, <1>20 DEF Sharing
  <2> QED BY <2>2, <2>3, <1>1, <1>20 DEF OneOpen
<1>23. NothingLeft'
  <2>1. SUFFICES ASSUME NEW i \in SeKinds, i \notin forgotten', object'[i].st # "none"
                 PROVE  \E d \in Contexts : kind[d] = i /\ ctx'[d].id
    BY <1>6 DEF NothingLeft
  <2>2. i \notin forgotten /\ object'[i] = object[i]
    BY <2>1, <1>6, <1>12, <1>15
  <2>3. PICK d \in Contexts : kind[d] = i /\ ctx[d].id
    BY <2>1, <2>2, <1>1 DEF NothingLeft
  <2>4. CASE d # c
    BY <2>3, <2>4, <1>18
  <2>5. CASE d = c
    <3>1. k = i /\ O = i /\ ctx[c].id /\ o.st # "none" /\ p.st # "none"
      BY <2>1, <2>2, <2>3, <2>5, <1>1, <1>15, NameFacts
    <3>2. read
      BY <3>1, <2>1, <1>6
    <3>3. asks
      BY <3>1, <3>2
    <3>4. e.bad # 0
      BY <3>1, <3>3, <1>11, <1>12
    <3> QED BY <3>1, <3>4, <1>17, <1>18
  <2> QED BY <2>4, <2>5
<1>24. ASSUME NEW d \in Contexts \ {c}
       PROVE  Right(d)'
  <2>1. /\ object'[ObjectOf(d)] = object[ObjectOf(d)] \/ object'[ObjectOf(d)].st = "none"
        /\ object[ObjectOf(d)].st = "none" => object'[ObjectOf(d)].st = "none"
    BY <1>7, <1>12, <1>15
  <2> QED BY <2>1, <1>1, <1>6, <1>16, <1>18, <1>20, OthersKeep
<1>25. Right(c)'
  BY <1>20 DEF Right, Goes, Rested, Justified
<1> QED BY <1>6, <1>21, <1>22, <1>23, <1>24, <1>25, NothingDone DEF CInv

\* A message that begins leaves alone what does not share its object, and the others fail.
LEMMA BeginFacts ==
  ASSUME CInv, NEW c \in Contexts, NEW want \in 0 .. MaxTotal, NEW st \in {"open", "failed", "refused"},
         Begin(c, want, st), kind' = kind, \A d \in Contexts \ {c} : ctx'[d] = ctx[d],
         \A i \in SeKinds \cup Contexts : i # ObjectOf(c) => object'[i] = object[i],
         faults' = 0 => faults = 0
  PROVE  /\ messages' \in 1 .. MaxMessages
         /\ app' \in [Contexts -> AppTypes]
         /\ app'[c] = [st |-> st, msg |-> messages', n |-> 0, aad |-> 0, want |-> want]
         /\ app[c].st = "ready" \/ kind[c] \in Restarts
         /\ OneOpen' /\ \A d \in Contexts \ {c} : Right(d)'
<1> DEFINE b == [st |-> st, msg |-> messages', n |-> 0, aad |-> 0, want |-> want]
<1>1. /\ app[c].st = "ready" \/ kind[c] \in Restarts
      /\ messages < MaxMessages /\ messages' = messages + 1
      /\ app' = [d \in Contexts |->
                   IF d = c THEN b
                   ELSE IF d \in Sharing(c) /\ app[d].st \in {"open", "refused"} THEN [app[d] EXCEPT !.st = "failed"]
                   ELSE app[d]]
  BY DEF Begin
<1>2. Typed /\ OneOpen /\ \A d \in Contexts : Right(d)
  BY DEF CInv
<1>3. messages' \in 1 .. MaxMessages
  BY <1>1, <1>2, ContextsAssumption DEF Typed
<1>4. b \in AppTypes
  BY <1>3, ContextsAssumption DEF AppTypes
<1> HIDE DEF b
<1>5. app'[c] = b
  BY <1>1
<1>6. ASSUME NEW d \in Contexts \ {c}
      PROVE  /\ app'[d] \in AppTypes
             /\ app'[d] = app[d] \/ app'[d].st = "failed"
             /\ app'[d].st \in {"open", "refused"} => app'[d] = app[d] /\ ObjectOf(d) # ObjectOf(c)
  <2>1. app'[d] = IF d \in Sharing(c) /\ app[d].st \in {"open", "refused"} THEN [app[d] EXCEPT !.st = "failed"]
                  ELSE app[d]
    BY <1>1
  <2>2. app[d] \in AppTypes /\ (d \in Sharing(c) <=> ObjectOf(d) = ObjectOf(c))
    BY <1>2, ObjectOfFacts
  <2>3. [app[d] EXCEPT !.st = "failed"] \in AppTypes /\ [app[d] EXCEPT !.st = "failed"].st = "failed"
    BY <2>2 DEF AppTypes
  <2>4. CASE d \in Sharing(c) /\ app[d].st \in {"open", "refused"}
    BY <2>1, <2>3, <2>4
  <2>5. CASE ~ (d \in Sharing(c) /\ app[d].st \in {"open", "refused"})
    BY <2>1, <2>2, <2>5
  <2> QED BY <2>4, <2>5
<1>7. app' \in [Contexts -> AppTypes]
  <2>1. \A d \in Contexts : app'[d] \in AppTypes
    BY <1>4, <1>5, <1>6
  <2> QED BY <2>1, <1>1
<1>8. OneOpen'
  <2>1. \A d \in Contexts : Sharing(d)' = Sharing(d)
    BY DEF Sharing, ObjectOf
  <2>2. SUFFICES ASSUME NEW d \in Contexts, NEW e \in Sharing(d), app'[d].st = "open", app'[e].st = "open"
                 PROVE  FALSE
    BY <2>1 DEF OneOpen
  <2>3. e \in Contexts /\ e # d /\ ObjectOf(e) = ObjectOf(d)
    BY DEF Sharing
  <2>4. d # c /\ e # c
    BY <2>2, <2>3, <1>6
  <2>5. app[d].st = "open" /\ app[e].st = "open"
    BY <2>2, <2>3, <2>4, <1>6
  <2> QED BY <2>5, <1>2 DEF OneOpen
<1>9. ASSUME NEW d \in Contexts \ {c}
      PROVE  Right(d)'
  <2>1. ObjectOf(d) \in SeKinds \cup Contexts
    BY <1>2, ObjectOfFacts
  <2>2. app'[d].st \in {"open", "refused"} => object'[ObjectOf(d)] = object[ObjectOf(d)]
    BY <2>1, <1>6
  <2> QED BY <2>2, <1>2, <1>6, OthersKeep
<1> QED BY <1>1, <1>3, <1>5, <1>7, <1>8, <1>9 DEF b

\* What is cached when a message begins: nothing, unless a cipher's context is not new.
LEMMA ForgetCacheFacts ==
  ASSUME CInv, NEW c \in Contexts, app[c].st = "ready" \/ kind[c] \in Restarts
  PROVE  /\ ForgetCache(c) \in Data /\ Len(ForgetCache(c)) < Block
         /\ kind[c] \notin Macs \cup {"host_ccm"} /\ Fresh(kind[c]) => ForgetCache(c) = <<>>
<1>1. Typed /\ Right(c) /\ ctx[c] \in CtxTypes /\ kind[c] \in AllKinds
  BY ObjectOfFacts DEF CInv
<1>2. <<>> \in Data /\ Len(<<>>) = 0 /\ Block > 0
  BY DataFacts, BlockFacts
<1>3. ForgetCache(c) = <<>> \/ (ForgetCache(c) = ctx[c].cache /\ kind[c] \notin Aeads \ {"host_ccm"})
  BY DEF ForgetCache
<1>4. ctx[c].cache \in Data /\ Len(ctx[c].cache) < Block
  BY <1>1 DEF Typed, CtxTypes
<1>5. ASSUME kind[c] \notin Macs \cup {"host_ccm"}, Fresh(kind[c]), kind[c] \notin Aeads \ {"host_ccm"}
      PROVE  ctx[c].cache = <<>>
  <2>1. kind[c] \in Ciphers
    BY <1>1, <1>5, KindFacts
  <2>2. app[c].st = "ready"
    BY <2>1, <1>5 DEF Fresh
  <2> QED BY <2>1, <2>2, <1>1 DEF Right, Rested
<1> QED BY <1>2, <1>3, <1>4, <1>5

\* What an object is when it was just started.
IsNew(o, want) == o.st = "live" /\ o.data = <<>> /\ o.aad = <<>> /\ o.want = want

\* An object after a request that starts a message.
LEMMA StartedIsNew ==
  ASSUME NEW o, NEW r \in Requests, r.op = "start"
  PROVE  IsNew(Does(o, r), r.want)
<1>1. Does(o, r) = [NoObject EXCEPT !.st = "live", !.want = r.want]
  BY DEF Does
<1> QED BY <1>1 DEF IsNew, NoObject

\* An object that was just started, and the context it was started for.
LEMMA StartedIsRight ==
  ASSUME NEW k \in AllKinds, NEW want \in 0 .. MaxTotal, NEW x, NEW a, NEW o,
         k \notin Macs \cup {"host_ccm"} /\ Fresh(k) => x.cache = <<>>,
         k = "mbedtls_gcm" => x.cache = <<>>, k = "host_ccm" => x.buffer = <<>> /\ x.total = want,
         a.msg \in 1 .. MaxMessages, a.n = 0, a.aad = 0, a.want = want,
         k \notin KeepLast => IsNew(o, want)
  PROVE  Goes(k, x, a, o)
<1>1. Units(a.msg, a.n) = <<>> /\ Units(a.msg, a.aad) = <<>>
  BY NoUnits
<1>2. k = "host_ccm" => InHand(k, x, a)
  BY <1>1 DEF InHand
<1>3. CASE k \in KeepLast
  BY <1>2, <1>3 DEF Goes, Waits, KeepLast
<1>4. CASE k \notin KeepLast
  <2>1. o.st = "live" /\ o.data = <<>> /\ o.aad = <<>> /\ o.want = want
    BY <1>4 DEF IsNew
  <2>2. Whole(Len(<<>>)) /\ <<>> \o <<>> = <<>>
    BY DataFacts, BlocksAreWhole
  <2>3. k # "host_ccm" /\ ~ Waits(k, a)
    BY <1>4 DEF KeepLast, Waits
  <2>4. Holds(k, x, a, o)
    BY <2>1, <2>2, <2>3, <1>1 DEF Holds
  <2> QED BY <2>3, <2>4 DEF Goes
<1> QED BY <1>3, <1>4

\* A message begins in a library.
LEMMA HostInitKeeps ==
  ASSUME CInv, NEW c \in Contexts, HostInit(c)
  PROVE  CInv'
<1> DEFINE k == kind[c]
           x == ctx[c]
           o == object[ObjectOf(c)]
<1>1. Typed /\ NothingLeft
  BY DEF CInv
<1>2. /\ k \in AllKinds /\ x \in CtxTypes /\ o \in Objects /\ ObjectOf(c) \in SeKinds \cup Contexts
  BY <1>1, ObjectOfFacts
<1>3. k \in HostKinds /\ done' = Nothing /\ UNCHANGED <<kind, forgotten>>
  BY DEF HostInit
<1>4. PICK want \in IF k \in Ccms THEN Announced ELSE {0}, e \in Ends(c, InitReqs(k)) :
        /\ Begin(c, want, Outcome(e, "open"))
        /\ Exchange(c, InitReqs(k), e)
        /\ ctx' = [ctx EXCEPT ![c] = [@ EXCEPT !.cache = ForgetCache(c), !.aad = <<>>,
                                               !.buffer = <<>>, !.total = want]]
  BY DEF HostInit
<1>5. want \in 0 .. MaxTotal /\ (k \notin Ccms => want = 0)
  BY <1>4, ContextsAssumption
<1>25. PICK w \in 0 .. MaxTotal : w = want
  BY <1>5
<1> DEFINE r == Req("start", <<>>, 0)
<1>6. r \in Requests /\ r.op = "start" /\ r.want = 0
  <2>1. r \in Requests
    BY RequestTypes, DataFacts, ContextsAssumption
  <2> QED BY <2>1 DEF Req
<1> HIDE DEF r
<1>7. PICK reqs \in Seq(Requests) : reqs = InitReqs(k)
  <2>1. <<>> \in Seq(Requests) /\ <<r>> \in Seq(Requests)
    BY <1>6, OneRequest, EmptySeq
  <2>2. InitReqs(k) = IF k \in KeepLast THEN <<>> ELSE <<r>>
    BY DEF InitReqs, r
  <2> QED BY <2>1, <2>2
<1>8. /\ k \in KeepLast => Len(reqs) = 0
      /\ k \notin KeepLast =>
           /\ Len(reqs) = 1 /\ reqs[1].op = "start"
           /\ IsNew(After(o, reqs, Len(reqs)), 0)
           /\ o.st # "none" => Taken(k, o, reqs)
  <2>1. CASE k \in KeepLast
    BY <2>1, <1>7 DEF InitReqs
  <2>2. CASE k \notin KeepLast
    <3>1. reqs = <<r>>
      BY <2>2, <1>7 DEF InitReqs, r
    <3>2. /\ Len(<<r>>) = 1 /\ <<r>>[1] = r /\ After(o, <<r>>, 1) = Does(o, r)
          /\ Taken(k, o, <<r>>) <=> Takes(k, o, r)
      BY <1>6, OneRequest
    <3>3. IsNew(Does(o, r), 0)
      BY <1>6, StartedIsNew
    <3>4. o.st # "none" => Takes(k, o, r)
      BY <1>6 DEF Takes
    <3> QED BY <2>2, <3>1, <3>2, <3>3, <3>4, <1>6
  <2> QED BY <2>1, <2>2
<1>9. PICK ee \in Ends(c, reqs) : ee = e
  BY <1>7
<1>10. Exchange(c, reqs, ee) /\ Begin(c, want, Outcome(ee, "open"))
  BY <1>4, <1>7, <1>9
<1>11. /\ object' \in [SeKinds \cup Contexts -> Objects]
       /\ \A i \in SeKinds \cup Contexts : i # ObjectOf(c) => object'[i] = object[i]
       /\ faults' \in 0 .. MaxFaults /\ (faults' = 0 => faults = 0)
  BY <1>1, <1>10, ExchangeFacts
<1>12. Outcome(ee, "open") \in {"open", "failed", "refused"}
  BY <1>1, OutcomeFacts DEF Typed
<1> DEFINE y == [x EXCEPT !.cache = ForgetCache(c), !.aad = <<>>, !.buffer = <<>>, !.total = want]
<1>13. ctx' = [ctx EXCEPT ![c] = y] /\ ctx'[c] = y /\ \A d \in Contexts \ {c} : ctx'[d] = ctx[d]
  BY <1>1, <1>4 DEF Typed
<1>14. PICK st \in {"open", "failed", "refused"} : st = Outcome(ee, "open")
  BY <1>12
<1>15. Begin(c, w, st)
  BY <1>10, <1>14, <1>25
<1>16. /\ messages' \in 1 .. MaxMessages
       /\ app' \in [Contexts -> AppTypes]
       /\ app'[c] = [st |-> st, msg |-> messages', n |-> 0, aad |-> 0, want |-> w]
       /\ app[c].st = "ready" \/ kind[c] \in Restarts
       /\ OneOpen' /\ \A d \in Contexts \ {c} : Right(d)'
  <2>1. kind' = kind
    BY <1>3
  <2> HIDE DEF y
  <2>2. \A d \in Contexts \ {c} : ctx'[d] = ctx[d]
    BY <1>13
  <2>3. \A i \in SeKinds \cup Contexts : i # ObjectOf(c) => object'[i] = object[i]
    BY <1>11
  <2>4. faults' = 0 => faults = 0
    BY <1>11
  <2> QED BY ZenonT(40), <2>1, <2>2, <2>3, <2>4, <1>15, BeginFacts
<1>17. /\ ForgetCache(c) \in Data /\ Len(ForgetCache(c)) < Block
       /\ k \notin Macs \cup {"host_ccm"} /\ Fresh(k) => ForgetCache(c) = <<>>
  BY <1>16, ForgetCacheFacts
<1>18. /\ y \in CtxTypes /\ y.cache = ForgetCache(c) /\ y.buffer = <<>> /\ y.total = w /\ y.id = x.id
       /\ Len(y.cache) < Block /\ Len(y.buffer) <= y.total
  <2>1. <<>> \in Data /\ Len(<<>>) = 0
    BY DataFacts
  <2>3. x.id \in BOOLEAN /\ w >= 0
    BY <1>2, ContextsAssumption DEF CtxTypes
  <2>4. PICK cache \in Data : cache = ForgetCache(c)
    BY <1>17
  <2>2. PICK z \in CtxTypes : z = x
    BY <1>2
  <2>6. y = [z EXCEPT !.cache = cache, !.aad = <<>>, !.buffer = <<>>, !.total = w]
    BY <2>2, <2>4, <1>25
  <2> HIDE DEF x, y
  <2>5. /\ y.cache = cache /\ y.buffer = <<>> /\ y.total = w /\ y.id = z.id
        /\ y \in CtxTypes
    BY <2>1, <2>6 DEF CtxTypes
  <2> QED BY <2>1, <2>2, <2>3, <2>4, <2>5, <1>17
<1> HIDE DEF y
<1>19. Typed'
  <2>1. ctx' \in [Contexts -> CtxTypes]
    BY <1>1, <1>13, <1>18 DEF Typed
  <2>2. \A d \in Contexts : Len(ctx'[d].cache) < Block /\ Len(ctx'[d].buffer) <= ctx'[d].total
    BY <1>1, <1>13, <1>18 DEF Typed
  <2>3. messages' \in 0 .. MaxMessages
    BY <1>16
  <2> QED BY <2>1, <2>2, <2>3, <1>1, <1>3, <1>11, <1>16 DEF Typed
<1>20. NothingLeft'
  <2>1. \A d \in Contexts : ctx'[d].id = ctx[d].id
    BY <1>13, <1>18 DEF x
  <2>2. SUFFICES ASSUME NEW i \in SeKinds \ forgotten, object'[i].st # "none"
                 PROVE  \E d \in Contexts : kind[d] = i /\ ctx'[d].id
    BY <1>3 DEF NothingLeft
  <2>3. ObjectOf(c) # i
    BY <1>1, <1>3, NameFacts
  <2>4. object[i].st # "none"
    BY <2>2, <2>3, <1>11
  <2>5. PICK d \in Contexts : kind[d] = i /\ ctx[d].id
    BY <2>4, <1>1 DEF NothingLeft
  <2> QED BY <2>1, <2>5
<1>21. Right(c)'
  <2> DEFINE b == app'[c]
             p == After(o, reqs, Len(reqs))
  <2>1. b.st = st /\ b.msg \in 1 .. MaxMessages /\ b.n = 0 /\ b.aad = 0 /\ b.want = w
    BY <1>16
  <2>2. k = "mbedtls_gcm" => y.cache = <<>>
    <3>1. k = "mbedtls_gcm" => k \notin Macs \cup {"host_ccm"} /\ Fresh(k)
      BY DEF Macs, Fresh, Ciphers, HostCiphers, MbedCiphers, MbedAes, MbedDes
    <3> QED BY <3>1, <1>17, <1>18
  <2>3. k \notin KeepLast => w = 0
    BY <1>3, <1>5, <1>25 DEF KeepLast, Ccms, HostKinds, HostCiphers, MbedCiphers, MbedAes, MbedDes
  <2> HIDE DEF b, p, x, o, k
  <2>4. Goes(k, y, b, p)
    <3>1. k \notin Macs \cup {"host_ccm"} /\ Fresh(k) => y.cache = <<>>
      BY <1>17, <1>18
    <3>2. k = "host_ccm" => y.buffer = <<>> /\ y.total = w
      BY <1>18
    <3>3. k \notin KeepLast => IsNew(p, w)
      BY <2>3, <1>8 DEF p
    <3> QED BY <3>1, <3>2, <3>3, <2>1, <2>2, <1>2, <1>5, StartedIsRight
  <2>5. b.st = "open" => Rested(k, y, b)
    BY DEF Rested
  <2>6. Fresh(k) /\ o.st # "none" => Taken(k, o, reqs)
    BY <1>8 DEF Taken
  <2>7. Len(reqs) > 0 => reqs[1].op # "create"
    BY <1>8
  <2>8. kind' = kind /\ k = kind[c] /\ o = object[ObjectOf(c)] /\ app'[c].st = Outcome(ee, "open")
    BY <2>1, <1>3, <1>14 DEF k, o, b
  <2>9. app'[c].st = "open" /\ Taken(k, o, reqs) =>
          Goes(k, ctx'[c], app'[c], After(o, reqs, Len(reqs))) /\ Rested(k, ctx'[c], app'[c])
    BY <2>4, <2>5, <1>13 DEF b, p
  <2> QED BY <2>6, <2>7, <2>8, <2>9, <1>1, <1>10, OwnRight
<1> QED BY <1>3, <1>16, <1>19, <1>20, <1>21, NothingDone DEF CInv

\* The requests that start a message on the SE: they make the object if it is not there.
LEMMA StartFacts ==
  ASSUME NEW o \in Objects, NEW k, NEW w \in 0 .. MaxTotal, NEW there \in BOOLEAN
  PROVE  \E reqs \in Seq(Requests) :
            /\ reqs = (IF there THEN <<>> ELSE <<Req("create", <<>>, 0)>>) \o <<Req("start", <<>>, w)>>
            /\ IsNew(After(o, reqs, Len(reqs)), w)
            /\ (there <=> o.st # "none") => Taken(k, o, reqs)
<1> DEFINE q == Req("create", <<>>, 0)
           r == Req("start", <<>>, w)
<1>1. q \in Requests /\ q.op = "create" /\ r \in Requests /\ r.op = "start" /\ r.want = w
  <2>1. q \in Requests /\ r \in Requests
    BY RequestTypes, DataFacts, ContextsAssumption
  <2> QED BY <2>1 DEF Req
<1> HIDE DEF q, r
<1>2. CASE there
  <2>1. <<>> \o <<r>> = <<r>> /\ <<r>> \in Seq(Requests)
    BY <1>1, ConcatEmptySeq
  <2>2. PICK reqs \in Seq(Requests) : reqs = <<r>>
    BY <2>1
  <2>3. /\ Len(reqs) = 1 /\ After(o, reqs, 1) = Does(o, r)
        /\ Taken(k, o, reqs) <=> Takes(k, o, r)
    BY <2>2, <1>1, OneRequest
  <2>4. IsNew(Does(o, r), w)
    BY <1>1, StartedIsNew
  <2>5. o.st # "none" => Takes(k, o, r)
    BY <1>1 DEF Takes
  <2>6. reqs = (IF there THEN <<>> ELSE <<q>>) \o <<r>>
    BY <2>1, <2>2, <1>2
  <2> QED BY <2>3, <2>4, <2>5, <2>6, <1>2 DEF q, r
<1>3. CASE ~ there
  <2>1. <<q>> \o <<r>> = <<q, r>> /\ <<q, r>> \in Seq(Requests)
    <3>1. PICK s \in Seq(Requests), t \in Seq(Requests), both \in Seq(Requests) :
             s = <<q>> /\ t = <<r>> /\ both = <<q, r>>
      BY <1>1, OneRequest, TwoRequests
    <3>2. Len(s) = 1 /\ s[1] = q /\ Len(t) = 1 /\ t[1] = r /\ Len(both) = 2 /\ both[1] = q /\ both[2] = r
      BY <3>1
    <3>3. s \o t \in Seq(Requests) /\ Len(s \o t) = 2 /\ (s \o t)[1] = q /\ (s \o t)[2] = r
      <4>1. s \o t \in Seq(Requests) /\ Len(s \o t) = Len(s) + Len(t)
        BY ConcatProperties
      <4>2. \A i \in 1 .. Len(s) + Len(t) : (s \o t)[i] = IF i <= Len(s) THEN s[i] ELSE t[i - Len(s)]
        BY ConcatProperties
      <4>3. (s \o t)[1] = s[1]
        <5>1. 1 \in 1 .. Len(s) + Len(t) /\ 1 <= Len(s)
          BY <3>2
        <5> QED BY ONLY <4>2, <5>1
      <4>4. (s \o t)[2] = t[2 - 1]
        BY <4>2, <3>2
      <4> QED BY <4>1, <4>3, <4>4, <3>2
    <3>4. \A i \in 1 .. 2 : (s \o t)[i] = both[i]
      <4>1. ASSUME NEW i \in 1 .. 2 PROVE i = 1 \/ i = 2
        OBVIOUS
      <4> QED BY <4>1, <3>2, <3>3
    <3>5. s \o t = both
      BY <3>2, <3>3, <3>4, SeqEqual
    <3> QED BY <3>1, <3>5
  <2>2. PICK reqs \in Seq(Requests) : reqs = <<q, r>>
    BY <2>1
  <2> DEFINE p == Does(o, q)
  <2>3. /\ Len(reqs) = 2 /\ After(o, reqs, 2) = Does(p, r)
        /\ Taken(k, o, reqs) <=> Takes(k, o, q) /\ Takes(k, p, r)
    BY <2>2, <1>1, TwoRequests
  <2>4. IsNew(Does(p, r), w)
    BY <1>1, StartedIsNew
  <2>5. p.st = "idle"
    BY <1>1 DEF Does, NoObject
  <2>6. o.st = "none" => Takes(k, o, q)
    BY <1>1 DEF Takes
  <2> HIDE DEF p
  <2>7. Takes(k, p, r)
    BY <2>5, <1>1 DEF Takes
  <2>8. reqs = (IF there THEN <<>> ELSE <<q>>) \o <<r>>
    BY <2>1, <2>2, <1>3
  <2> QED BY <2>3, <2>4, <2>6, <2>7, <2>8, <1>3 DEF q, r
<1> QED BY <1>2, <1>3

\* What the start of a message on the SE can do: fail, or give it a new object.
LEMMA SeStartFacts ==
  ASSUME Typed, NEW c \in Contexts, SeInit(c)
  PROVE  \E w \in 0 .. MaxTotal, st \in {"open", "failed", "refused"} :
            /\ Begin(c, w, st)
            /\ object' \in [SeKinds \cup Contexts -> Objects]
            /\ \A i \in SeKinds \cup Contexts : i # kind[c] => object'[i] = object[i]
            /\ faults' \in 0 .. MaxFaults /\ (faults' = 0 => faults = 0 /\ st # "refused")
            /\ st = "open" => IsNew(object'[kind[c]], w)
<1> DEFINE k == kind[c]
           o == object[k]
<1>1. k \in SeKinds /\ ObjectOf(c) = k /\ k \in SeKinds \cup Contexts /\ o \in Objects
  BY DEF SeInit, ObjectOf, Typed
<1>2. faults \in 0 .. MaxFaults /\ MaxFaults \in Nat
  BY ContextsAssumption DEF Typed
<1>3. PICK want \in (IF k \in Ccms THEN Announced ELSE {0}), read \in BOOLEAN :
        LET there == read /\ o.st # "none"
            reqs == (IF there THEN <<>> ELSE <<Req("create", <<>>, 0)>>) \o <<Req("start", <<>>, want)>>
        IN  \/ /\ ~ read /\ faults < MaxFaults /\ faults' = faults + 1
               /\ Begin(c, want, "failed")
               /\ UNCHANGED object
            \/ \E e \in Ends(c, reqs) :
                  /\ faults + e.faults + FaultOf(read) <= MaxFaults
                  /\ Begin(c, want, Outcome(e, "open"))
                  /\ object' = [object EXCEPT ![k] = After(@, reqs, DidOf(reqs, e))]
                  /\ faults' = faults + e.faults + FaultOf(read)
  BY DEF SeInit
<1>4. PICK w \in 0 .. MaxTotal : w = want
  <2>1. want \in Announced \/ want = 0
    BY <1>3
  <2>2. want \in 0 .. MaxTotal
    <3>1. MaxTotal \in Nat /\ Announced \subseteq 1 .. MaxTotal
      BY ContextsAssumption
    <3>2. 0 \in 0 .. MaxTotal /\ 1 .. MaxTotal \subseteq 0 .. MaxTotal
      BY ONLY <3>1
    <3> QED BY ONLY <2>1, <3>1, <3>2
  <2> QED BY <2>2
<1>5. PICK there \in BOOLEAN : there <=> read /\ o.st # "none"
  OBVIOUS
<1> HIDE DEF k, o
<1>6. PICK reqs \in Seq(Requests) :
         /\ reqs = (IF there THEN <<>> ELSE <<Req("create", <<>>, 0)>>) \o <<Req("start", <<>>, w)>>
         /\ IsNew(After(o, reqs, Len(reqs)), w)
         /\ (there <=> o.st # "none") => Taken(k, o, reqs)
  BY <1>1, StartFacts
<1>7. FaultOf(read) = IF read THEN 0 ELSE 1
  BY DEF FaultOf
<1>8. \/ faults < MaxFaults /\ faults' = faults + 1 /\ Begin(c, w, "failed") /\ object' = object
      \/ \E e \in Ends(c, reqs) :
            /\ faults + e.faults + FaultOf(read) <= MaxFaults
            /\ Begin(c, w, Outcome(e, "open"))
            /\ object' = [object EXCEPT ![k] = After(@, reqs, DidOf(reqs, e))]
            /\ faults' = faults + e.faults + FaultOf(read)
  BY <1>3, <1>4, <1>5, <1>6
<1>9. CASE faults < MaxFaults /\ faults' = faults + 1 /\ Begin(c, w, "failed") /\ object' = object
  <2>1. faults' \in 0 .. MaxFaults /\ faults' # 0
    BY <1>2, <1>9
  <2>2. object' \in [SeKinds \cup Contexts -> Objects]
    BY <1>9 DEF Typed
  <2> QED BY <2>1, <2>2, <1>9
<1>10. ASSUME NEW e \in Ends(c, reqs),
              faults + e.faults + FaultOf(read) <= MaxFaults, Begin(c, w, Outcome(e, "open")),
              object' = [object EXCEPT ![k] = After(@, reqs, DidOf(reqs, e))],
              faults' = faults + e.faults + FaultOf(read)
       PROVE  \E st \in {"open", "failed", "refused"} :
                /\ Begin(c, w, st)
                /\ object' \in [SeKinds \cup Contexts -> Objects]
                /\ \A i \in SeKinds \cup Contexts : i # kind[c] => object'[i] = object[i]
                /\ faults' \in 0 .. MaxFaults /\ (faults' = 0 => faults = 0 /\ st # "refused")
                /\ st = "open" => IsNew(object'[kind[c]], w)
  <2> DEFINE did == DidOf(reqs, e)
             p == After(o, reqs, did)
  <2>1. /\ did \in 0 .. Len(reqs) /\ e.bad \in 0 .. Len(reqs) /\ e.faults \in {0, 1}
        /\ e.bad = 0 => did = Len(reqs) /\ e.faults = 0
        /\ e.bad # 0 /\ e.faults = 0 =>
             /\ e.bad \in 1 .. Len(reqs)
             /\ ~ Takes(k, After(o, reqs, e.bad - 1), reqs[e.bad])
    BY <1>1, <1>2, EndsFacts DEF k, o
  <2>2. PICK st \in {"open", "failed", "refused"} :
           /\ st = Outcome(e, "open") /\ (st = "open" <=> e.bad = 0)
           /\ st = "refused" <=> e.bad # 0 /\ e.faults = 0
    BY <1>2, OutcomeFacts
  <2> HIDE DEF did
  <2>3. p \in Objects
    BY <2>1, <1>1, AfterTyped
  <2>4. st = "open" => IsNew(p, w)
    BY <2>1, <2>2, <1>6
  <2> HIDE DEF p
  <2>5. object' = [object EXCEPT ![k] = p]
    BY <1>10 DEF p, did, o
  <2>6. /\ object' \in [SeKinds \cup Contexts -> Objects] /\ object'[k] = p
        /\ \A i \in SeKinds \cup Contexts : i # k => object'[i] = object[i]
    BY <2>3, <2>5, <1>1 DEF Typed
  <2>7. faults' \in 0 .. MaxFaults /\ (faults' = 0 => faults = 0 /\ e.faults = 0 /\ read)
    BY <2>1, <1>2, <1>7, <1>10
  <2>8. st = "refused" => faults' # 0
    <3>1. SUFFICES ASSUME st = "refused", faults' = 0 PROVE FALSE
      OBVIOUS
    <3>2. e.bad # 0 /\ e.faults = 0 /\ read
      BY <3>1, <2>2, <2>7
    <3>3. Taken(k, o, reqs)
      BY <3>2, <1>5, <1>6
    <3> QED BY <3>2, <3>3, <2>1 DEF Taken
  <2>9. Begin(c, w, st)
    BY <2>2, <1>10
  <2> QED BY <2>4, <2>6, <2>7, <2>8, <2>9 DEF k
<1> QED BY <1>8, <1>9, <1>10

\* A message begins on the SE.
LEMMA SeInitKeeps ==
  ASSUME CInv, NEW c \in Contexts, SeInit(c)
  PROVE  CInv'
<1> DEFINE k == kind[c]
           x == ctx[c]
<1>1. Typed /\ NothingLeft
  BY DEF CInv
<1>2. /\ k \in SeKinds /\ k \in AllKinds /\ x \in CtxTypes /\ ObjectOf(c) = k
      /\ \A d \in Contexts : kind[d] = k
  <2>1. k \in SeKinds
    BY DEF SeInit
  <2> QED BY <2>1, <1>1, ObjectOfFacts, NameFacts
<1>3. /\ done' = Nothing /\ kind' = kind /\ forgotten' = forgotten \ {k}
      /\ ctx' = [ctx EXCEPT ![c].id = TRUE, ![c].cache = ForgetCache(c)]
  BY DEF SeInit
<1>4. PICK w \in 0 .. MaxTotal, st \in {"open", "failed", "refused"} :
         /\ Begin(c, w, st)
         /\ object' \in [SeKinds \cup Contexts -> Objects]
         /\ \A i \in SeKinds \cup Contexts : i # k => object'[i] = object[i]
         /\ faults' \in 0 .. MaxFaults /\ (faults' = 0 => faults = 0 /\ st # "refused")
         /\ st = "open" => IsNew(object'[k], w)
  BY <1>1, SeStartFacts
<1> DEFINE y == [x EXCEPT !.id = TRUE, !.cache = ForgetCache(c)]
<1>5. ctx' = [ctx EXCEPT ![c] = y] /\ ctx'[c] = y /\ \A d \in Contexts \ {c} : ctx'[d] = ctx[d]
  BY <1>1, <1>3 DEF Typed
<1> HIDE DEF y
<1>6. /\ messages' \in 1 .. MaxMessages
      /\ app' \in [Contexts -> AppTypes]
      /\ app'[c] = [st |-> st, msg |-> messages', n |-> 0, aad |-> 0, want |-> w]
      /\ app[c].st = "ready" \/ kind[c] \in Restarts
      /\ OneOpen' /\ \A d \in Contexts \ {c} : Right(d)'
  <2>1. \A i \in SeKinds \cup Contexts : i # ObjectOf(c) => object'[i] = object[i]
    BY <1>2, <1>4
  <2>2. faults' = 0 => faults = 0
    BY <1>4
  <2>3. Begin(c, w, st)
    BY <1>4
  <2>4. kind' = kind
    BY <1>3
  <2>5. \A d \in Contexts \ {c} : ctx'[d] = ctx[d]
    BY <1>5
  <2> QED BY ZenonT(40), <2>1, <2>2, <2>3, <2>4, <2>5, BeginFacts
<1>7. /\ ForgetCache(c) \in Data /\ Len(ForgetCache(c)) < Block
      /\ k \notin Macs \cup {"host_ccm"} /\ Fresh(k) => ForgetCache(c) = <<>>
  BY <1>6, ForgetCacheFacts
<1>8. /\ y \in CtxTypes /\ y.cache = ForgetCache(c) /\ y.id
      /\ Len(y.cache) < Block /\ Len(y.buffer) <= y.total
  <2>1. PICK cache \in Data : cache = ForgetCache(c)
    BY <1>7
  <2>2. PICK z \in CtxTypes : z = x /\ Len(z.buffer) <= z.total
    BY <1>1, <1>2 DEF Typed
  <2>3. y = [z EXCEPT !.id = TRUE, !.cache = cache]
    BY <2>1, <2>2 DEF y
  <2>4. y \in CtxTypes /\ y.cache = cache /\ y.id = TRUE /\ y.buffer = z.buffer /\ y.total = z.total
    BY <2>3 DEF CtxTypes
  <2> QED BY <2>1, <2>2, <2>4, <1>7
<1>9. Typed'
  <2>1. ctx' \in [Contexts -> CtxTypes]
    BY <1>1, <1>5, <1>8 DEF Typed
  <2>2. \A d \in Contexts : Len(ctx'[d].cache) < Block /\ Len(ctx'[d].buffer) <= ctx'[d].total
    BY <1>1, <1>5, <1>8 DEF Typed
  <2>3. messages' \in 0 .. MaxMessages /\ forgotten' \subseteq SeKinds
    BY <1>1, <1>3, <1>6 DEF Typed
  <2> QED BY <2>1, <2>2, <2>3, <1>1, <1>3, <1>4, <1>6 DEF Typed
<1>10. NothingLeft'
  <2>1. SUFFICES ASSUME NEW i \in SeKinds, i \notin forgotten', object'[i].st # "none"
                 PROVE  \E d \in Contexts : kind[d] = i /\ ctx'[d].id
    BY <1>3 DEF NothingLeft
  <2>2. CASE i = k
    BY <2>2, <1>5, <1>8
  <2>3. CASE i # k
    <3>1. i \notin forgotten /\ object[i].st # "none"
      BY <2>1, <2>3, <1>3, <1>4
    <3>2. \E d \in Contexts : kind[d] = i
      BY <3>1, <1>1 DEF NothingLeft
    <3> QED BY <3>2, <2>3, <1>2
  <2> QED BY <2>2, <2>3
<1>11. Right(c)'
  <2> DEFINE b == app'[c]
             p == object'[k]
  <2>1. b.st = st /\ b.msg \in 1 .. MaxMessages /\ b.n = 0 /\ b.aad = 0 /\ b.want = w
    BY <1>6
  <2>2. k # "mbedtls_gcm" /\ k # "host_ccm"
    BY <1>2 DEF SeKinds
  <2>3. ObjectOf(c)' = k
    BY <1>2, <1>3 DEF ObjectOf
  <2> HIDE DEF b, p, x
  <2>4. b.st = "open" => Goes(k, y, b, p)
    <3>1. k \notin Macs \cup {"host_ccm"} /\ Fresh(k) => y.cache = <<>>
      BY <1>7, <1>8
    <3>2. b.st = "open" => IsNew(p, w)
      BY <2>1, <1>4 DEF p
    <3> QED BY <3>1, <3>2, <2>1, <2>2, <1>2, StartedIsRight
  <2>5. Goes(k, y, b, p)
    BY <2>4 DEF Goes
  <2>6. Rested(k, y, b)
    BY <2>1 DEF Rested
  <2>7. Justified(k, b, p, faults')
    BY <2>1, <1>4 DEF Justified
  <2> QED BY <2>3, <2>5, <2>6, <2>7, <1>3, <1>5 DEF Right, b, p
<1> QED BY <1>3, <1>6, <1>9, <1>10, <1>11, NothingDone DEF CInv

-----------------------------------------------------------------------------
(* The theorems.                                                           *)

\* At the start nothing is made, given or cached.
LEMMA InitRight ==
  ASSUME Init
  PROVE  CInv
<1>1. PICK k \in Kinds : kind = [c \in Contexts |-> k]
  BY DEF Init
<1>2. /\ ctx = [c \in Contexts |-> NewCtx] /\ object = [o \in SeKinds \cup Contexts |-> NoObject]
      /\ app = [c \in Contexts |-> NotUsed]
      /\ done = Nothing /\ forgotten = {} /\ messages = 0 /\ faults = 0
  BY DEF Init
<1>3. k \in AllKinds /\ <<>> \in Data /\ Len(<<>>) = 0 /\ Block > 0
      /\ 0 \in 0 .. MaxTotal /\ 0 \in 0 .. MaxAad /\ 0 \in 0 .. MaxMessages /\ 0 \in 0 .. MaxFaults
  BY <1>1, ContextsAssumption, DataFacts, BlockFacts
<1>4. NewCtx \in CtxTypes /\ Len(NewCtx.cache) < Block /\ Len(NewCtx.buffer) <= NewCtx.total
  BY <1>3 DEF NewCtx, CtxTypes
<1>5. NotUsed \in AppTypes /\ NotUsed.st = "none"
  BY <1>3 DEF NotUsed, AppTypes
<1>6. NoObject \in Objects /\ NoObject.st = "none"
  BY <1>3 DEF NoObject, Objects
<1>7. Typed
  BY <1>1, <1>2, <1>3, <1>4, <1>5, <1>6 DEF Typed
<1>8. \A c \in Contexts : app[c].st = "none"
  BY <1>2, <1>5
<1>9. OneOpen /\ \A c \in Contexts : Right(c)
  BY <1>8 DEF OneOpen, Right, Goes, Rested, Justified
<1>10. NothingLeft
  BY <1>2, <1>6 DEF NothingLeft
<1>11. DoneRight
  BY <1>2 DEF DoneRight, ExactMessage, ExactAad, Nothing
<1> QED BY <1>7, <1>9, <1>10, <1>11 DEF CInv

\* Every step keeps the invariant.
LEMMA NextKeeps ==
  ASSUME CInv, [Next]_vars
  PROVE  CInv'
<1>1. UpdateSizes \subseteq Nat /\ \A n \in AadSizes : n \in Nat /\ n > 0
  BY ContextsAssumption
<1>2. CASE UNCHANGED vars
  BY <1>2 DEF vars, CInv, Typed, OneOpen, Sharing, ObjectOf, DoneRight, ExactMessage, ExactAad, NothingLeft,
              Right
<1>3. CASE Next
  <2>1. PICK c \in Contexts :
           \/ ContextInit(c) \/ SeInit(c) \/ HostInit(c) \/ FinishTooLong(c) \/ ContextFree(c)
           \/ \E n \in AadSizes : UpdateAad(c, n)
           \/ \E n \in UpdateSizes :
                 UpdateShort(c, n) \/ UpdateBlocks(c, n) \/ UpdateMac(c, n) \/ UpdateCcm(c, n)
           \/ \E n \in {0} \cup UpdateSizes : Finish(c, n)
    BY <1>3 DEF Next
  <2>2. CASE ContextInit(c)
    BY <2>2, ContextInitKeeps
  <2>3. CASE SeInit(c)
    BY <2>3, SeInitKeeps
  <2>4. CASE HostInit(c)
    BY <2>4, HostInitKeeps
  <2>5. CASE FinishTooLong(c)
    BY <2>5, FinishTooLongKeeps
  <2>6. CASE ContextFree(c)
    BY <2>6, ContextFreeKeeps
  <2>7. ASSUME NEW n \in AadSizes, UpdateAad(c, n)
        PROVE  CInv'
    BY <2>7, <1>1, UpdateAadKeeps
  <2>8. ASSUME NEW n \in UpdateSizes,
               UpdateShort(c, n) \/ UpdateBlocks(c, n) \/ UpdateMac(c, n) \/ UpdateCcm(c, n)
        PROVE  CInv'
    <3>1. n \in Nat
      BY <1>1
    <3>2. CASE UpdateShort(c, n)
      BY <3>1, <3>2, UpdateShortKeeps
    <3>3. CASE UpdateBlocks(c, n)
      BY <3>1, <3>3, UpdateBlocksKeeps
    <3>4. CASE UpdateMac(c, n)
      BY <3>1, <3>4, UpdateMacKeeps
    <3>5. CASE UpdateCcm(c, n)
      BY <3>1, <3>5, UpdateCcmKeeps
    <3> QED BY <2>8, <3>2, <3>3, <3>4, <3>5
  <2>9. ASSUME NEW n \in {0} \cup UpdateSizes, Finish(c, n)
        PROVE  CInv'
    BY <2>9, <1>1, FinishKeeps
  <2> QED BY <2>1, <2>2, <2>3, <2>4, <2>5, <2>6, <2>7, <2>8, <2>9
<1> QED BY <1>2, <1>3

\* The invariant on which the theorems rest: of the contexts that share an object one has a
\* message that goes on, and what that object holds and what the context caches are what the
\* application gave so far, cut where a block ends.
THEOREM ContextsAreRight == Spec => []CInv
<1>1. Init => CInv
  BY InitRight
<1>2. CInv /\ [Next]_vars => CInv'
  BY NextKeeps
<1> QED BY <1>1, <1>2, PTL DEF Spec

\* The state stays well formed. Above all no cache ever holds a whole block and no buffer of
\* CCM more than was announced, whatever fails: sss_se05x_cipher_update and its siblings copy
\* into arrays of just that size.
THEOREM CachesStayShort == Spec => []TypeOK
<1>1. CInv => TypeOK
  <2>1. SUFFICES ASSUME Typed PROVE TypeOK
    BY DEF CInv
  <2> QED BY <2>1 DEF Typed, TypeOK, CtxTypes, AppTypes, Objects
<1> QED BY <1>1, ContextsAreRight, PTL

\* A message that finishes with success was processed as it was given, for any size of
\* block, of APDU and of pieces, any faults and any other users of the crypto object. Ciphers
\* are left out whose context starts a new message without being made anew: cipher_init does
\* not empty the cache.
THEOREM MessagesAreExact == Restarts \cap Ciphers = {} => (Spec => []ExactMessage)
<1>1. ASSUME Restarts \cap Ciphers = {}
      PROVE  CInv => ExactMessage
  BY <1>1 DEF CInv, DoneRight
<1>2. CASE Restarts \cap Ciphers = {}
  <2>1. CInv => ExactMessage
    BY <1>1, <1>2
  <2> QED BY <2>1, ContextsAreRight, PTL
<1> QED BY <1>2

\* And so was its additional data, except where it comes in several pieces to a library that
\* counts the last of them alone: mbed TLS's GCM and the CCM of both.
THEOREM AadIsExact == AadInChunks \cap KeepLast = {} => (Spec => []ExactAad)
<1>1. ASSUME AadInChunks \cap KeepLast = {}
      PROVE  CInv => ExactAad
  BY <1>1 DEF CInv, DoneRight
<1>2. CASE AadInChunks \cap KeepLast = {}
  <2>1. CInv => ExactAad
    BY <1>1, <1>2
  <2> QED BY <2>1, ContextsAreRight, PTL
<1> QED BY <1>2

\* Without a fault the SE and the libraries refuse nothing that the code asks of them in an
\* update or at the end of a message, under the same condition: what reaches them are whole
\* blocks and last pieces in the order they take them.
THEOREM NothingIsRefused == Restarts \cap Ciphers = {} => (Spec => []NotRefused)
<1>1. ASSUME Restarts \cap Ciphers = {}
      PROVE  CInv => NotRefused
  <2>1. SUFFICES ASSUME CInv, NEW c \in Contexts, app[c].st = "refused", faults = 0
                 PROVE  Excused(kind[c], app[c].n) \/ object[ObjectOf(c)].st = "none"
    BY DEF NotRefused, Excused
  <2>2. Fresh(kind[c])
    BY <1>1 DEF Fresh
  <2>3. Justified(kind[c], app[c], object[ObjectOf(c)], faults)
    BY <2>1 DEF CInv, Right
  <2> QED BY <2>1, <2>2, <2>3 DEF Justified
<1>2. CASE Restarts \cap Ciphers = {}
  <2>1. CInv => NotRefused
    BY <1>1, <1>2
  <2> QED BY <2>1, ContextsAreRight, PTL
<1> QED BY <1>2

\* No crypto object is left on the SE that no context knows, whichever create, start or
\* delete fails after the SE has done it; but a context_free that cannot read the list of
\* objects forgets its own (forgotten).
THEOREM NoObjectIsLost == Spec => []NothingLeft
<1>1. CInv => NothingLeft
  BY DEF CInv
<1> QED BY <1>1, ContextsAreRight, PTL
=============================================================================
