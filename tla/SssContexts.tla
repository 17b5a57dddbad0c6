---------------------------- MODULE SssContexts ----------------------------
(***************************************************************************)
(* The contexts of symmetric ciphers, AEAD, MAC and digests: what a        *)
(* context keeps between the calls of one message, in the back end of the  *)
(* SE05x and in those of OpenSSL and mbed TLS.                             *)
(*                                                                         *)
(* A block cipher takes whole blocks, an application gives what it has: a  *)
(* context keeps the rest in cache_data until more comes.  On the SE05x    *)
(* the state of a message is in a crypto object of the SE, which all       *)
(* contexts of an algorithm share; each exchange with the SE can fail, and *)
(* the SE may have done it all the same.  On the host each context has an  *)
(* object of its library.                                                  *)
(*                                                                         *)
(* An application's context is zero before context_init.  It calls a       *)
(* context from one thread, gives some AAD before the data, and to CCM the *)
(* length it announced.  It does not go on with a message after a call for *)
(* it failed or after it started another on the same crypto object.        *)
(***************************************************************************)
EXTENDS Naturals, SequencesExt

CONSTANTS
    Contexts,
    Kinds,            \* the kinds of context to look at, of AllKinds
    Restarts,         \* those whose messages an application starts anew without freeing the context
    AadInChunks,      \* those to which it gives AAD in several calls
    Block,            \* units in a block
    MaxChunk,         \* units in an APDU: CIPHER_UPDATE_MAX_DATA
    UpdateSizes,      \* how much an application gives at once
    AadSizes, MaxAad, \* the same of AAD, and bound: AAD in a message
    MaxTotal,         \* bound: units in a message
    Announced,        \* the lengths announced to CCM
    MaxMessages,      \* bound
    MaxFaults         \* bound: exchanges that fail

SeKinds   == {"se_aes", "se_ctr", "se_des", "se_gcm", "se_ccm", "se_mac"}
MbedAes   == {"mbedtls_cbc", "mbedtls_ecb"}           \* decrypting; ECB stands for CTR too
MbedDes   == {"mbedtls_des_cbc", "mbedtls_des_ecb"}   \* the same with DES
MbedCiphers == {"mbedtls_enc"} \cup MbedAes \cup MbedDes
HostCiphers == {"openssl_cipher"} \cup MbedCiphers
HostKinds == HostCiphers \cup {"openssl_gcm", "mbedtls_gcm", "host_ccm", "host_mac"}
AllKinds  == SeKinds \cup HostKinds
Ciphers   == {"se_aes", "se_ctr", "se_des"} \cup HostCiphers
Ccms      == {"se_ccm", "host_ccm"}
Aeads     == Ccms \cup {"se_gcm", "openssl_gcm", "mbedtls_gcm"}
Macs      == {"se_mac", "host_mac"}
KeepLast  == {"mbedtls_gcm", "host_ccm"}     \* a message waits for its AAD, the last chunk of which counts

ASSUME ContextsAssumption ==
    /\ Kinds \cup Restarts \cup AadInChunks \subseteq AllKinds /\ Contexts \cap AllKinds = {}
    /\ Block \in Nat \ {0} /\ MaxChunk \in Nat \ {0} /\ MaxChunk % Block = 0
    /\ UpdateSizes \cup AadSizes \subseteq Nat \ {0} /\ Announced \subseteq 1..MaxTotal
    /\ {MaxTotal, MaxAad, MaxMessages, MaxFaults} \subseteq Nat

VARIABLES
    kind,      \* of every context
    ctx,       \* what the code keeps: cryptoObjectId, cache, CCM's buffer
    object,    \* the crypto objects of the SE, by kind, and those of the libraries, by context
    app,       \* what the application knows of each context: the message it is at
    done,      \* the message that just finished with success, as processed and as given
    forgotten, \* kinds whose object a context gave up because it could not read the SE's list
    messages, faults

vars == <<kind, ctx, object, app, done, forgotten, messages, faults>>

-----------------------------------------------------------------------------
(* Messages. A unit of data is a message and a place; Zero fills up a block.  *)

Zero == <<0, 0>>
Units(m, n) == [i \in 1..n |-> <<m, i>>]
Piece(m, from, n) == [i \in 1..n |-> <<m, from + i>>]
Zeros(n) == [i \in 1..n |-> Zero]
Over(n) == IF n % Block = 0 THEN 0 ELSE Block - (n % Block)
Cut(s, size) == [i \in 1..((Len(s) + size - 1) \div size) |->
                    SubSeq(s, ((i - 1) * size) + 1, Min({i * size, Len(s)}))]

\* What a finished message should have been: these kinds fill up the last block.
Pads(k) == k \in {"se_aes"} \cup HostCiphers
Nothing == [data |-> <<>>, should |-> <<>>, dummy |-> <<>>, aad |-> <<>>, aadShould |-> <<>>]
Expected(k, m, n) == Units(m, n) \o Zeros(IF Pads(k) THEN Over(n) ELSE 0)

-----------------------------------------------------------------------------
(* The objects: the applet's, and those of the libraries.                     *)

NoObject == [st |-> "none", data |-> <<>>, aad |-> <<>>, want |-> 0]
ObjectOf(c) == IF kind[c] \in SeKinds THEN kind[c] ELSE c
Sharing(c) == {d \in Contexts \ {c} : ObjectOf(d) = ObjectOf(c)}

Req(op, data, want) == [op |-> op, data |-> data, want |-> want]
Update1(data) == Req("update", data, 0)
Whole(n) == n % Block = 0

\* What an object takes: blocks for ciphers and CCM, and for GCM until a last piece; one
\* block at a time for mbed TLS's ECB; the announced length for CCM.
InBlocks(k, o, r) ==
    /\ k \in Ciphers \cup {"se_ccm"} => Whole(Len(r.data))
    /\ k \in {"mbedtls_ecb", "mbedtls_des_ecb"} => Len(r.data) = Block
    /\ k \in Aeads => Whole(Len(o.data))
Complete(k, o, r) ==
    /\ k \in {"se_aes", "se_des", "openssl_cipher"} => Whole(Len(o.data \o r.data))
    /\ k \in Ccms => Len(o.data) = o.want
Takes(k, o, r) ==
    CASE r.op = "create" -> o.st = "none"
      [] r.op \in {"start", "delete"} -> o.st # "none"
      [] r.op = "aad" -> o.st = "live" /\ o.data = <<>>
      [] r.op = "update" -> o.st = "live" /\ InBlocks(k, o, r)
      [] r.op = "last" -> o.st = "live" /\ Len(r.data) < Block
      [] r.op = "final" -> o.st = "live" /\ Complete(k, o, r)
Does(o, r) ==
    CASE r.op = "create" -> [NoObject EXCEPT !.st = "idle"]
      [] r.op = "start"  -> [NoObject EXCEPT !.st = "live", !.want = r.want]
      [] r.op = "delete" -> NoObject
      [] r.op = "aad"    -> [o EXCEPT !.aad = @ \o r.data]
      [] r.op = "final"  -> [o EXCEPT !.st = "idle", !.data = @ \o r.data]
      [] OTHER           -> [o EXCEPT !.data = @ \o r.data]

\* The object after the first n requests.
After(o, reqs, n) ==
    LET did[i \in 0..Len(reqs)] == IF i = 0 THEN o ELSE Does(did[i - 1], reqs[i]) IN did[n]
Refused(k, o, reqs) == {n \in 1..Len(reqs) : ~ Takes(k, After(o, reqs, n - 1), reqs[n])}

\* How a sequence of requests can end: all are done, or number bad fails, refused or by a
\* fault, the SE having done it or not. bad is 0 when none fails, or only
\* mbedtls_cipher_finish, whose result nobody looks at.
Looked(k, r) == k \in MbedCiphers => r.op # "final"
Ends(c, reqs) ==
    LET k == kind[c]
        o == object[ObjectOf(c)]
        no == Refused(k, o, reqs)
        first == IF no = {} THEN Len(reqs) + 1 ELSE CHOOSE n \in no : \A i \in no : n <= i
        faulty == IF faults < MaxFaults THEN {n \in 1..(first - 1) : Looked(k, reqs[n])} ELSE {}
    IN  {[bad |-> n, did |-> d, faults |-> 1] : n \in faulty, d \in {0, 1}}
        \cup {[bad |-> IF no = {} THEN 0 ELSE first, did |-> 0, faults |-> 0]}
DidOf(reqs, e) == IF e.bad = 0 THEN Len(reqs) ELSE e.bad - 1 + e.did
Exchange(c, reqs, e) ==
    /\ object' = [object EXCEPT ![ObjectOf(c)] = After(@, reqs, DidOf(reqs, e))]
    /\ faults' = faults + e.faults

-----------------------------------------------------------------------------
(* A context begins.                                                          *)

NewCtx == [id |-> FALSE, cache |-> <<>>, aad |-> <<>>, buffer |-> <<>>, total |-> 0]
NotUsed == [st |-> "none", msg |-> 0, n |-> 0, aad |-> 0, want |-> 0]
App(c, st) == app' = [app EXCEPT ![c].st = st]
Outcome(e, good) == IF e.bad = 0 THEN good ELSE IF e.faults > 0 THEN "failed" ELSE "refused"

\* Mutant: the AEAD context's cache survives the start of a message, as the cipher's does.
ForgetCache_Keeps(c) == ctx[c].cache
ForgetCache(c) == IF kind[c] \in Aeads \ {"host_ccm"} THEN <<>> ELSE ctx[c].cache

\* context_init of each kind; the AEAD and MAC ones of the libraries make their object.
ContextInit(c) ==
    /\ app[c].st = "none"
    /\ App(c, "ready")
    /\ ctx' = [ctx EXCEPT ![c].cache = IF kind[c] \in Ciphers THEN <<>> ELSE @]
    /\ object' = IF kind[c] \in HostKinds THEN [object EXCEPT ![c] = [NoObject EXCEPT !.st = "idle"]]
                                          ELSE object
    /\ done' = Nothing /\ UNCHANGED <<kind, forgotten, messages, faults>>

\* A message of its own for c; what others began on the same object is abandoned.
Begin(c, want, st) ==
    /\ \/ app[c].st = "ready"
       \/ app[c].st \in {"open", "failed", "refused"} /\ kind[c] \in Restarts
    /\ messages < MaxMessages /\ messages' = messages + 1
    /\ app' = [d \in Contexts |->
                 IF d = c THEN [st |-> st, msg |-> messages', n |-> 0, aad |-> 0, want |-> want]
                 ELSE IF d \in Sharing(c) /\ app[d].st \in {"open", "refused"} THEN [app[d] EXCEPT !.st = "failed"]
                 ELSE app[d]]

\* Init of the SE05x back end: the crypto object is made unless the SE lists it. When the
\* list cannot be read a cipher gives up; the others may, or find nothing in it.
FaultOf(read) == IF read THEN 0 ELSE 1
SeInit(c) ==
    /\ kind[c] \in SeKinds
    /\ \E want \in IF kind[c] \in Ccms THEN Announced ELSE {0}, read \in BOOLEAN :
          LET there == read /\ object[kind[c]].st # "none"
              reqs == (IF there THEN <<>> ELSE <<Req("create", <<>>, 0)>>) \o <<Req("start", <<>>, want)>>
          IN  \/ /\ ~ read /\ faults < MaxFaults /\ faults' = faults + 1
                 /\ Begin(c, want, "failed")
                 /\ UNCHANGED object
              \/ /\ read \/ kind[c] \notin Ciphers
                 /\ \E e \in Ends(c, reqs) :
                       /\ faults + e.faults + FaultOf(read) <= MaxFaults
                       /\ Begin(c, want, Outcome(e, "open"))
                       /\ object' = [object EXCEPT ![kind[c]] = After(@, reqs, DidOf(reqs, e))]
                       /\ faults' = faults + e.faults + FaultOf(read)
    /\ ctx' = [ctx EXCEPT ![c].id = TRUE, ![c].cache = ForgetCache(c)]
    /\ forgotten' = forgotten \ {kind[c]}
    /\ done' = Nothing /\ UNCHANGED kind

\* Init of the libraries' back ends. mbed TLS's GCM waits for the AAD, CCM for the end.
InitReqs(k) == IF k \in KeepLast THEN <<>> ELSE <<Req("start", <<>>, 0)>>
HostInit(c) ==
    /\ kind[c] \in HostKinds
    /\ \E want \in IF kind[c] \in Ccms THEN Announced ELSE {0}, e \in Ends(c, InitReqs(kind[c])) :
          /\ Begin(c, want, Outcome(e, "open"))
          /\ Exchange(c, InitReqs(kind[c]), e)
          /\ ctx' = [ctx EXCEPT ![c] = [@ EXCEPT !.cache = ForgetCache(c), !.aad = <<>>,
                                                 !.buffer = <<>>, !.total = want]]
    /\ done' = Nothing /\ UNCHANGED <<kind, forgotten>>

\* Mutant: what is left after the whole blocks is not sent.
AadReqs_Blocks(k, chunk) ==
    LET cut == Cut(chunk, Block) IN [i \in 1..(Len(chunk) \div Block) |-> Req("aad", cut[i], 0)]
\* aead_update_aad: in blocks to the SE, as it comes to OpenSSL's GCM, anew to mbed TLS's.
AadReqs(k, chunk) ==
    CASE k = "openssl_gcm" -> <<Req("aad", chunk, 0)>>
      [] k = "mbedtls_gcm" -> <<Req("start", <<>>, 0), Req("aad", chunk, 0)>>
      [] k = "host_ccm" -> <<>>
      [] OTHER -> LET cut == Cut(chunk, Block) IN [i \in 1..Len(cut) |-> Req("aad", cut[i], 0)]
UpdateAad(c, n) ==
    LET chunk == Piece(app[c].msg, app[c].aad, n)
        reqs == AadReqs(kind[c], chunk)
    IN  /\ app[c].st = "open" /\ kind[c] \in Aeads /\ app[c].n = 0
        /\ app[c].aad + n <= MaxAad /\ (app[c].aad = 0 \/ kind[c] \in AadInChunks)
        /\ \E e \in Ends(c, reqs) :
              /\ Exchange(c, reqs, e)
              /\ app' = [app EXCEPT ![c].aad = @ + n, ![c].st = Outcome(e, "open")]
        /\ ctx' = IF kind[c] = "host_ccm" THEN [ctx EXCEPT ![c].aad = chunk] ELSE ctx
        /\ done' = Nothing /\ UNCHANGED <<kind, forgotten, messages>>

-----------------------------------------------------------------------------
(* Update.                                                                    *)

\* Mutant: a whole block is cached too.
Short_AtMost(c, n) == Len(ctx[c].cache) + n <= Block
Short(c, n) == Len(ctx[c].cache) + n < Block
Given(c, n, st) ==
    app' = [app EXCEPT ![c].n = @ + n, ![c].st = st]
MayGive(c, n) ==
    /\ app[c].st = "open" /\ app[c].n + n <= MaxTotal
    /\ kind[c] \in KeepLast => app[c].aad > 0

\* Not enough for a block: it is kept.
UpdateShort(c, n) ==
    /\ MayGive(c, n) /\ kind[c] \notin Macs \cup {"host_ccm"} /\ Short(c, n)
    /\ ctx' = [ctx EXCEPT ![c].cache = @ \o Piece(app[c].msg, app[c].n, n)]
    /\ Given(c, n, "open")
    /\ done' = Nothing /\ UNCHANGED <<kind, forgotten, object, messages, faults>>

\* The rest of the cached block, then the SE's chunks of several blocks, then the new rest.
\* A host object takes one block at a time.
Fill(c) == Block - Len(ctx[c].cache)
FirstBlock(c, src) ==
    IF kind[c] \in SeKinds /\ ctx[c].cache = <<>> THEN <<>> ELSE <<ctx[c].cache \o SubSeq(src, 1, Fill(c))>>
Sent(c, src) == IF FirstBlock(c, src) = <<>> THEN 0 ELSE Fill(c)
Rest(c, src) == Len(src) - ((Len(src) - Sent(c, src)) % Block)
Chunks(c, src) ==
    FirstBlock(c, src) \o Cut(SubSeq(src, Sent(c, src) + 1, Rest(c, src)),
                              IF kind[c] \in SeKinds THEN MaxChunk ELSE Block)

\* What is cached when request bad failed. On the SE05x the cached block stays until it is
\* sent; a host cipher forgets it first, a host GCM does not forget it at all.
CacheAfter(c, src, bad) ==
    IF bad = 0 THEN SubSeq(src, Rest(c, src) + 1, Len(src))
    ELSE IF kind[c] \in {"openssl_gcm", "mbedtls_gcm"} \/ (kind[c] \in SeKinds /\ bad = 1)
    THEN ctx[c].cache ELSE <<>>

UpdateBlocks(c, n) ==
    LET src == Piece(app[c].msg, app[c].n, n)
        chunks == Chunks(c, src)
        reqs == [i \in 1..Len(chunks) |-> Update1(chunks[i])]
    IN  /\ MayGive(c, n) /\ kind[c] \notin Macs \cup {"host_ccm"} /\ ~ Short(c, n)
        /\ \E e \in Ends(c, reqs) :
              /\ Exchange(c, reqs, e)
              /\ ctx' = [ctx EXCEPT ![c].cache = CacheAfter(c, src, e.bad)]
              /\ Given(c, n, Outcome(e, "open"))
        /\ done' = Nothing /\ UNCHANGED <<kind, forgotten, messages>>

\* mac_update and digest_update give what they get.
UpdateMac(c, n) ==
    LET reqs == <<Update1(Piece(app[c].msg, app[c].n, n))>>
    IN  /\ MayGive(c, n) /\ kind[c] \in Macs
        /\ \E e \in Ends(c, reqs) : Exchange(c, reqs, e) /\ Given(c, n, Outcome(e, "open"))
        /\ done' = Nothing /\ UNCHANGED <<kind, forgotten, ctx, messages>>

\* aead_ccm_update collects the message; too much of it loses it.
UpdateCcm(c, n) ==
    LET fits == Len(ctx[c].buffer) + n <= ctx[c].total
    IN  /\ MayGive(c, n) /\ kind[c] = "host_ccm"
        /\ ctx' = [ctx EXCEPT ![c].buffer = IF fits THEN @ \o Piece(app[c].msg, app[c].n, n) ELSE <<>>]
        /\ Given(c, n, IF fits THEN "open" ELSE "failed")
        /\ done' = Nothing /\ UNCHANGED <<kind, forgotten, object, messages, faults>>

-----------------------------------------------------------------------------
(* Finish, and the end of a context.                                          *)

Final(data) == <<Req("final", data, 0)>>
NotEmpty(op, data) == IF data = <<>> THEN <<>> ELSE <<Req(op, data, 0)>>
Pad(data) == data \o Zeros(Over(Len(data)))

\* cipher_finish fills up the last block; the SE05x's only for AES in ECB and CBC. The
\* libraries get one block at a time, and mbed TLS, decrypting, 16 units of zeros after
\* them, two blocks of DES: its CBC has kept the last block back until more comes.
Dummy(k) ==
    CASE k \in MbedAes -> <<Update1(Zeros(Block))>>
      [] k \in MbedDes -> <<Update1(Zeros(2 * Block))>>
      [] OTHER -> <<>>
FinishHostCipher(k, all) ==
    LET cut == Cut(Pad(all), Block) IN [i \in 1..Len(cut) |-> Update1(cut[i])] \o Dummy(k) \o Final(<<>>)
FinishCipher(k, all) ==
    IF k \in HostCiphers THEN FinishHostCipher(k, all) ELSE Final(IF Pads(k) THEN Pad(all) ELSE all)

\* What the context has given out of what its object got: mbed TLS's CBC, decrypting, keeps
\* the last block. So the zeros come out behind the message but for AES in CBC.
GivenOut(k, data) ==
    IF k \in {"mbedtls_cbc", "mbedtls_des_cbc"} THEN SubSeq(data, 1, Len(data) - Block) ELSE data
Behind(k) == Zeros(IF k \in {"mbedtls_ecb", "mbedtls_des_cbc"} THEN Block ELSE 0)

\* aead_finish, GCM.
FinishGcm(k, all) == (IF k = "se_gcm" THEN NotEmpty("update", all) ELSE <<Update1(all)>>) \o Final(<<>>)

\* sss_se05x_aead_CCMfinish: a block if there is one, the rest with CCMLastUpdate.
\* Mutant: what is left is a block too.
FinishCcm_Blocks(all) == NotEmpty("update", all) \o Final(<<>>)
FinishCcm(all) ==
    IF Len(all) < Block THEN NotEmpty("last", all) \o Final(<<>>)
    ELSE <<Update1(SubSeq(all, 1, Block))>> \o NotEmpty("last", SubSeq(all, Block + 1, Len(all)))
         \o Final(<<>>)

\* The libraries' CCM gets all of the announced length at once, zeros where nothing came.
FinishHostCcm(c, src) ==
    LET got == ctx[c].buffer \o src
    IN  <<Req("start", <<>>, ctx[c].total), Req("aad", ctx[c].aad, 0),
          Update1(got \o Zeros(ctx[c].total - Len(got)))>> \o Final(<<>>)

FinishReqs(c, src) ==
    LET all == ctx[c].cache \o src
        k == kind[c]
    IN  CASE k \in Ciphers -> FinishCipher(k, all)
          [] k \in Macs -> Final(<<>>)
          [] k = "se_ccm" -> FinishCcm(all)
          [] k = "host_ccm" -> FinishHostCcm(c, src)
          [] OTHER -> FinishGcm(k, all)

Finish(c, n) ==
    LET src == Piece(app[c].msg, app[c].n, n)
        reqs == FinishReqs(c, src)
    IN  /\ MayGive(c, n) /\ n <= Block /\ (kind[c] \in Macs => n = 0)
        /\ kind[c] \in Ccms => app[c].n + n = app[c].want
        /\ \E e \in Ends(c, reqs) :
              /\ Exchange(c, reqs, e)
              /\ Given(c, n, Outcome(e, "ready"))
              /\ done' = IF e.bad # 0 THEN Nothing
                         ELSE LET o == After(object[ObjectOf(c)], reqs, Len(reqs)) IN
                              [data |-> GivenOut(kind[c], o.data), dummy |-> Behind(kind[c]),
                               should |-> Expected(kind[c], app[c].msg, app[c].n + n),
                               aad |-> o.aad, aadShould |-> Units(app[c].msg, app[c].aad)]
        /\ ctx' = [ctx EXCEPT ![c].cache = IF kind[c] \in Ciphers THEN <<>> ELSE @]
        /\ UNCHANGED <<kind, forgotten, messages>>

\* A last piece longer than a block is refused before anything happens.
FinishTooLong(c) ==
    /\ MayGive(c, Block + 1) /\ kind[c] \notin Macs \cup {"host_ccm"}
    /\ App(c, "failed")
    /\ done' = Nothing /\ UNCHANGED <<kind, forgotten, ctx, object, messages, faults>>

\* context_free deletes the crypto object the context knows, which may be another's by now.
\* What cannot be deleted stays known; what is not in the list is not looked for, and the
\* list is empty when it cannot be read. MAC and digest do without the list.
\* Mutant: the context forgets its object in any case.
Known_Forgets(c, e) == NewCtx
Known(c, e) == IF e.bad = 0 THEN NewCtx ELSE ctx[c]
UsesList(c) == kind[c] \in SeKinds \ {"se_mac"} /\ ctx[c].id
ContextFree(c) ==
    \E read \in BOOLEAN :
       LET there == kind[c] = "se_mac" \/ (read /\ object[ObjectOf(c)].st # "none")
           reqs == IF kind[c] \in HostKinds \/ (ctx[c].id /\ there)
                   THEN <<Req("delete", <<>>, 0)>> ELSE <<>>
       IN  /\ app[c].st # "none"
           /\ ~ read => UsesList(c) /\ faults < MaxFaults
           /\ \E e \in Ends(c, reqs) :
                 /\ kind[c] \in HostKinds => e.bad = 0
                 /\ object' = [object EXCEPT ![ObjectOf(c)] = After(@, reqs, DidOf(reqs, e))]
                 /\ faults' = faults + e.faults + FaultOf(read)
                 /\ ctx' = [ctx EXCEPT ![c] = Known(c, e)]
           /\ forgotten' = IF read THEN forgotten ELSE forgotten \cup {kind[c]}
           /\ app' = [app EXCEPT ![c] = NotUsed]
           /\ done' = Nothing /\ UNCHANGED <<kind, messages>>

-----------------------------------------------------------------------------
\* Contexts of one kind: those of different kinds share nothing.
Init ==
    /\ \E k \in Kinds : kind = [c \in Contexts |-> k]
    /\ ctx = [c \in Contexts |-> NewCtx]
    /\ object = [o \in SeKinds \cup Contexts |-> NoObject]
    /\ app = [c \in Contexts |-> NotUsed]
    /\ done = Nothing /\ forgotten = {} /\ messages = 0 /\ faults = 0

Next ==
    \E c \in Contexts :
       \/ ContextInit(c) \/ SeInit(c) \/ HostInit(c) \/ FinishTooLong(c) \/ ContextFree(c)
       \/ \E n \in AadSizes : UpdateAad(c, n)
       \/ \E n \in UpdateSizes :
             UpdateShort(c, n) \/ UpdateBlocks(c, n) \/ UpdateMac(c, n) \/ UpdateCcm(c, n)
       \/ \E n \in {0} \cup UpdateSizes : Finish(c, n)

Spec == Init /\ [][Next]_vars

-----------------------------------------------------------------------------
Data == Seq({<<m, i>> : m \in 1..MaxMessages, i \in 1..(MaxTotal + MaxAad)} \cup {Zero})

\* The state is well formed; no cache ever holds a whole block, after a failure either: the
\* buffers of the contexts are one block long, and cipher_finish adds a block to it.
TypeOK ==
    /\ kind \in [Contexts -> AllKinds]
    /\ \A c \in Contexts :
          /\ ctx[c] \in [id : BOOLEAN, cache : Data, aad : Data, buffer : Data, total : 0..MaxTotal]
          /\ app[c] \in [st : {"none", "ready", "open", "failed", "refused"}, msg : 0..MaxMessages,
                         n : 0..MaxTotal, aad : 0..MaxAad, want : 0..MaxTotal]
          /\ Len(ctx[c].cache) < Block /\ Len(ctx[c].buffer) <= ctx[c].total
    /\ \A o \in DOMAIN object :
          object[o] \in [st : {"none", "idle", "live"}, data : Data, aad : Data, want : 0..MaxTotal]
    /\ forgotten \subseteq SeKinds /\ messages \in 0..MaxMessages /\ faults \in 0..MaxFaults

\* A message that finishes with success was processed exactly as it was given, filled up
\* with zeros where the algorithm asks for it: no unit lost, doubled, out of order or of an
\* earlier message, however the pieces fell on blocks, whatever failed before and whoever
\* used the crypto object in between. Behind a message that mbed TLS decrypts with AES in
\* ECB or CTR, or with DES in CBC, a block of zeros is decrypted and given out too.
ExactMessage == done.data = done.should \o done.dummy

\* And so was its additional data.
ExactAad == done.aad = done.aadShould

\* Without a failed exchange nothing the application may ask for is refused: the SE and the
\* libraries always get blocks and last pieces in the form they take. The exceptions are
\* the SE's DES, whose last block is not filled up, mbed TLS's DES in ECB, which cannot take
\* the two blocks of zeros that end decrypting, and an object another context has deleted.
NotRefused ==
    \A c \in Contexts :
       app[c].st = "refused" /\ faults = 0 =>
          \/ kind[c] = "se_des" /\ ~ Whole(app[c].n)
          \/ kind[c] = "mbedtls_des_ecb"
          \/ object[ObjectOf(c)].st = "none"

\* Every crypto object that is left on the SE is known to a context, which can still delete
\* it: failures of create and delete do not leave objects that nobody owns. One whose
\* context_free could not read the list is lost, until a context of its kind begins.
NothingLeft ==
    \A k \in SeKinds \ forgotten :
       object[k].st # "none" => \E c \in Contexts : kind[c] = k /\ ctx[c].id
=============================================================================
