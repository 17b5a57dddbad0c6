------------------------------- MODULE SssApi -------------------------------
(***************************************************************************)
(* The SSS interface (fsl_sss_apis.c) over sessions of the SE05x back end  *)
(* and of a host crypto library: how a session is opened, step by step     *)
(* (sss_se05x_session_open), closed, and which back end a call reaches     *)
(* through the session its handle points to at that moment.  Its one-go    *)
(* operations are those of OneGo.                                          *)
(***************************************************************************)
EXTENDS OneGo

CONSTANTS
    HostBackEnd,   \* "OPENSSL" or "MBEDTLS", as built
    PlainAuths,    \* authentications of a session of its own link
    TunnelAuths    \* and of one over it, by kType_SE_Conn_Type_Channel

ASSUME ApiAssumption ==
    /\ HostBackEnd \in {"OPENSSL", "MBEDTLS"}
    /\ PlainAuths \subseteq {"None", "SCP03", "ID", "AESKey", "ECKey"}
    /\ TunnelAuths \subseteq {"ID", "AESKey", "ECKey"}

VARIABLES
    sess,     \* the caller's sessions: "se" on a link, "tun" over it, "host"
    link,     \* links to the SE that are open
    seSess,   \* applet sessions the SE knows
    opening,  \* the sss_session_open that runs
    ks, obj, ctx, \* the caller's key store, key object and context
    call      \* where the last call went

apiVars == <<sess, link, seSess, opening, ks, obj, ctx, call>>
vars == <<oneGoVars, apiVars>>

-----------------------------------------------------------------------------
(* Dispatch: the handle whose session each function looks at, and the back *)
(* ends it may then call.                                                  *)

Four == {"SSCP", "SE05X", "MBEDTLS", "OPENSSL"}
Hosted == Four \cup {"HOST"}
SeOnly == {"SE05X"}

Fn(via, serves) == [via |-> via, serves |-> serves]

sss_session_open == Fn("subsystem", Hosted)
sss_session_prop_get_u32 == Fn("session", Four)
sss_session_prop_get_au8 == Fn("session", Four)
sss_session_close == Fn("session", Hosted)
sss_key_object_init == Fn("key_store", Hosted)
sss_key_object_allocate_handle == Fn("object", Hosted)
sss_key_object_get_handle == Fn("object", Four)
sss_key_object_set_user == Fn("object", Four)
sss_key_object_set_purpose == Fn("object", Four)
sss_key_object_set_access == Fn("object", Four)
sss_key_object_set_eccgfp_group == Fn("object", Four)
sss_key_object_get_user == Fn("object", Four)
sss_key_object_get_purpose == Fn("object", Four)
sss_key_object_get_access == Fn("object", Four)
sss_key_object_free == Fn("object", Hosted)
sss_derive_key_context_init == Fn("session", Four)
sss_derive_key_go == Fn("derive_key", Four)
sss_derive_key_one_go == Fn("derive_key", Four)
sss_derive_key_sobj_one_go == Fn("derive_key", Four)
sss_derive_key_dh == Fn("derive_key", Four)
sss_derive_key_context_free == Fn("derive_key", Four)
sss_key_store_context_init == Fn("session", Hosted)
sss_key_store_allocate == Fn("key_store", Hosted)
sss_key_store_save == Fn("key_store", Four)
sss_key_store_load == Fn("key_store", Four)
sss_key_store_set_key == Fn("key_store", Hosted)
sss_key_store_generate_key == Fn("key_store", Four)
sss_key_store_get_key == Fn("key_store", Hosted)
sss_key_store_open_key == Fn("key_store", Four)
sss_key_store_freeze_key == Fn("key_store", Four)
sss_key_store_erase_key == Fn("key_store", Four)
sss_key_store_context_free == Fn("key_store", Four)
sss_asymmetric_context_init == Fn("session", Four)
sss_asymmetric_encrypt == Fn("asymmetric", Four)
sss_asymmetric_decrypt == Fn("asymmetric", Four)
sss_asymmetric_sign_digest == Fn("asymmetric", Four)
sss_asymmetric_verify_digest == Fn("asymmetric", Four)
sss_asymmetric_context_free == Fn("asymmetric", Four)
sss_symmetric_context_init == Fn("session", Four)
sss_cipher_one_go == Fn("symmetric", Four)
sss_cipher_one_go_v2 == Fn("symmetric", Four)
sss_cipher_init == Fn("symmetric", Four)
sss_cipher_update == Fn("symmetric", Four)
sss_cipher_finish == Fn("symmetric", Four)
sss_cipher_crypt_ctr == Fn("symmetric", Four)
sss_symmetric_context_free == Fn("symmetric", Four)
sss_aead_context_init == Fn("session", Four)
sss_aead_one_go == Fn("aead", Four)
sss_aead_init == Fn("aead", Four)
sss_aead_update_aad == Fn("aead", Four)
sss_aead_update == Fn("aead", Four)
sss_aead_finish == Fn("aead", Four)
sss_aead_context_free == Fn("aead", Four)
sss_mac_context_init == Fn("session", Four)
sss_mac_one_go == Fn("mac", Four)
sss_mac_init == Fn("mac", Four)
sss_mac_update == Fn("mac", Four)
sss_mac_finish == Fn("mac", Four)
sss_mac_context_free == Fn("mac", Four)
sss_digest_context_init == Fn("session", Four)
sss_digest_one_go == Fn("digest", Four)
sss_digest_init == Fn("digest", Four)
sss_digest_update == Fn("digest", Four)
sss_digest_finish == Fn("digest", Four)
sss_digest_context_free == Fn("digest", Four)
sss_rng_context_init == Fn("session", Four)
sss_rng_get_random == Fn("rng", Four)
sss_rng_context_free == Fn("rng", Four)
sss_tunnel_context_init == Fn("session", SeOnly)
sss_tunnel == Fn("tunnel", {})
sss_tunnel_context_free == Fn("tunnel", SeOnly)

(* Functions that neither make nor release a handle, by what they are given.  *)
CallsOn ==
    [session |-> {sss_session_prop_get_u32, sss_session_prop_get_au8},
     object |-> {sss_key_object_allocate_handle, sss_key_object_get_handle,
        sss_key_object_set_user, sss_key_object_set_purpose,
        sss_key_object_set_access, sss_key_object_set_eccgfp_group,
        sss_key_object_get_user, sss_key_object_get_purpose,
        sss_key_object_get_access},
     derive_key |-> {sss_derive_key_go, sss_derive_key_one_go,
        sss_derive_key_sobj_one_go, sss_derive_key_dh},
     key_store |-> {sss_key_store_allocate, sss_key_store_save,
        sss_key_store_load, sss_key_store_set_key, sss_key_store_generate_key,
        sss_key_store_get_key, sss_key_store_open_key,
        sss_key_store_freeze_key, sss_key_store_erase_key},
     asymmetric |-> {sss_asymmetric_encrypt, sss_asymmetric_decrypt,
        sss_asymmetric_sign_digest, sss_asymmetric_verify_digest},
     symmetric |-> {sss_cipher_one_go, sss_cipher_one_go_v2, sss_cipher_init,
        sss_cipher_update, sss_cipher_finish, sss_cipher_crypt_ctr},
     aead |-> {sss_aead_one_go, sss_aead_init, sss_aead_update_aad,
        sss_aead_update, sss_aead_finish},
     mac |-> {sss_mac_one_go, sss_mac_init, sss_mac_update, sss_mac_finish},
     digest |-> {sss_digest_one_go, sss_digest_init, sss_digest_update,
        sss_digest_finish},
     rng |-> {sss_rng_get_random},
     tunnel |-> {sss_tunnel}]

ContextInits ==
    [derive_key |-> sss_derive_key_context_init, asymmetric |-> sss_asymmetric_context_init,
     symmetric |-> sss_symmetric_context_init, aead |-> sss_aead_context_init,
     mac |-> sss_mac_context_init, digest |-> sss_digest_context_init,
     rng |-> sss_rng_context_init, tunnel |-> sss_tunnel_context_init]

ContextFrees ==
    [derive_key |-> sss_derive_key_context_free, asymmetric |-> sss_asymmetric_context_free,
     symmetric |-> sss_symmetric_context_free, aead |-> sss_aead_context_free,
     mac |-> sss_mac_context_free, digest |-> sss_digest_context_free,
     rng |-> sss_rng_context_free, tunnel |-> sss_tunnel_context_free]

ContextKinds == DOMAIN ContextInits

-----------------------------------------------------------------------------
(* Sessions and handles.                                                   *)

Cells == {"se", "tun", "host"}
NONE == "NONE"
Zeroed == [sub |-> NONE, auth |-> NONE, fits |-> FALSE, skip |-> FALSE,
           hasSession |-> FALSE, proved |-> FALSE]
NoHandle == [cell |-> NONE, kind |-> NONE, made |-> NONE]
NotOpening == [cell |-> NONE, auth |-> NONE, fits |-> FALSE, skip |-> FALSE,
               todo |-> <<>>, connected |-> FALSE, hasSession |-> FALSE, proved |-> FALSE]
NoCall == [reached |-> NONE, made |-> NONE, ready |-> TRUE]

SessionSub(cell) == IF cell = NONE THEN NONE ELSE sess[cell].sub

(* A key object looks at the session of its key store.                     *)
Handle(via) ==
    CASE via = "key_store" -> ks
      [] via = "object" -> IF ks = NoHandle THEN NoHandle ELSE obj
      [] OTHER -> ctx

CellOf(via) == IF via = "object" THEN ks.cell ELSE Handle(via).cell

Reached(f, cell) == IF SessionSub(cell) \in f.serves THEN SessionSub(cell) ELSE NONE

Over(auth) == IF auth \in {"ID", "AESKey", "ECKey"} THEN "session" ELSE "channel"

(* What went before is a success already: a link set up without selecting  *)
(* an applet, or the version read for a tunnelled ECKey.                   *)
EarlierOk(cell, auth, skip) == (cell = "se" /\ skip) \/ (cell = "tun" /\ auth = "ECKey")

(* An s that was opened, or will be, with a connection type or application *)
(* id that do not go with its authentication, and that this did not stop:  *)
(* nothing is authenticated in it.                                         *)
Unasked(cell, s) == ~s.fits /\ EarlierOk(cell, s.auth, s.skip)

(* The session is authenticated as it was asked to be, and the SE knows it.*)
Ready(cell) ==
    sess[cell].sub = "SE05X" =>
        \/ Unasked(cell, sess[cell])
        \/ /\ sess[cell].auth # "None" => sess[cell].proved
           /\ Over(sess[cell].auth) = "session" => [owner |-> cell, verified |-> TRUE] \in seSess

Free == opening = NotOpening /\ at = "idle"

-----------------------------------------------------------------------------
(* Opening a session of the SE05x back end: sss_se05x_session_open,        *)
(* sss_session_auth_open and se05x_Create*Session.                         *)

Exists(transport) == IF transport THEN <<>> ELSE <<"CheckObjectExists">>
Policy(policy) == IF policy THEN <<"ExchangeSessionData">> ELSE <<>>

Attested == <<"CheckObjectExists", "ReadAttestationKey", "StoreAttestationKey",
              "ReadObject_W_Attst", "VerifyAttestation">>

Connections == {"Plain", "Password", "Encrypted"}

(* Which connection type goes with an authentication, and whether an       *)
(* application id other than zero does (None: either).                     *)
Fits(auth, conn, app) ==
    CASE auth = "None"  -> conn = "Plain"
      [] auth = "SCP03" -> conn = "Encrypted" /\ ~app
      [] auth = "ID"    -> conn = "Password" /\ app
      [] OTHER          -> conn = "Encrypted" /\ app

(* A step that can only fail.                                              *)
Refused == <<"Refuse">>

(* sss_session_auth_open, called with an application id and a connection   *)
(* that is not plain.                                                      *)
AuthOpens(conn, app) == app /\ conn # "Plain"

AuthOpenSteps(auth, conn, transport, policy) ==
    CASE auth = "ID" /\ conn = "Password" -> Exists(transport) \o
             <<"CreateSession", "HostGetKey", "VerifySessionUserID">> \o Policy(policy)
      [] auth = "AESKey" /\ conn = "Encrypted" -> Exists(transport) \o
             <<"CreateSession", "AuthenticateChannel">> \o Policy(policy)
      [] auth = "ECKey" /\ conn = "Encrypted" -> Attested \o
             <<"CreateSession", "AuthenticateChannel">> \o Policy(policy)
      [] OTHER -> Refused

(* Of its own link a session knows the applet's version by Connect.        *)
LinkSteps(cell, auth) ==
    CASE cell = "se" -> <<"Connect">>
      [] cell # "se" /\ auth = "ECKey" -> <<"GetVersion">>
      [] OTHER -> <<>>

ChannelSteps(auth, conn) ==
    IF auth = "SCP03" /\ conn = "Encrypted" THEN <<"AuthenticateChannel">> ELSE <<>>

(* Without sss_session_auth_open, the status of the last step before stays.*)
SessionSteps(cell, auth, conn, app, skip, transport, policy) ==
    IF AuthOpens(conn, app) THEN AuthOpenSteps(auth, conn, transport, policy)
    ELSE IF Fits(auth, conn, app) \/ EarlierOk(cell, auth, skip) THEN <<>>
    ELSE Refused

Steps(cell, auth, conn, app, skip, transport, policy) ==
    LinkSteps(cell, auth) \o ChannelSteps(auth, conn)
        \o SessionSteps(cell, auth, conn, app, skip, transport, policy)

OnHost(step) == step \in {"HostGetKey", "StoreAttestationKey", "VerifyAttestation"}

(* A tunnel passes commands on over a session that is plain or SCP03, and  *)
(* on which the applet is selected.                                        *)
Carried(cell) ==
    cell = "tun" => sess["se"].sub = "SE05X" /\ sess["se"].auth \in {"None", "SCP03"} /\ ~sess["se"].skip

(* Only a session of its own link can be told not to select the applet.    *)
SessionOpen(cell, auth, conn, app, skip, transport, policy) ==
    /\ Free
    /\ sess[cell].sub = NONE /\ cell \notin {ks.cell, ctx.cell}
    /\ cell = "se" => auth \in PlainAuths /\ "SE05X" \in sss_session_open.serves
    /\ cell = "tun" => auth \in TunnelAuths /\ ctx.kind = "tunnel" /\ SessionSub(ctx.cell) = "SE05X"
    /\ skip => cell = "se"
    /\ opening' = [NotOpening EXCEPT !.cell = cell, !.auth = auth, !.skip = skip,
                      !.fits = Fits(auth, conn, app),
                      !.todo = Steps(cell, auth, conn, app, skip, transport, policy)]
    /\ call' = NoCall
    /\ UNCHANGED <<sess, link, seSess, ks, obj, ctx>>

Known(cell, verified) == [owner |-> cell, verified |-> verified]

(* What the SE knows after a step it has executed.                         *)
KnownAfter(o, step) ==
    CASE step = "CreateSession" -> seSess \cup {Known(o.cell, FALSE)}
      [] step = "VerifySessionUserID" \/ (step = "AuthenticateChannel" /\ o.hasSession) ->
            (seSess \ {Known(o.cell, FALSE)}) \cup {Known(o.cell, TRUE)}
      [] OTHER -> seSess

OpeningAfter(o, step) ==
    [o EXCEPT !.todo = Tail(@),
              !.connected  = @ \/ step = "Connect",
              !.hasSession = @ \/ step = "CreateSession",
              !.proved     = @ \/ step \in {"VerifySessionUserID", "AuthenticateChannel"}]

OpenStep ==
    /\ opening # NotOpening
    /\ opening.todo # <<>>
    /\ LET step == Head(opening.todo)
       IN  /\ step # "Refuse" /\ (OnHost(step) \/ Carried(opening.cell))
           /\ opening' = OpeningAfter(opening, step)
           /\ seSess' = KnownAfter(opening, step)
           /\ link' = IF step = "Connect" THEN link + 1 ELSE link
    /\ UNCHANGED <<sess, ks, obj, ctx, call>>

OpenDone ==
    /\ opening # NotOpening
    /\ opening.todo = <<>>
    /\ sess' = [sess EXCEPT ![opening.cell] =
                    [sub |-> "SE05X", auth |-> opening.auth, fits |-> opening.fits,
                     skip |-> opening.skip, hasSession |-> opening.hasSession, proved |-> opening.proved]]
    /\ opening' = NotOpening
    /\ UNCHANGED <<link, seSess, ks, obj, ctx, call>>

(* Sessions end with their link; those over a tunnel stay as orphans.      *)
Orphaned(cell, known) ==
    {IF s.owner = cell THEN [s EXCEPT !.owner = "orphan"] ELSE s : s \in known}

SMClose_Kept(connected) == link

SMClose(connected) == IF connected THEN link - 1 ELSE link

(* A step fails, before or after the SE has executed it: the link is       *)
(* closed if this call opened it, and the session is zero as before.       *)
OpenFail ==
    /\ opening # NotOpening
    /\ opening.todo # <<>>
    /\ link' = SMClose(opening.connected)
    /\ \E known \in {seSess} \cup
            (IF Carried(opening.cell) THEN {KnownAfter(opening, Head(opening.todo))} ELSE {}) :
          seSess' = IF opening.connected \/ opening.cell = "se" THEN {} ELSE Orphaned(opening.cell, known)
    /\ opening' = NotOpening
    /\ UNCHANGED <<sess, ks, obj, ctx, call>>

(* The caller closes no session that another one is tunnelled over.        *)
SessionAfterClose_Kept(cell) == sess[cell]
SessionAfterClose(cell) == Zeroed

SessionClose ==
    /\ Free
    /\ sess["se"].sub = "SE05X" /\ "SE05X" \in sss_session_close.serves
    /\ \E cell \in {"se", "tun"} :
          /\ sess[cell].sub = "SE05X"
          /\ cell = "se" => sess["tun"].sub = NONE
          /\ link' = SMClose(cell = "se")
          /\ seSess' \in IF cell = "se" THEN {{}}
                         ELSE {Orphaned(cell, seSess), {s \in seSess : s.owner # cell}}
          /\ sess' = [sess EXCEPT ![cell] = SessionAfterClose(cell)]
    /\ call' = NoCall
    /\ UNCHANGED <<opening, ks, obj, ctx>>

(* sss_openssl_session_open and sss_mbedtls_session_open.                  *)
HostSessionOpen ==
    /\ Free
    /\ sess["host"].sub = NONE /\ "host" \notin {ks.cell, ctx.cell}
    /\ HostBackEnd \in sss_session_open.serves
    /\ sess' = [sess EXCEPT !["host"].sub = HostBackEnd]
    /\ call' = NoCall
    /\ UNCHANGED <<link, seSess, opening, ks, obj, ctx>>

HostSessionClose ==
    /\ Free
    /\ sess["host"].sub \in sss_session_close.serves
    /\ sess' = [sess EXCEPT !["host"] = SessionAfterClose("host")]
    /\ call' = NoCall
    /\ UNCHANGED <<link, seSess, opening, ks, obj, ctx>>

-----------------------------------------------------------------------------
(* Handles.                                                                *)

KeyStoreInit(cell) ==
    /\ Free
    /\ ks = NoHandle /\ obj = NoHandle
    /\ Reached(sss_key_store_context_init, cell) # NONE
    /\ ks' = [cell |-> cell, kind |-> "key_store", made |-> Reached(sss_key_store_context_init, cell)]
    /\ call' = NoCall
    /\ UNCHANGED <<sess, link, seSess, opening, obj, ctx>>

KeyObjectInit ==
    /\ Free
    /\ obj = NoHandle /\ Reached(sss_key_object_init, ks.cell) # NONE
    /\ obj' = [cell |-> ks.cell, kind |-> "object", made |-> Reached(sss_key_object_init, ks.cell)]
    /\ call' = NoCall
    /\ UNCHANGED <<sess, link, seSess, opening, ks, ctx>>

ContextInit(kind, cell) ==
    /\ Free
    /\ ctx = NoHandle
    /\ Reached(ContextInits[kind], cell) # NONE
    /\ ctx' = [cell |-> cell, kind |-> kind, made |-> Reached(ContextInits[kind], cell)]
    /\ call' = NoCall
    /\ UNCHANGED <<sess, link, seSess, opening, ks, obj>>

(* What a release asks of the back end; nothing when its session is gone.  *)
KeyStoreFree ==
    /\ Free
    /\ ks # NoHandle
    /\ ks' = IF Reached(sss_key_store_context_free, ks.cell) # NONE THEN NoHandle ELSE ks
    /\ call' = NoCall
    /\ UNCHANGED <<sess, link, seSess, opening, obj, ctx>>

KeyObjectFree ==
    /\ Free
    /\ obj # NoHandle
    /\ obj' = IF Reached(sss_key_object_free, ks.cell) # NONE THEN NoHandle ELSE obj
    /\ call' = NoCall
    /\ UNCHANGED <<sess, link, seSess, opening, ks, ctx>>

(* The SE05x back end keeps a context whose crypto object it cannot delete *)
(* and never clears one for key derivation.                                *)
MayStay(kind, sub) == sub = "SE05X" /\ kind \in {"digest", "symmetric", "aead", "mac"}
MustStay(kind, sub) == sub = "SE05X" /\ kind = "derive_key"

(* OpenSSL frees the key object of a key derivation with the context.      *)
FreesKey(kind, sub) == sub = "OPENSSL" /\ kind = "derive_key"

ContextFree ==
    /\ Free
    /\ ctx # NoHandle
    /\ LET f == ContextFrees[ctx.kind]
           sub == IF ctx.kind = "tunnel" THEN "SE05X" ELSE Reached(f, ctx.cell)
       IN  /\ ctx.kind = "tunnel" => sess["tun"].sub = NONE
           /\ ctx' \in IF sub = NONE \/ MustStay(ctx.kind, sub) THEN {ctx}
                       ELSE IF MayStay(ctx.kind, sub) THEN {ctx, NoHandle} ELSE {NoHandle}
           /\ obj' = IF FreesKey(ctx.kind, sub) /\ ks.cell = ctx.cell THEN NoHandle ELSE obj
    /\ call' = NoCall
    /\ UNCHANGED <<sess, link, seSess, opening, ks>>

(* The caller's variables go out of scope and are set to zero before they  *)
(* are used again.                                                         *)
Reset ==
    /\ Free
    /\ sess["tun"].sub = NONE
    /\ ks' = NoHandle /\ obj' = NoHandle /\ ctx' = NoHandle
    /\ call' = NoCall
    /\ UNCHANGED <<sess, link, seSess, opening>>

-----------------------------------------------------------------------------
(* Calls.                                                                  *)

(* A call goes to a back end, or returns kStatus_SSS_InvalidArgument.      *)
CallOf(f, cell, made) ==
    [reached |-> Reached(f, cell), made |-> made, ready |-> cell # NONE => Ready(cell)]

SessionCall(cell) ==
    /\ Free
    /\ \E f \in CallsOn.session : call' = CallOf(f, cell, SessionSub(cell))
    /\ UNCHANGED <<sess, link, seSess, opening, ks, obj, ctx>>

Call(given) ==
    /\ Free
    /\ Handle(given) # NoHandle
    /\ Handle(given).kind = given
    /\ \E f \in CallsOn[given] : call' = CallOf(f, CellOf(f.via), Handle(given).made)
    /\ UNCHANGED <<sess, link, seSess, opening, ks, obj, ctx>>

(* The functions of OneGo.  Sign, verify, mac_validate_one_go and the two  *)
(* that wrap a key are called without dispatch.                            *)
OneGoFn ==
    [sign_digest |-> sss_asymmetric_sign_digest, verify_digest |-> sss_asymmetric_verify_digest,
     sign |-> Fn("asymmetric", SeOnly), verify |-> Fn("asymmetric", SeOnly),
     encrypt |-> sss_asymmetric_encrypt, decrypt |-> sss_asymmetric_decrypt,
     cipher_one_go |-> sss_cipher_one_go, cipher_one_go_v2 |-> sss_cipher_one_go_v2,
     mac_one_go |-> sss_mac_one_go, mac_validate_one_go |-> Fn("mac", SeOnly),
     digest_one_go |-> sss_digest_one_go, get_random |-> sss_rng_get_random,
     export_key |-> Fn("key_store", SeOnly), import_key |-> Fn("key_store", SeOnly),
     derive_key_go |-> sss_derive_key_go, derive_key_one_go |-> sss_derive_key_one_go,
     derive_key_sobj_one_go |-> sss_derive_key_sobj_one_go, derive_key_dh |-> sss_derive_key_dh]

(* A bound: the one-go calls are made in one setting of the sessions.      *)
OneGoSetting ==
    /\ sess["se"].auth = "None" /\ ~sess["se"].skip /\ sess["tun"].sub = NONE /\ sess["host"].sub # NONE
    /\ ks.cell = "se" /\ obj # NoHandle

OneGoCall(o) ==
    /\ Free /\ OneGoSetting
    /\ LET f == OneGoFn[o.fn]
       IN  /\ Handle(f.via).kind = f.via /\ CellOf(f.via) = "se"
           /\ Reached(f, "se") = "SE05X"
           /\ call' = CallOf(f, "se", Handle(f.via).made)
    /\ Start(o)
    /\ UNCHANGED <<sess, link, seSess, opening, ks, obj, ctx>>

-----------------------------------------------------------------------------

Init ==
    /\ OneGoInit
    /\ sess = [cell \in Cells |-> Zeroed] /\ link = 0 /\ seSess = {} /\ opening = NotOpening
    /\ ks = NoHandle /\ obj = NoHandle /\ ctx = NoHandle /\ call = NoCall

Sessions ==
    \/ \E cell \in {"se", "tun"}, auth \in PlainAuths \cup TunnelAuths, conn \in Connections,
          app, skip, transport, policy \in BOOLEAN :
          SessionOpen(cell, auth, conn, app, skip, transport, policy)
    \/ OpenStep \/ OpenDone \/ OpenFail \/ SessionClose \/ HostSessionOpen \/ HostSessionClose

Handles ==
    \/ \E cell \in Cells : KeyStoreInit(cell) \/ \E kind \in ContextKinds : ContextInit(kind, cell)
    \/ KeyObjectInit \/ KeyStoreFree \/ KeyObjectFree \/ ContextFree \/ Reset

Next ==
    \/ (Sessions \/ Handles) /\ UNCHANGED oneGoVars
    \/ \E cell \in Cells : SessionCall(cell) /\ UNCHANGED oneGoVars
    \/ \E given \in DOMAIN CallsOn \ {"session"} : Call(given) /\ UNCHANGED oneGoVars
    \/ \E o \in Calls : OneGoCall(o)
    \/ (OneGoStep \/ Forget) /\ UNCHANGED apiVars

Spec == Init /\ [][Next]_vars

-----------------------------------------------------------------------------

(* A link is open exactly as long as a session on it is or is being        *)
(* opened: an open that fails at any of its steps has closed the link it   *)
(* had set up, and neither it nor a close leaves a link nobody can close   *)
(* or takes the link from under a session that goes on.                    *)
LinkReleased ==
    link = Cardinality({cell \in {"se"} : sess[cell].sub = "SE05X"})
           + IF opening.connected THEN 1 ELSE 0

(* A call is carried out by the back end that made the handle it is given, *)
(* in a session that has been authenticated as asked for when it was       *)
(* opened and that the SE still knows, or it is refused: whichever handles *)
(* have outlived their sessions, and whatever sessions are opened beside.  *)
(* Excepted is a session asked for in a way that contradicts itself, which *)
(* is not stopped if EarlierOk; all others asked for so are never opened.  *)
ServedByItsSession == call.reached # NONE => call.reached = call.made /\ call.ready

=============================================================================
