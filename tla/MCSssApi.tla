------------------------------ MODULE MCSssApi ------------------------------
(***************************************************************************)
(* The calls made in TLC's runs of SssApi.                                 *)
(***************************************************************************)
EXTENDS SssApi

Hashes == {"SHA1", "SHA256", "SHA512"}
RawLens == {0, 53, 54, 64, 65}

RsaAlgs == {"RSASSA_PKCS1_PSS_MGF1", "RSASSA_PKCS1_V1_5"} \X Hashes

(* What is signed: a digest of the length of its hash or one byte more.    *)
Given ==
    {[alg |-> a, n |-> HashLen[a[2]] + more] : a \in RsaAlgs, more \in {0, 1}}
    \cup [alg : {NO_HASH, NO_PADDING}, n : RawLens]

SignDigests ==
    {[fn |-> "sign_digest", cipher |-> "RSA", alg |-> g.alg, n |-> g.n] : g \in Given}
    \cup [fn : {"sign_digest"}, cipher : {"EC"}, alg : {<<"SHA", "SHA256">>}, n : {32, 33}]

Others(alg) == {<<"RSASSA_PKCS1_V1_5", "SHA256">>, <<"RSASSA_PKCS1_PSS_MGF1", "SHA256">>} \ {alg}

(* Blocks a signature can hold: of the digest or another one, in the form  *)
(* asked for or another one.                                               *)
Blocks(g) ==
    {[form |-> g.alg, of |-> of, n |-> g.n, size |-> size] : of \in {"given", "other"},
        size \in {s \in RsaSizes : Proper(g.alg, g.n, s)}}
    \cup {[form |-> f, of |-> "given", n |-> HashLen[f[2]], size |-> 128] : f \in Others(g.alg)}

VerifyRsa ==
    UNION {{[fn |-> "verify_digest", cipher |-> "RSA", alg |-> g.alg, n |-> g.n,
             sig |-> [ver |-> v, block |-> b]] : v \in {0, 1}, b \in Blocks(g)} : g \in Given}

Sigs(orders) == [ver : {0, 1}, of : {"given", "other"}, order : orders]

VerifyOthers ==
    [fn : {"verify_digest"}, cipher : {"EC"}, alg : {<<"SHA", "SHA256">>}, n : {32, 33}, sig : Sigs({"standard"})]
    \cup [fn : {"verify"}, cipher : {"RSA"}, alg : RsaAlgs, sig : Sigs({"standard"})]
    \cup [fn : {"verify"}, cipher : {"ED"}, alg : {<<"SHA", "SHA256">>, <<"SHA", "SHA512">>},
          sig : Sigs({"standard", "se"})]

Signs ==
    [fn : {"sign"}, cipher : {"RSA"}, alg : RsaAlgs]
    \cup [fn : {"sign"}, cipher : {"ED", "MONT"}, alg : {<<"SHA", "SHA256">>, <<"SHA", "SHA512">>}]

Crypts ==
    [fn : {"encrypt", "decrypt"}, cipher : {"RSA"},
     alg : {<<"RSAES_PKCS1_OAEP", "SHA1">>, <<"RSAES_PKCS1_OAEP", "SHA256">>,
            <<"RSAES_PKCS1_V1_5", "SHA256">>, NO_PADDING}]

Ciphers ==
    [fn : {"cipher_one_go", "cipher_one_go_v2"}, cipher : {"AES"},
     alg : {<<"AES", "CBC">>, <<"AES", "CTR">>, <<"AES", "CTR_INT_IV">>, <<"AES", "GCM">>,
            <<"DES3", "CBC_ISO9797_M1">>},
     mode : {"Encrypt", "Decrypt"}, whole : BOOLEAN]

Macs ==
    [fn : {"mac_one_go"}, cipher : {"AES"}, alg : {<<"CMAC", "AES">>, <<"HMAC", "SHA256">>, <<"HMAC", "SHA224">>},
     mode : {"Mac", "Mac_Validate", "Sign"}, sig : Sigs({"standard"})]
    \cup [fn : {"mac_validate_one_go"}, cipher : {"AES"}, alg : {<<"CMAC", "AES">>, <<"HMAC", "SHA224">>},
          mode : {"Mac_Validate"}, sig : Sigs({"standard"})]

Plain ==
    [fn : {"digest_one_go"}, cipher : {"none"}, alg : {<<"SHA", "SHA256">>, <<"HMAC", "SHA224">>}]
    \cup [fn : {"export_key", "import_key"}, cipher : {"EC", "RSA"}, alg : {NA}]
    \cup [fn : {"get_random"}, cipher : {"none"}, alg : {NA}, n : {0, 2, 5}]

Stores == {"none", "own", "sibling", "host"}

Derives ==
    [fn : {"derive_key_go", "derive_key_one_go", "derive_key_sobj_one_go"}, cipher : {"HMAC"},
     alg : {<<"HMAC", "SHA256">>, <<"HMAC", "SHA224">>}, mode : {"ExpandOnly", "ExtractExpand"},
     salt : {"bytes", "object", "foreign object"}, derived : Stores]
    \cup [fn : {"derive_key_dh"}, cipher : {"EC", "MONT"}, alg : {<<"ECDH">>}, derived : Stores]

CallsMade ==
    SignDigests \cup VerifyRsa \cup VerifyOthers \cup Signs \cup Crypts \cup Ciphers \cup Macs \cup Plain \cup Derives

=============================================================================
