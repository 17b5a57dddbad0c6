# Formal model of the Plug & Trust middleware (mini package)

TLA+ modules that model the host side of the NXP Plug & Trust middleware, TLC
configurations that check them on small instances, and TLAPS proofs of what holds for
every value of the constants. Paths are relative to the repository, which is under `src/`.

    tlc -config MCT1Link_link_safety.cfg MCT1Link      # one run; PROJECT.json lists them all
    tlapm T1Link_proofs.tla                            # the proofs of one module

## 1. The system

The middleware lets an application use a secure element (SE) on an I2C bus. A call goes
down the layers below; every layer keeps a little state, most of it in globals.

| Component | State | Operations | What makes it correct |
|---|---|---|---|
| **T=1 protocol** `phNxpEseProto7816_3.c` | one global: context of the next frame and of the last, number of the last I-frame received, response buffer, four error counters, `nextTransceiveState` | Open, Transceive, Close, IntfReset, ChipReset, GetAtr, Deep_Pwr_Down; DecodeFrame, ProcessResponse and recovery inside each | a command reaches the SE whole and once; an answer reaches the caller whole, once and as the answer to its own command; every call returns |
| **ESE API** `phNxpEse_Api.c`, **PAL** `phNxpEsePal_i2c.c`, `i2c_a7.c` | `EseLibStatus` of each context, the device | open, init, Transceive, close; waitForWTX clears what a previous process left behind; read and write with polling | one exchange at a time; an old operation does not disturb a new session |
| **smCom** `smCom.c`, `smComT1oI2C.c` | two locks, a count of sessions, two function pointers | Init, DeInit, Transceive | exchanges are serialised; the mutex exists while it is used |
| **Connection** `sm_connect.c` | the context handed to the caller | SM_I2CConnect, SM_Connect (SELECT), SM_Close | every failed opening is undone |
| **SCP03 channel** `nxScp03_Com.c`, `fsl_sss_se05x_scp03.c`, `fsl_sss_se05x_eckey.c`, `sss_se05x_TXn` | `pdynScp03Ctx`: session keys, command counter, MAC chaining value; `scp03_lock` | authenticate; encrypt, MAC, send, verify, decrypt for each command | host and SE agree on counter and chaining value after failures too; an answer is only decrypted for its command |
| **APDU and TLV** `se05x_tlv.c`, `se05x_APDU_impl.h` and its siblings | whether there is a session | one function per command of the applets; TLV set and get; wrapping for a session and for SCP03 | the SE gets what the call was given; OK means that the SE said so and every field was read |
| **SE05x sessions and SSS back end** `fsl_sss_se05x_apis.c` (9000 lines), `fsl_sss_se05x_mw.c`, `_policy.c` | sessions, key stores, key objects, and contexts of ciphers, AEAD, MAC, digests with a partial block | open, close; set and get keys; one-go and init/update/finish operations; chunked data | a context's buffer holds what was not yet sent; failures leave nothing open |
| **SSS dispatch** `fsl_sss_apis.c` | none | selects the back end by the session a handle points to, at the time of the call | what a handle is used for reaches the back end and the session that made it |
| **Host key store** `keystore_*.c` | a table of key objects in memory, its file, one file per key | load, save, add, remove | table and files agree after a crash |
| **Host crypto** `openssl/`, `mbedtls/` | handles of the library | adapters | as the library |
| **Utilities** ASN.1, RSA padding, curves | none | encode, decode, pad, verify | inverse functions, within bounds |
| **Reset, timers, logging, examples** | none | I/O | |

### How they interact

An application thread calls `sss_*`; the SE05x back end formats an APDU; `sss_se05x_TXn`
wraps it for the SCP03 channel, under `scp03_lock` on the platform channel; `smCom_TransceiveRaw` takes
`gSmComlock`; `phNxpEse_Transceive` marks its context BUSY; the protocol cuts the APDU into
I-frames and loops: send one frame, read one, decode, choose the next. There are no
callbacks and no threads of the middleware's own: concurrency comes from application
threads, from the SE, which works on its own, and from processes that die while it does.

### What is hard

* **Delivery.** Frames are lost, corrupted and late; recovery is spread over five functions,
  and what an R-NACK repeats depends on notes that three others leave.
* **State that outlives its use.** The SE outlives the host process; the protocol's
  instance outlives a connection, a response pointer outlives its call.
* **Agreement after failure.** The SCP03 counters must agree though the host often cannot
  know whether the SE executed a command.
* **Liveness.** Several loops are bounded by counters that other branches reset.
* **Threads.** Counters, chaining value and the mutex's life are shared.
* **Numbers.** uint8_t and unsigned long counters compared with `==`; buffer sizes.

`PROJECT.json` lists each hazard at its line, with the properties that would catch it.

## 2. The modules

| Module | Models | Builds on |
|---|---|---|
| `T1oI2C` | the protocol, waitForWTX and chipReset; the frames received are arbitrary | |
| `T1Link` | the same composed with an SE and a faulty bus | EXTENDS `T1oI2C`; `INSTANCE ApduTransport` |
| `ApduTransport` | the abstract promise of `phNxpEse_Transceive` | |
| `Scp03` | `sss_se05x_TXn`, its threads, the lock and the SE's half of the channel | EXTENDS `ApduTransport`, its link |
| `SmCom` | locks, count and status over the life of connections | |
| `Tlv` | fields, lengths and wrapping of commands; reading of answers | |
| `CommandTable` | the 141 commands the library can send, one definition each | EXTENDS `Tlv` |
| `Commands` | a call of such a function: its command, the SE's answer, what the caller gets | EXTENDS `CommandTable` |
| `SssContexts` | contexts of ciphers, AEAD, MAC and digests in the three back ends, the crypto objects of the SE | |
| `SssObjects` | keys, files and curves of the SE, set, generated, read and erased by two clients | |
| `OneGo` | the one-go operations of the SE05x back end and the RSA encodings | |
| `SssApi` | sessions, opened step by step; the dispatch; the composition with one-go calls | EXTENDS `OneGo` |
| `KeyStore` | the key stores of the host back ends, their files, crashes | |
| `MCT1oI2C`, `MCT1Link`, `MCScp03`, `MCCommands`, `MCSssContexts`, `MCSssObjects`, `MCSssApi`, `MCKeyStore` | values of the constants for TLC | |
| `T1Link_proofs`, `Scp03_proofs`, `SmCom_proofs`, `SssApi_proofs`, `SssContexts_proofs`, `KeyStore_proofs`, `SssObjects_proofs`, `Commands_proofs` | theorems | |

The modules follow the layers. Two are composed with the layer below as a module: `T1Link` puts the protocol on a
bus with an SE, and `Scp03` runs on what `T1Link` is shown to implement. Above SCP03 a command is one step that
may fail before or after the SE has executed it, which is what ApduTransport promises and no more.

### T1oI2C

The variables are the fields of `phNxpEseProto7816_3_Var` under their own names. `LastTx` and
`NextTx` are the two contexts; `rspData` is what was saved of the response
(`responseBytesRcvd` is its length) and `pRsp` says whether its pointer is null, that of the
running call, or that of one that has returned. `pc`, `op` and `status` stand for the control of
TransceiveProcess and of the function that called it; `loopcnt` is waitForWTX's.

One action is one handler. `SendOk` and `SendFails` are sendIframe, sendRframe and SendSFrame with
what TransceiveProcess does after them; `RecvIframe`, `RecvRframe` and `RecvSframe` are
DecodeFrame with CheckCRC before it and the loop's end after it; `BadCrc` and `ReadFails` are the other
branches of ProcessResponse. `WtxSend`, `WtxRead`, `WtxReadFails` and `ClearThenRSync` are
phNxpEse_waitForWTX and clearReadBuffer. The operations (`Open`, `Transceive`, `Close`, ...) set up
their first frame and start the loop. `Restart` is a process that dies and starts again.

Payload is a sequence of units; a fragment is a command, an offset and a length. Counters keep
their wrap-around, with ranges given by constants. The build is the UM11225 one (`T1oI2C_UM11225`):
the GP 1.0 frames are not modelled, nor is SetIfscSize, which nothing calls.

### T1Link

Each direction of the bus holds one frame. The host's half is `T1oI2C`, each of its sends and receives
joined to the bus (`LinkSend`, `LinkReceive`, `LinkWait`). The SE is external and
modelled from what the host's code expects of it: it takes an I-frame with the number it
expects, acknowledges, executes, may ask for time, answers, repeats a block when asked, and
resets its numbers on RSYNC, interface and chip reset. Faults, each counted: a frame corrupted, lost
or late, a write that fails, a host that dies, an SE that loses its supply or goes silent.

Two assumptions about the SE matter. It drops an answer that the host has not read when the host
writes again, the protocol being half-duplex; without this a single late answer can shift the
answers by one. And when it is asked for a block it does not have it either asks for the one it
misses, or repeats its last acknowledgement (`RepeatsRAck`); link_safety allows both.

One assumption about the caller: after a Transceive that failed or gave no byte it opens
the connection again, as the comment at `phNxpEseProto7816_3.c:1346` asks.

### ApduTransport

Commands are issued one at a time, the SE executes each at most once and in order, and a call returns a
prefix of its own answer or fails. It promises neither that a failed command was not executed nor
that the answer is complete: the code does not keep more (see "Known deviations").
`T1Link!ImplementsTransport` is the refinement, checked by link_safety and proved when no frame is
damaged (LinkImplementsTransport); `Scp03` uses the abstraction, so what is
checked there holds over whatever the link may do within the promise.

### Scp03

A thread in `sss_se05x_TXn` is at `pc`: encrypt (the ICV is made from `cCounter`), mac (chaining value read and
written), send, wait. `channel` holds `authType` of the context and whether the session's own is
the platform one: which commands count, and what a failed call leaves in the buffer, depend on both.
A MAC is the number of the command it was made for; data decrypts with the ICV it was encrypted with only.
The SE counts as the host does when all goes well. The host's crypto may fail on the way out (`TransformFails`) and on the way back, where
nxpSCP03_Decrypt_ResponseAPDU then leaves before it counts (`nxScp03_Com.c:159`-177, 206-217); the ghost `uncounted` says how many answers
of the channel were lost to that. Key derivation and the cryptograms are not
modelled: opening a channel is one step that succeeds on both sides or on the SE's only.

### SmCom

`SmCom` follows a thread through smComT1oI2C_Init, phNxpEse_init, smCom_Init, SELECT, exchanges, and SM_Close;
failures can happen at each stage. A session is opened and closed only while no other thread uses it,
as `fsl_sss_api.h:823` requires; the locks are all that separates different sessions. POSIX
build; a mutex's creation does not fail. One SE is modelled: connections to several would share the
protocol's one instance, which `PROJECT.json` lists as a hazard.

### SssContexts

A context of `kind` keeps in `ctx` what the code keeps: whether it has a `cryptoObjectId`, the units in
`cache_data`, the collected message and last AAD of the host's CCM. `object` holds the crypto
objects of the SE, one for each algorithm and shared by all contexts of it, and the libraries' objects. Data is a
sequence of units, each a message and a place in it, so that a unit lost, doubled or of another message
shows. An operation is a sequence of requests (`Chunks`, `AadReqs`, `FinishReqs`) that is cut off where one is
refused or fails (`Ends`); the SE may or may not have done the one that failed. What an object refuses
(`Takes`) is external: whole blocks, the announced length of CCM, an existing object.

`app` is the application: AAD before data, no more calls for a message after one failed, a new
message of another context on the same object ends the old one. Ciphers are freed before an abandoned
message is begun anew (`Restarts`): cipher_init does not forget the cached bytes as aead_init does. mbed TLS's
AEAD and OpenSSL's CCM get their AAD in one call (`AadInChunks`), because they keep the last piece only.
The kinds are those of each back end that differ in what they keep or send. mbed TLS's ciphers are one kind
encrypting and four decrypting (AES and DES, CBC and the others), because its cipher_finish then feeds 16 units of zeros after the last block, two blocks of
DES (`Dummy`). That brings out the block which its CBC keeps back when it decrypts; what CBC still keeps at the end is not given out (`GivenOut`), and
of what is given out the zeros in `done.dummy` are no part of the message (`Behind`). The result of mbedtls_cipher_finish is ignored (`Looked`).
One action is one function, with `UpdateShort` and `UpdateBlocks` the two branches of
update. Output buffers are large enough.

### Tlv, CommandTable, Commands

A command is a sequence of items: bytes whose value matters (header, tags, lengths, Lc, Le) and whole values, of which
only size and origin do. `Tlv` has the setters of `se05x_tlv.c` as records of what they write
(`U32`, `KeyID`, `U8bufOptional`, ...), the lengths of DoAPDUTxRx and the two wrappings, for the applet's session and for SCP03;
reading an answer is the chain of `tlvGet_*` with its buffers. `CommandTable` has one definition per API function, its
parameters those that choose the header or the fields. In `Commands` a call becomes a command; the SE takes it apart
by ISO 7816-4, with no knowledge of the encoder, and answers anything: the fields promised,
one more, one less, one of the wrong success, an error, or nothing. The function then reads it one `TlvGet` after the other, `reader` being its rspIndex and
status so far: `Looked` are the gets its arguments make it try, `Place` where in a promised answer the field of each is. `GivesUp` is where a function returns before it sends.

Not modelled: the copy of the command that `*_W_Attst_V2` returns, GetFreeMemory and HKDF as built for applets with 52F,
SelectT4TApplet, verbose logging. Commands within 30 bytes of the 1024 byte buffer and answers
larger than the response buffer are not among the inputs.

### SssObjects

One identifier on the SE, two clients that each hold a handle of it. A call of `sss_se05x_key_store_*` or
`key_object_*` is a sequence of commands, each an action (`Exchange`): executed and answered, refused, or
failed before or after the SE executed it; the other client's commands come between. `object` is the SE's object with what was
written to each place (component of a key, unit of a file), `curve` the steps done to create each curve, `client` the handle and the locals of
the running call. The SE is external: it creates where the code gives what creation needs, and refuses that for an
object that exists.

Ghosts in `client`: `faulty` (a command of this call failed), `clean` (nobody else changed object or curve since), `fits` (nothing in sight
speaks against the call), `given` and `got` (what was handed over and back). Files are persistent. Handles with the options 0 are outside `WholeAfterSuccess`.
Attesting keys, DER headers and policies are left out.

### OneGo and SssApi

`OneGo` follows a one-go call: its steps are the commands to the SE with what the host computes between them, `loc` its locals and
`out` what the caller gets. Another client may replace the key, by one of another size, between any two commands; a command
may fail with or without the throughput status. The RSA encodings are modelled by which inputs they accept
and by what they make of them (`Block`); hashes and ciphers by name.

`SssApi` has three cells a caller may open a session in: one with its own link, one tunnelled over it, one of the host's library.
Opening is a list of steps (`Steps`), each of which may fail before or after the SE has executed it (`OpenFail`);
`seSess` is what applet sessions the SE knows, `link` counts connections. The kind of authentication, the connection type, the application id and
skip_select_applet are the caller's, in any combination; `Fits` says whether the last three go with the first, where session_open looks at them, and a session that got
past that without authenticating anything is `Unasked`. Each function of `fsl_sss_apis.c` is a record: which
handle's session it looks at (`via`) and the back ends it then calls (`serves`), both from its `#if` branches. A handle holds the cell it
points to and, as a ghost, the back end that made it (`made`).

Rules for the caller, from `fsl_sss_api.h` and the code's own comments: one session per cell at a time, no opening in a cell that handles still point to, no close of the base
under a tunnelled session. One-go calls are made in one setting of the sessions only (`OneGoSetting`), a bound: they read nothing of the
sessions but that they are there. A session policy is one optional step; refresh_session and the retries of JRCP
builds are not modelled.

### KeyStore

`table` is keystore_shadow, `fat` its file, `files` one file per key, `objects` what the program has loaded. Saving and erasing are
sequences of file operations (`StoreOpen`, `StoreKey`, `FatOpen`, `FatWrite`, `Unlink`), each of which may fail, and
the process may die between any two (`Crash`; between calls that is `ContextFree`). A file opened for writing is empty until it is
written; a close may lose its tail. OpenSSL and mbed TLS differ in where they stop and in the status they return; both are
modelled, chosen in `Init`. Ghosts: `saved` is what a successful save has promised (`Kept`), `touched` the keys
a file operation of the running call may have disturbed, `erased` the keys erased and not allocated since.

Not modelled: transient objects, EC public keys that d2i_PublicKey reads back, user and purpose attributes, migration of older tables,
Montgomery pairs in mbed TLS's store, which are saved but never loaded (see Known deviations).

## 3. The runs

| Run | Question | Properties that hold |
|---|---|---|
| `host_open` | Does the protocol's state stay consistent when the SE may send anything? | TypeOK, AwaitsForLast, FrameMatchesContext, RepeatOrRenumber, NoReturnedBuffer |
| `link_safety` | Is each command executed whole and once, and each answer that of its command, with up to two faults? | ExecutedWhole, SendsOnlyOwnCommand, OwnAnswerPrefix, NotCutShort, ImplementsTransport |
| `link_one_fault` | Is one lost, corrupted or late frame always repaired? | Repaired |
| `link_live` | Does every call return, with every kind of fault? | CallsReturn |
| `scp03` | Do host and SE stay in step on every kind of channel? | InStep, Kept, OwnPlainAnswer, LockReleased |
| `sessions` | Are locks, mutex and count right over the lives of sessions? | MutexAlive, NeverRefused, CountIsExact, LocksGivenBack |
| `commands` | Does the SE get each of the commands as it was meant, and does OK mean OK? | SentAsGiven, OkIsWhole, TakesGoodAnswer, ClosedForReal |
| `contexts` | Is a finished message exactly what was given, however it was cut and whatever failed? | TypeOK, ExactMessage, ExactAad, NotRefused, NothingLeft |
| `objects` | Is what a set_key or generate_key reported really there, and do failures leave nothing in the way? | WholeAfterSuccess, FailsForReason, ReadsWhole, HandleMatches |
| `keystore` | Are saved keys found and erased keys gone, wherever the process dies? | SavedIsDurable, ErasedIsGone, GetsSaved |
| `api` | Do sessions, dispatch and one-go calls keep what they promise, whichever step fails? | LinkReleased, ServedByItsSession, ReturnIsRight, VerifyTellsTruth |
| `emsa` | Is what is signed always encoded, as the comment above emsa_encode says? | SignsEncoded is violated |

There is one run for each question. What the passing runs claim is bounded as follows: `OwnAnswerPrefix` excepts success without
a byte and is checked with two faults; `link_live` assumes an SE that asks for the block it misses;
`InStep` excepts calls that fail over a plain link (`Sound`), and says of a channel with answers `uncounted` that the host is behind by just these;
`OwnPlainAnswer` holds while there are none; Scp03's run uses, on
the older platform channel, only commands with data (`MCLens`); `ExactAad` holds for AAD in one piece where the
back end keeps the last; `ExactMessage` counts the block of zeros that mbed TLS gives out behind what it decrypts in other modes than AES's CBC, and `NotRefused`
excepts its decrypting with DES in ECB; `ServedByItsSession` excepts sessions that were opened `Unasked`; `SavedIsDurable` excepts the keys whose file, or whose table, a step of the same call has opened, because
the code has no second copy; `ReturnIsRight` excepts a PSS encoding that was given up, which `emsa` is about. `link_live`'s assumption is needed: an SE that repeats its last
R-ACK when asked with an R-NACK (`RepeatsRAck`) resets the host's recovery counter each time, and the call never returns.

### Known deviations

The models reproduce the following; the properties above are worded so that they hold beside them.

* Transceive returns TRUE without an answer after too many WTX requests or an interface reset (`phNxpEseProto7816_3.c:932`).
* With three faults, the answer to a previous process's operation reaches a new session (`phNxpEseProto7816_3.c:653`).
* With four, ExecutedWhole fails: when recovery gives up after an R-NACK the status stays TRUE (`phNxpEseProto7816_3.c:653`, `:715`), so that
  Open goes on with GetAtr although the SE has acknowledged neither RSYNC nor the interface reset. It still has the first fragments
  of a command of the process that died before, and takes the next command for their end.
* On the older platform channel, error answers are not counted as the SE counts them (`se05x_tlv.c:883`).
* After a failed call over a plain link, an answer that was not deciphered is reported as success (`nxScp03_Com.c:242`).
* An answer whose MAC or ICV the host's crypto cannot compute is not counted (`nxScp03_Com.c:159`-177, `:206`-217), though TXn deciphers whatever the
  link returned to have it counted (comment at `fsl_sss_se05x_apis.c:7830`). The host's counter is then behind the SE's, and later answers that
  cannot be deciphered with it are reported as success (`nxScp03_Com.c:242`).
* Of openings with a session's authentication whose connection type or application id do not go with it, those that have a status of success from an earlier command
  succeed, with nothing authenticated and no fp_Transform (`fsl_sss_se05x_apis.c:608`): tunnelled ECKey, by GetVersion (`:522`), and
  those that leave out the SELECT (`:447`).
* mbed TLS's cipher_finish gives out a block of dummy data behind what it decrypts with AES in ECB or CTR and with DES in CBC, cannot decrypt with DES in ECB
  at all (`fsl_sss_mbedtls_apis.c:1926`), and ignores the result of mbedtls_cipher_finish (`:1938`).
* A Montgomery pair saved with mbed TLS cannot be loaded: load_key passes 8 times the file's size as bit length (`keystore_pc.c:353`), which set_key
  refuses for these curves (`fsl_sss_mbedtls_apis.c:3263`).
* The host's CCM keeps the last piece of AAD only (`fsl_sss_openssl_apis.c:2767`, `fsl_sss_mbedtls_apis.c:2166`).
* A counter set to 0 is sent without its value (`se05x_APDU_impl.h:582`).
* An object allocated with options 0 becomes transient (`fsl_sss_se05x_apis.c:1058`; `fsl_sss_api.h:1041`).
* A file of no bytes is reported as set, and no object is made (`fsl_sss_se05x_apis.c:3699`).
* valid_number is not set when a file is read with attestation (`fsl_sss_se05x_apis.c:4951`).
* Saving writes the whole buffer of a key, not its size (`keystore_openssl.c:202`, `keystore_pc.c:385`): a key set shorter than it was
  allocated is found longer.
* A PSS encoding that fails is reported as success and the unencoded buffer is signed: run `emsa`.
* pkcs1_v15_encode_no_hash turns a throughput error of its first ReadSize into a failure.
* In builds with SSS_USE_SCP03_THREAD_SAFETY, whose lock `Scp03` models, session_open does not close the link when it cannot make the mutex; that failure is not modelled.

### Bounds, and why they are enough

* *Fragments.* IFSC is one unit and commands have up to 3 fragments, answers 2: first, middle
  and last fragment, and the single one, all occur. Sequence numbers have one bit, so four
  fragments would repeat what two do.
* *Retries.* FRAME_RETRY_COUNT is 2 or 3, RNACK_LIMIT 1 or 2, WTX_LIMIT 2 or 3, where the code has 10, 2 and 500:
  each limit is reached, and crossed from both sides, within the faults allowed. UINT8_RANGE and ULONG_RANGE are
  large enough in the link's runs that the counters do not wrap, and 3 in `host_open`, where they do.
* *Commands.* Three, so that an answer may belong to the one before or the one before that.
* *Faults.* Two at a time where safety is checked (a fault during recovery from another), one for
  `Repaired`. With three and four, safety is lost: the second and third of the known deviations.
* *Sessions.* Two openings: the second meets what the first left. SCP03: two commands, two
  threads and two authentications in the passing run; four openings of two sessions by three threads in `sessions`.
* *Contexts.* A block is two units and a chunk two blocks. Pieces of 1 and 6 units, and last pieces of 0 and 1, end
  inside a block, on it and one beyond, with the cache empty and not; 6 units need several chunks. Two contexts, two messages
  and one fault: a message after a failed one, and one beside another on the same object. Contexts of different kinds
  share nothing, so each behaviour has one kind.
* *Commands' arguments.* Each of the 141 commands with all arguments given and with none, and each argument in turn empty and at
  lengths 128, 255 and 1100 (one byte, two and three of length; too long for the buffer), WriteBinary at every length from 0 to
  320, in and out of a session and SCP03. Answers of 0, 1, 128, 256 and 257 bytes, where the caller has room for 256. A call keeps nothing but
  whether there is a session, so that longer histories add nothing.
* *Objects.* Two clients, two handles filled in, two calls, one failed command and one closed session: a call after a failed one, one beside another, and
  transient objects lost. One curve the SE must be told of and one
  Montgomery curve; files of 0, 2 and 3 units in pieces of 2: none, whole and with a rest. Kinds stand for all that the code treats alike.
* *Key store.* A table of two entries, two identifiers, symmetric keys of one and two entries and pairs (`Kinds` without "bin", which differs from "aes" in
  its one entry only): a table that is full, a key that does not fit, entries left behind. Two calls that allocate or change, any number that load,
  save, erase or free; one fault.
* *API.* RSA keys of 64, 128 and 512 bytes, between which the encodings change from refused to accepted; digests of the hash's length and one more;
  random data of none, one and three pieces; two faults and two replacements of the key. OpenSSL as host library: mbed TLS's differs in the
  derivation of keys only, and the proofs cover both.
* `MaxOpens` also stands for the width of g_no_of_session: `SmComAssumption` keeps it below 256.

CHECK_DEADLOCK is FALSE where the bounds end a behaviour (all commands used, all openings made).

### Fairness

`FairLinkSpec` has weak fairness of the host's loop and of the SE. The loop is sequential code
that never waits without a time-out (the PAL polls a bounded number of times), and the SE's
steps include going silent for good, so fairness of the SE asks only that a frame it was given is
looked at or ignored. Faults have none. `Scp03`: each thread inside TXn goes on, and `LinkFails`
is fair, which `CallsReturn` of the link justifies: a call ends if only by failing. `SmCom`: a thread inside smCom that can go on
does; nothing obliges a thread to open, call or close. No lock is assumed to be fair.

## 4. The proofs

`T1Link_proofs` has the theorems of both `T1oI2C` and `T1Link`. Of `T1oI2C` it proves, for all limits, counters' ranges, buffer sizes, commands and received
frames, the five invariants of `host_open` and one more, that R-NACKs have an error code and R-ACKs none: TypeCorrect, RepeatsTheLast,
FramesMatch, NacksAreNacks, Renumbers, BuffersAreLive.
None but the type invariant is inductive. The frame that goes out next is set up by one handler and
judged by another two steps later, so `IInv` says that whenever a frame is sent or its answer awaited, the
context is *sendable* from the state: right type, right code, right number (`Sendable`). A
repetition is sendable because the next context equals the last while an answer is awaited (`AwaitsForLast`),
which is why that conjunct must be part of the induction. `WaitBounded` bounds waitForWTX's loop, for the type. There is one lemma
per handler; they share lemmas on the three kinds of context, on recovery and on SaveRxframeData.
Assumptions: `CountersAssumption` and `DataAssumption` of the module (limits are naturals, the
ranges leave room for them, frames carry units).

Of `T1Link` it proves that the protocol on the link is the protocol in an environment that may send anything (LinkKeepsToProtocol): an action of the link is one of the
protocol, given frames the SE can send, or leaves its variables alone. So the theorems above hold on the link (ProtocolHoldsOnLink). It also proves SendsOnlyOwnCommand for any
commands, answers and kinds of fault, and any number of faults (OnlyOwnCommandIsSent): `SetNextIframeContxt` checks neither that a command runs nor that it has
another fragment, and what spares it is where R-ACKs can be. `LInv` says that: the host is asked for the fragment
before the SE or for the next, if there is a next (`OnCommand`); whoever has no command has asked the SE for a block before, or reads an answer that is no
R-ACK (`OffCommand`); and between the commands of a session nothing is under way (`AtRest`). `HalfDuplex` keeps one frame at a time
on the bus, without which none of that is inductive. Assumptions: those of the protocol, `FaultsAssumption`, and `AnswersAssumption`, by which the SE's answers are not empty and fit its frames.

Last, what becomes of commands and answers: ExecutedWhole, OwnAnswerPrefix, NotCutShort and ImplementsTransport (CommandsArriveWhole, AnswersAreItsOwn, AnswersAreWhole,
LinkImplementsTransport), for any limits, lengths and answers and any number of faults and openings, when `NothingDamaged`: no corrupted frame and no loss
of the SE's supply. Frames lost or late, failed writes, a host that dies in the middle of a command and an SE that goes mute all stay in. The hypothesis is needed. A
frame with a bad CRC is answered by an R-NACK even in Open, and the second and third of the known deviations start there; an SE that
lost its supply has forgotten its numbers and takes a repetition for a new fragment. `CommandsFit` (lengths are
unsigned ints) keeps SetNextIframeContxt from its overflow branch; it is no assumption of the module because `host_open` reaches that
branch on purpose. The refinement also needs a finite set of commands, as its constant is their number.

The invariant is `Locked`. For the fragment `f` in the next context the SE waits for it (`Wanted`), has it and waits for the next (`Taken`), or has executed the
command and is `Working`, `Sending` a block the host does not have, or has had it `Received`; in the last three, what is saved, what is in that block
and what is left make up the answer, in this order. `UnderWay` says which frames can be on the bus meanwhile. One sequence bit each way is enough for that because of `Rested`:
a command begins only when both sides number alike (`Ready`). That in turn comes from Open (`Opening`, `Resyncing`, `Greeting`), where the SE is as new whenever
its answer to RSYNC or to the interface reset is on its way, from `Resetting`, and from the failure paths, after which nothing is
claimed but `OnTheWay`: an I-frame of a process that is gone, still in the SE's buffer, continues what the SE has, or is refused by its number. `Unspent` (recovery within its
limit) is what keeps an exchange that gives up from reporting success. TLC checked each conjunct with seven faults and three openings before it was proved.

What the code's recovery is for is LossesAreMadeGood: `Repaired`, so that a Transceive that ends is a success with the whole answer to its command. Its hypotheses: faults
only take frames away (`LossesOnly`: lost, late, or dropped with a process that died, which may die as often as faults remain), no more of them than FRAME_RETRY_COUNT and than
TIMEOUT_RETRY_COUNT; RNACK_LIMIT is not 0; the SE repeats its last R-frame when asked for a block it has not, and asks for time so seldom that WTX_LIMIT is not
reached; commands are `CommandsFit` and the caller's buffer has room for the answers (`AnswersFit`). The code's TIMEOUT_RETRY_COUNT is 1, so with it
the theorem is about a single loss, as in `link_one_fault` without its corrupted frames. The limits are tight: with `Faults` reduced to the three, `MaxFaults`, FRAME_RETRY_COUNT and TIMEOUT_RETRY_COUNT 2
and WTX_LIMIT 4, that run's module passes, and with any of the limits one lower TLC finds `Repaired` violated.
The invariant adds `Mended` to `Locked`. `SilencesCounted`: each silence the host counted was a fault of its own. `CountersRest`: between two commands
nothing else is counted, so that no command pays for the losses of another. `Mending`: each retry counter of the running command is paid for by a fault, or by a request for time;
`Sends` says what the host sends while the SE waits for the fragment, has it, or has them all, and `Useful` that every frame under way is one its receiver can use, so that no
exchange without a fault is in vain. It needs one fact more about the SE, `SeErrors`: none of its frames says that the start of a frame was missed, which the SE as modelled never reports.

`Scp03_proofs` proves, for any threads, commands, answers and failures of the link, Kept, and that the channel keeps to
ApduTransport (KeepsToTheLink); and InStep and OwnPlainAnswer on the condition `AllAlike`, which the run's lengths meet: commands
over the platform channel of older applets have data, and not of 8 bytes (see Known deviations); OwnPlainAnswer as long as no answer went uncounted.
A command leaves its thread's hands, travels and may arrive in a later call, so the invariant follows it. `Numbered`: the one on the
link is the last that was sent, and only it can continue the SE's chain. `CountedAlike` says what InStep says at every moment, leaving aside
the answers `uncounted`: an SE that has seen all is level with the host, one that has a late command before it will be once it executes that, and one that
executed the command whose call still runs is ahead by it. `Carried` says what the outcome of a call tells of its command (an answer
means executed), `OneInside` that one thread at a time is in TXn, and `GoesOn` is Kept at every moment. Each action has one lemma.
Assumption: `Scp03Assumption`. The module first proves of ApduTransport itself that whatever implements it executes no command twice or out of
order (ExecutedInOrderOnce) and gives bytes only for a command that was executed (BytesComeFromExecution). `Scp03` relies on that for its link, which
by LinkImplementsTransport `T1Link` is one while no frame is damaged (and by TLC on small instances with damaged ones); by KeepsToTheLink it holds of the channel as well (ChannelExecutesInOrder).

`SmCom_proofs` proves MutexAlive, NeverRefused and CountIsExact for any number of threads and sessions. CountIsExact
speaks of the moments between the critical sections; `CountRight` speaks of all, by saying which sessions are counted in at each
stage of an opening or closing (`InCount`), and bounds the count by the openings, so that its byte does not wrap. `Alone` (a session that is being
opened or closed has one user) makes each step change at most one session's part of the count, and `CreatedRight` that the
mutex exists while the count is not 0. Assumption: `SmComAssumption`, with at most 255 openings.

`SssApi_proofs` proves LinksAreReleased and HandlesReachTheirSession for every set of authentications, both host libraries and
any one-go calls. What makes a session ready is spread over the list of steps still to do, so the invariant speaks of that list:
`ConnectsFirst` (the link is the first thing set up, and nothing else of an opening sets up one: what OpenFail takes back is what this call opened) and `ToBeProved`
(unless nothing is asked of it, what is still to do proves the session, and creates it first, or the opening is refused; a proof counts only for a session that exists).
`SessionsReady` carries that over OpenDone; `HandlesHold` says that the cell a handle points to is closed or has
the back end that made the handle, which is what the caller's rules preserve. Assumption: `ApiAssumption`, which names the
authentications the code has.

Its second half proves ReturnIsRight and VerifyTellsTruth for any calls, versions of the key and its sizes, failures and wipes of the buffer.
What a call returns depends on what its first commands answered, so `AtStep` says for each command that is still to come what the locals
hold by then: the padded block and the key size it was made for, the pieces of random data that are written, the version of the key that opened
the signature. `OfCall` types them, and `NoThrow` says that a call that goes on has had no throughput answer, but for the first of
`pkcs1_v15_encode_no_hash`. Assumptions: `OneGoAssumption`, by which the
sizes of RSA keys are those of `SE05x_RSABitLength` (`se05x_enums.h`; for a key of 65 bytes the claim about PSS would be false), and `CallsAssumption`, that
a caller gives an algorithm of those its call is for and a signature somebody made; the functions check neither.

`KeyStore_proofs` proves SavedIsDurable, the action property GetsSaved and ErasedIsGone for tables of any size and any number of faults. Erasing takes three steps, and
ErasedIsGone is about the last; `Clearing` says for each step before it that the key is out of the table already, and, before the key's file is unlinked,
out of the file of the table. The rest is that no step but an allocation makes the table name a key that neither it nor the file named (FatLoadFacts,
TableAsFile).
That a saved key is found needs a second invariant, `KInv`, because a save has no moment at which all of the disk is right: `OnDisk` says that the
keys the running call has not touched are found by a new process, `InMemory` that the table in memory has the same entries for them, and
`Rewriting` that while the table's file is open, and so empty, the table in memory still leads to all keys; closing the file makes that what the disk
says. `PassedAreWritten` follows the loop over the objects: those behind it whose close lost nothing have their whole file, unless two objects have
one identifier. `Underway` says which of these states belong to which call. Assumption: `KeyStoreAssumption`; the proofs need that the
identifier 0 marks a free entry (`keystore_cmn.c:110`).

`SssObjects_proofs` proves WholeAfterSuccess, FailsForReason, ReadsWhole and HandleMatches for any number of clients, kinds of keys, curves, lengths of files, calls,
failures and closed sessions. All four are about the end of a call, several commands after the first, so the invariant says of each command still to come
what the SE holds by then; and it says so per client, only while `clean`: another client's step changes neither the SE nor what is said, or
clears `clean` (OthersKeep), so no proof step looks at two clients. `WrittenSoFar` says that a place of the key is in the SE or
in a write that is still to come, `ReadSoFar` the same of reads; `Lifetime` and `OnItsCurve` that the object this call made, or
found, is of the handle's lifetime and on its curve; `Describes` follows get_handle over its two answers. FailsForReason needs what makes the next command succeed:
`SetGoesOn` says that the object is absent or takes all the writes left, that existence was answered right, and that the curve has
exactly the steps done so far or all (`CurveReady`). The rest is about operators: the pieces of a file are its bytes and none is empty
(PiecesCover), and the writes of a key fill its places (WritesAre). What an earlier call left in the SE is bounded by `SeTyped` alone.
Assumptions: `ObjectsAssumption` (the sorts of curves are disjoint, a piece has a byte) and `KindsAssumption` (the types, parts and options callers may ask for).

`SssContexts_proofs` proves all five invariants of `contexts` for any number of contexts and messages, all sizes of blocks, chunks, pieces and
additional data, and any number of failed exchanges: CachesStayShort, MessagesAreExact, AadIsExact, NothingIsRefused and NoObjectIsLost. TypeOK and NothingLeft
hold without a condition. The others have the conditions the run's constants meet, because the code does not keep them otherwise: `Restarts` holds no cipher (cipher_init does
not reset the cache, `fsl_sss_se05x_apis.c:6276`), and for ExactAad the libraries that keep the last piece of AAD only get it in one (see Known deviations).
`CInv` says of a message that goes on what ExactMessage says of one that is over: the object holds whole blocks, and with the cache they are what was given (`Holds`), but where
the kind has it in hand (`InHand`) or has not started (`Waits`). Another context must not change that object under it, so `OneOpen` is part of the
induction; that a cipher starts with an empty cache is `Rested`, why something was refused `Justified`. What a call sends has any length, so its effect needs an
induction: `After` is a recursive function, RunExists and AfterSteps say that it is the requests one after the other, CutAfter that the pieces of
a cut add up to it, WholeUpdates that whole blocks are taken one after the other. What the libraries' finish feeds and gives out are GivenOutFacts, DummyFacts
and FinishHostCipherFacts; CutBlocks says that it goes in one block at a time. The library's induction theorems cannot be used here; LeastNat (every set of
naturals has a least member, from WFMin) and Climb (a set that holds 0 and with each number the next) do their work. Each action has a lemma; those that go on
with a message share OwnRight and OngoingKeeps. Assumption: `ContextsAssumption` (chunks are whole blocks, contexts are not named as kinds are).

`Commands_proofs` proves SentAsGiven, OkIsWhole, TakesGoodAnswer and ClosedForReal for every table of commands, all arguments, sizes and answers. OkIsWhole and
TakesGoodAnswer are about the end of a reading that takes one tlvGet after the other, so the invariant says what holds between two of them: `ReadSoFar` that what was read is the
beginning of the answer, each field in the buffer of a get that was tried, and that no field that must be there was passed over; `GoodSoFar` that in an
answer as promised the next field is the one the next get looks for (`Place`, whose counting PlacesAreOwn and WholeIs relate to the answer's order). `SeFirst` says
that the SE closes a session before the middleware does. SentAsGiven is nearly an invariant of its own (`SentInv`: what is in flight is made from the call, by the session and
channel there are); the work is that the SE, which knows nothing of the encoder, gets out of it what the call was given (SentTells), whatever the fields and their lengths:
* a command's size, its fields and what is chosen of them are recursions over a sequence; BytesFacts, OnlyFacts, FlatFacts and ParseFacts say what one item more does to
  each. As an operator cannot be passed to the library's induction, LeastNat, Climb and SeqClimb (a set of sequences that has the empty one and with each sequence those
  longer by one) replace it;
* FieldRead: behind fields that are read as written, one field more is read as written, with its length in one byte, two or three (HeaderRead, ValueRead);
* FrameRead and InnerRead: the case of a framed command (ISO 7816-4 cases 1 to 4, short and extended) is the one it was framed as, so that the SE finds its data and
  no more; SessionRead and DecipheredIs undo the session's wrapping and SCP03's, and SentUnderstood puts these together;
* AllArguments: argument by argument (GoodStep, and RawStep for T4T's fields without tags), the fields written so far, parsed, tell what is meant so far.
Assumptions: `CommandsAssumption`, `TableAssumption` (a field of fixed size is never read into the caller's buffer, and a success that is looked for is never optional)
and `EncodingAssumption` (every field has a tag or, for the T4T applet, none, and a size or a buffer; no command of the API has the header of the one
that wraps it; a command's buffer is below 65000 bytes, as it is: 1024), which TLC evaluates for all 141 commands.

TLC evaluates all assumptions in the runs, and checks on small instances every property a theorem states.

Only model-checked: Repaired when a frame is corrupted, for a single fault; ExecutedWhole, OwnAnswerPrefix, NotCutShort and ImplementsTransport when frames are corrupted, which hold for two
faults and not for any number (see Known deviations), so that no theorem without `NothingDamaged` exists; and all liveness, which is outside the prover's reach.

## 5. Not modelled

The GP 1.0 build of the protocol; the retries inside a read or a write of the PAL; openings that get no memory or no device, which leave nothing behind; JRCP and PC/SC transports;
RTOS builds of smCom; key derivation and cryptography; refresh_session, session properties, attested reads' verification beyond its step in ECKey's opening, PUF and
other feature calls of the SSS back end; the parser of DER public keys and the headers put before them; the life of buffers that contexts point to; migration of
old key store tables; logging, timers, reset (input and output only) and the examples. `PROJECT.json` says for each component
what is left out of it, and lists the hazards no property covers with the reason.

## 6. Plan

Done: the protocol, the link, SCP03, connections, commands, contexts, objects, one-go calls, sessions and dispatch, host key stores; proofs of the
protocol, of commands and answers on the link and the repair of losses, the transport, SCP03, smCom, sessions and dispatch, one-go calls, contexts, key stores, objects, and commands: what is sent and what becomes of the answer.

Left to model, in this order: the DER headers and their parser (encode then parse gives the key back); session policies and properties.
