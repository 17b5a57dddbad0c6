------------------------------ MODULE KeyStore ------------------------------
(***************************************************************************)
(* The key store of the host back ends: the objects a program has loaded,   *)
(* the table of the keys there are (keystore_shadow), the file of the table *)
(* and one file for each key.  Both back ends are modelled, OpenSSL and      *)
(* mbed TLS; they share the table (keystore_cmn.c, keystore_pc.c) and differ *)
(* in the order of their steps and in the errors they pass on.               *)
(*                                                                         *)
(* Saving and erasing are sequences of file operations.  Between two of     *)
(* them the process may die; each may fail, and closing a file may fail      *)
(* after part of it was written (the disk is full).                         *)
(*                                                                         *)
(* A key is a sequence of blocks of 16 bytes (a pair: one value).  Names of *)
(* files are what getKeyFileName makes them of: identifier and kind.        *)
(***************************************************************************)
EXTENDS Naturals, Sequences, FiniteSets, Functions

CONSTANTS
    KS_N_ENTIRES,  \* entries of the table, and objects that can be loaded
    Ids,           \* identifiers of keys
    Kinds,         \* of KindsOfKey
    Backends,      \* of {"openssl", "mbedtls"}
    Vals,          \* values of a block, or of a pair
    MaxLen,        \* blocks of the longest key of each kind
    Faults,        \* of FaultKinds
    MaxFaults,     \* faults in a behaviour
    MaxCalls       \* allocations, settings and changes of rights that succeed

\* An AES or HMAC key takes an entry for each block; any other object takes one.
KindsOfKey == {"aes", "bin", "pair"}
\* fopen or fwrite fails; fclose does, the file half written; the process dies.
FaultKinds == {"write", "close", "crash"}

ASSUME KeyStoreAssumption ==
    /\ KS_N_ENTIRES \in Nat \ {0} /\ MaxLen \in [Kinds -> Nat]
    /\ MaxFaults \in Nat /\ MaxCalls \in Nat
    /\ Kinds \subseteq KindsOfKey /\ Faults \subseteq FaultKinds
    /\ Backends \subseteq {"openssl", "mbedtls"} /\ 0 \notin Vals
    /\ 0 \notin Ids   \* the identifier of an entry that is free

VARIABLES
    backend,   \* which of the two is built in
    objects,   \* keyStore->objects: the objects the program has loaded
    table,     \* keystore_shadow->entries
    fat,       \* the file of the table
    files,     \* the files of the keys, by name
    pc, call,  \* the next file operation, and the call it belongs to
    at,        \* the object that save or erase is at
    result,    \* of the last call
    faults, calls,
    touched,   \* ghost: the keys a file operation of this call may have disturbed
    lost,      \* ghost: keys whose file is not whole, though save goes on
    saved,     \* ghost: what the store has promised to keep
    erased     \* ghost: keys erased, and not allocated since

vars == <<backend, objects, table, fat, files, pc, call, at, result, faults, calls,
          touched, lost, saved, erased>>
memory == <<objects, table>>
disk   == <<fat, files>>
ghosts == <<touched, lost, saved, erased>>

Slots  == 1..KS_N_ENTIRES
Names  == Ids \X Kinds
Absent == [exists |-> FALSE]
None   == [id |-> 0]           \* no object, and an entry that is free

-----------------------------------------------------------------------------
(* The table (keystore_cmn.c). *)

\* ks_common_init_fat: no key.
InitFat == [i \in Slots |-> None]

Listed(id) == \E i \in Slots : table[i].id = id
EntryOf(tab, id) ==
    tab[CHOOSE i \in Slots : tab[i].id = id /\ \A j \in 1..(i - 1) : tab[j].id # id]

SlotsReq(kind, max) == IF kind = "aes" THEN max ELSE 1

FreeBefore(i) == Cardinality({j \in 1..i : table[j] = None})

\* Variants that the properties rule out: entries that are not free are taken;
\* only the first entry of a key is removed.
UpdateFat_TakesFirst(id, kind, max) ==
    table' = [i \in Slots |-> IF i <= SlotsReq(kind, max)
                              THEN [id |-> id, kind |-> kind] ELSE table[i]]
RemoveFat_FirstOnly(id) ==
    LET first == CHOOSE i \in Slots : /\ table[i].id = id
                                       /\ \A j \in 1..(i - 1) : table[j].id # id
    IN table' = [table EXCEPT ![first] = None]

\* ks_common_update_fat writes one entry after the other and finds out only
\* then whether there were enough: entries of a key that did not fit stay.
EntersFat(id, kind, max) == ~Listed(id) /\ SlotsReq(kind, max) > 0
UpdateFat(id, kind, max) ==
    table' = [i \in Slots |->
                IF table[i] = None /\ FreeBefore(i) <= SlotsReq(kind, max)
                THEN [id |-> id, kind |-> kind] ELSE table[i]]
FatHasRoom(kind, max) == FreeBefore(KS_N_ENTIRES) >= SlotsReq(kind, max)

\* ks_common_remove_fat: all entries of the key.
RemoveFat(id) == table' = [i \in Slots |-> IF table[i].id = id THEN None ELSE table[i]]

-----------------------------------------------------------------------------
(* The files (keystore_pc.c, keystore_openssl.c). *)

File(data) == [exists |-> TRUE, data |-> data]

\* ks_sw_getKeyFileName: a file for each identifier, part and cipher.
KeyFileName(o) == <<o.id, o.kind>>

\* The file of the table that ks_sw_fat_update writes: a header, the entries.
FatFile(hdr, entries) == [exists |-> TRUE, hdr |-> hdr, entries |-> entries]

\* ks_sw_fat_load takes the entries there are, be they fewer than expected.
FatLoads == fat.exists /\ fat.hdr /\ fat.entries # << >>
FatLoad(tab) ==
    IF FatLoads
    THEN [i \in Slots |-> IF i <= Len(fat.entries) THEN fat.entries[i] ELSE tab[i]]
    ELSE tab

-----------------------------------------------------------------------------
(* Objects. *)

\* What sss_openssl_key_object_allocate makes: zeros for a symmetric key or a
\* file, nothing yet for a pair.
NewObject(id, kind, max) ==
    [id |-> id, kind |-> kind, size |-> 0, rights |-> "all",
     data |-> IF kind = "pair" THEN << >> ELSE [i \in 1..max |-> 0]]
\* No memory is allocated for an object of no bytes.
ObjectFits(kind, max) == kind = "pair" \/ max > 0
\* ks_mbedtls_key_object_create does the same; a pair has its pk context.
ObjectCreated(kind, max) == kind = "pair" \/ max > 0

Held == {i \in Slots : objects[i] # None}
Loaded(id) == \E i \in Held : objects[i].id = id
HasSlot == Held # Slots
FirstSlot == CHOOSE i \in Slots \ Held : \A j \in Slots \ Held : i <= j

\* get_key: what the holder of the object reads.
Value(o) == IF o.kind = "pair" THEN o.data ELSE SubSeq(o.data, 1, o.size)

\* load_key of OpenSSL and of mbed TLS: the entry names the file, and the
\* object takes the file's size and bytes. A pair must parse. Pairs of Montgomery curves,
\* which mbed TLS's load_key passes with a bit length set_key refuses, are not among them.
OpensslLoads(tab, id) ==
    LET entry == EntryOf(tab, id) IN
    /\ \E i \in Slots : tab[i].id = id
    /\ files[KeyFileName(entry)].exists
    /\ files[KeyFileName(entry)].data # << >>
MbedtlsLoads(tab, id) ==
    LET entry == EntryOf(tab, id) IN
    /\ \E i \in Slots : tab[i].id = id
    /\ files[KeyFileName(entry)].exists
    /\ Len(files[KeyFileName(entry)].data) > 0
Loads(tab, id) ==
    IF backend = "openssl" THEN OpensslLoads(tab, id) ELSE MbedtlsLoads(tab, id)
\* A variant: the size of what was loaded is not noted.
LoadedObject_NoSize(tab, id) ==
    LET entry == EntryOf(tab, id)
        data  == files[KeyFileName(entry)].data
    IN [id |-> id, kind |-> entry.kind, size |-> 0, rights |-> "all", data |-> data]

LoadedObject(tab, id) ==
    LET entry == EntryOf(tab, id)
        data  == files[KeyFileName(entry)].data
    IN [id |-> id, kind |-> entry.kind, size |-> Len(data), rights |-> "all", data |-> data]

-----------------------------------------------------------------------------
(* Calls that touch no file. *)

Idle == pc = "idle"
Returns(status) == result' = status /\ UNCHANGED <<backend, pc, call, at, faults>>
ReturnsFail == Returns("Fail") /\ UNCHANGED <<calls, memory, disk, ghosts>>
Counted   == calls < MaxCalls /\ calls' = calls + 1
Uncounted == UNCHANGED calls

\* key_object_allocate_handle of a persistent object: entries in the table, a
\* slot, the object, which fills its slot even when it could not be made.
AllocateWith(id, kind, max, made, withoutSlot) ==
    /\ Idle
    /\ \/ ~EntersFat(id, kind, max) /\ ReturnsFail
       \/ /\ EntersFat(id, kind, max) /\ Counted
          /\ UpdateFat(id, kind, max)
          /\ erased' = erased \ {id} /\ UNCHANGED <<disk, touched, lost, saved>>
          /\ \/ ~FatHasRoom(kind, max) /\ Returns("Fail") /\ UNCHANGED objects
             \/ /\ FatHasRoom(kind, max) /\ ~HasSlot
                /\ Returns(withoutSlot) /\ UNCHANGED objects
             \/ /\ FatHasRoom(kind, max) /\ HasSlot
                /\ objects' = [objects EXCEPT ![FirstSlot] = NewObject(id, kind, max)]
                /\ Returns(IF made THEN "Success" ELSE "Fail")

\* Without a slot OpenSSL's returns the success of update_fat.
OpensslAllocateHandle(id, kind, max) ==
    backend = "openssl" /\ AllocateWith(id, kind, max, ObjectFits(kind, max), "Success")
MbedtlsAllocateHandle(id, kind, max) ==
    backend = "mbedtls" /\ AllocateWith(id, kind, max, ObjectCreated(kind, max), "Fail")

\* key_object_get_handle refuses a key that is loaded. When every slot is taken
\* it returns the success it started with, and loads nothing.
GetHandle(id) ==
    /\ Idle /\ Uncounted
    /\ \/ (Loaded(id) \/ (HasSlot /\ ~Loads(table, id))) /\ ReturnsFail
       \/ /\ ~Loaded(id) /\ ~HasSlot
          /\ Returns("Success") /\ UNCHANGED <<memory, disk, ghosts>>
       \/ /\ ~Loaded(id) /\ HasSlot /\ Loads(table, id)
          /\ objects' = [objects EXCEPT ![FirstSlot] = LoadedObject(table, id)]
          /\ Returns("Success") /\ UNCHANGED <<table, disk, ghosts>>

Keep(i, o) == objects' = [objects EXCEPT ![i] = o] /\ UNCHANGED <<table, disk, ghosts>>

\* key_object_free: the slot is free, the entry and the file stay.
ObjectFree(i) == Idle /\ Uncounted /\ Keep(i, None) /\ Returns("Success")

\* key_object_set_access; whoever lost the right to change it has lost it.
SetAccess(i) ==
    /\ Idle
    /\ \/ objects[i].rights # "all" /\ ReturnsFail
       \/ /\ objects[i].rights = "all" /\ Counted /\ Returns("Success")
          /\ Keep(i, [objects[i] EXCEPT !.rights = "read"])

\* set_key of the back ends: a pair is parsed anew; other bytes overwrite the
\* first ones of the buffer, whose rest stays, and set the size.
OpensslSet(o, v, len) ==
    IF o.kind = "pair" THEN [o EXCEPT !.data = <<v>>]
    ELSE [o EXCEPT !.data = [k \in DOMAIN @ |-> IF k <= len THEN v ELSE @[k]], !.size = len]
MbedtlsSet(o, v, len) ==
    [o EXCEPT !.data = IF o.kind = "pair" THEN <<v>>
                       ELSE [k \in 1..Len(@) |-> IF k <= len THEN v ELSE @[k]],
              !.size = IF o.kind = "pair" THEN @ ELSE len]

\* key_store_set_key; data given for a pair need not parse.
CannotSet(o, len) ==
    \/ o.rights # "all"
    \/ o.kind # "pair" /\ (o.data = << >> \/ len > Len(o.data))
OpensslSetKey(i, v, len) ==
    LET o == objects[i] IN
    /\ Idle /\ backend = "openssl"
    /\ \/ (CannotSet(o, len) \/ o.kind = "pair") /\ ReturnsFail
       \/ /\ ~CannotSet(o, len) /\ Counted
          /\ Keep(i, OpensslSet(o, v, len)) /\ Returns("Success")
\* mbed TLS may have dropped the pair there was when the new one does not parse.
MbedtlsSetKey(i, v, len) ==
    LET o == objects[i] IN
    /\ Idle /\ backend = "mbedtls"
    /\ \/ (CannotSet(o, len) \/ o.kind = "pair") /\ ReturnsFail
       \/ /\ ~CannotSet(o, len) /\ o.kind = "pair" /\ Counted
          /\ Keep(i, [o EXCEPT !.data = << >>]) /\ Returns("Fail")
       \/ /\ ~CannotSet(o, len) /\ Counted
          /\ Keep(i, MbedtlsSet(o, v, len)) /\ Returns("Success")

\* key_store_generate_key does nothing, successfully, to what is not a pair.
\* OpenSSL's takes what the library made, also when that is nothing.
OpensslGenerateKey(i, v) ==
    LET o == objects[i] IN
    /\ Idle /\ backend = "openssl"
    /\ \/ o.kind = "pair" /\ ReturnsFail
       \/ /\ o.kind = "pair" /\ Counted /\ Returns("Success")
          /\ \E data \in {<<v>>, << >>} : Keep(i, [o EXCEPT !.data = data])
       \/ /\ o.kind # "pair" /\ Uncounted
          /\ Returns("Success") /\ UNCHANGED <<memory, disk, ghosts>>
\* That of mbed TLS begins by forgetting the pair there was.
MbedtlsGenerateKey(i, v) ==
    LET o == objects[i] IN
    /\ Idle /\ backend = "mbedtls"
    /\ \/ o.kind # "pair" /\ o.data = << >> /\ ReturnsFail
       \/ /\ o.kind = "pair" /\ Counted
          /\ \/ Returns("Success") /\ Keep(i, [o EXCEPT !.data = <<v>>])
             \/ Returns("Fail") /\ Keep(i, [o EXCEPT !.data = << >>])
       \/ /\ o.kind # "pair" /\ o.data # << >> /\ Uncounted
          /\ Returns("Success") /\ UNCHANGED <<memory, disk, ghosts>>

\* key_store_load reads the table again: entries not saved yet are replaced.
Load ==
    /\ Idle /\ Uncounted
    /\ table' = FatLoad(table)
    /\ Returns(IF FatLoads THEN "Success" ELSE "Fail")
    /\ UNCHANGED <<objects, disk, ghosts>>

\* key_store_context_free, and the end of a process in order.
ContextFree ==
    /\ Idle /\ pc' = "down" /\ call' = "none" /\ result' = "none"
    /\ objects' = InitFat /\ table' = InitFat
    /\ UNCHANGED <<backend, calls, disk, at, faults, ghosts>>

\* key_store_allocate: what fat_load returns is not looked at.
Allocate ==
    /\ pc = "down" /\ pc' = "idle" /\ result' = "Success"
    /\ table' = FatLoad(InitFat)
    /\ UNCHANGED <<backend, calls, objects, disk, call, at, faults, ghosts>>

-----------------------------------------------------------------------------
(* Calls that write files, one operation at a time. *)

Fault(kind) == kind \in Faults /\ faults < MaxFaults /\ faults' = faults + 1
NoFault == UNCHANGED faults

\* A call that ends has disturbed nothing any more, or what is in `touched`.
Without(f, keys) == Restrict(f, DOMAIN f \ keys)
Ends(status) == /\ pc' = "idle" /\ call' = "none" /\ at' = 1 /\ result' = status
                /\ touched' = {} /\ lost' = {}
Fails(touchedToo) ==
    Ends("Fail") /\ saved' = Without(saved, touched \cup touchedToo)

\* key_store_save goes through the objects, key_store_erase_key begins with the table.
Save ==
    /\ Idle /\ pc' = "store" /\ call' = "save" /\ at' = 1 /\ result' = "none"
    /\ UNCHANGED <<backend, calls, memory, disk, faults, ghosts>>

EraseKey(i) ==
    /\ Idle /\ Uncounted
    /\ \/ (objects[i].rights # "all" \/ ~Listed(objects[i].id)) /\ ReturnsFail
       \/ /\ objects[i].rights = "all" /\ Listed(objects[i].id)
          /\ RemoveFat(objects[i].id)
          /\ pc' = "fatOpen" /\ call' = "erase" /\ at' = i /\ result' = "none"
          /\ touched' = {objects[i].id}
          /\ UNCHANGED <<backend, objects, disk, faults, lost, saved, erased>>

\* OpenSSL's save ends with the first key that cannot be stored, that of mbed TLS
\* goes on to the next.
OpensslStoreFails ==
    /\ backend = "openssl"
    /\ Fails({objects[at].id}) /\ UNCHANGED erased
MbedtlsStoreFails ==
    /\ backend = "mbedtls"
    /\ pc' = "store" /\ at' = at + 1
    /\ lost' = lost \cup {objects[at].id} /\ touched' = touched \cup {objects[at].id}
    /\ UNCHANGED <<call, result, saved, erased>>
StoreFails == OpensslStoreFails \/ MbedtlsStoreFails

\* store_key opens the file of the object, which empties it.
StoreOpen ==
    /\ pc = "store"
    /\ UNCHANGED <<backend, calls, memory, fat>>
    /\ \/ /\ at > KS_N_ENTIRES
          /\ pc' = "fatOpen" /\ UNCHANGED <<files, call, at, result, faults, ghosts>>
       \/ /\ at \in Slots \ Held
          /\ at' = at + 1 /\ UNCHANGED <<files, pc, call, result, faults, ghosts>>
       \/ /\ at \in Held /\ Fault("write") /\ StoreFails /\ UNCHANGED files
       \/ /\ at \in Held /\ NoFault
          /\ files' = [files EXCEPT ![KeyFileName(objects[at])] = File(<< >>)]
          /\ pc' = "write" /\ touched' = touched \cup {objects[at].id}
          /\ UNCHANGED <<call, at, result, lost, saved, erased>>

\* Nothing to write, a buffer of no bytes or a pair without a value, is an error.
\* The status of fclose is only logged.
StoreKey ==
    LET o == objects[at]
        name == KeyFileName(o)
    IN /\ pc = "write"
       /\ UNCHANGED <<backend, calls, memory, fat>>
       /\ \/ /\ o.data = << >> /\ NoFault /\ StoreFails /\ UNCHANGED files
          \/ /\ o.data # << >> /\ Fault("write") /\ StoreFails /\ UNCHANGED files
          \/ /\ o.data # << >> /\ NoFault
             /\ files' = [files EXCEPT ![name] = File(o.data)]
             /\ pc' = "store" /\ at' = at + 1 /\ UNCHANGED <<call, result, ghosts>>
          \/ /\ o.data # << >> /\ Fault("close")
             /\ \E n \in 0..(Len(o.data) - 1) :
                  files' = [files EXCEPT ![name] = File(SubSeq(o.data, 1, n))]
             /\ pc' = "store" /\ at' = at + 1 /\ lost' = lost \cup {o.id}
             /\ UNCHANGED <<call, result, touched, saved, erased>>

\* ks_sw_fat_update opens the file of the table, which empties it.
FatOpen ==
    /\ pc = "fatOpen"
    /\ UNCHANGED <<backend, calls, memory, files, erased>>
    /\ \/ /\ NoFault /\ fat' = FatFile(FALSE, << >>)
          /\ pc' = "fatWrite" /\ touched' = Ids /\ UNCHANGED <<call, at, result, lost, saved>>
       \/ Fault("write") /\ Fails({}) /\ UNCHANGED fat

\* The keys that a successful save keeps: listed as what they are, full to the
\* last byte of their buffer, their file whole.
Kept == {objects[i].id : i \in
            {j \in Held : /\ objects[j].id \notin lost
                          /\ Listed(objects[j].id)
                          /\ EntryOf(table, objects[j].id).kind = objects[j].kind
                          /\ Len(Value(objects[j])) = Len(objects[j].data)
                          /\ \A k \in Held \ {j} : objects[k].id # objects[j].id}}
Content(id) == Value(objects[CHOOSE i \in Held : objects[i].id = id])
Stored == {objects[i].id : i \in Held}

\* ks_sw_fat_update writes header and entries. Errors of fclose count here.
FatWrite ==
    /\ pc = "fatWrite"
    /\ UNCHANGED <<backend, calls, memory, files>>
    /\ \/ /\ NoFault /\ fat' = FatFile(TRUE, table)
          /\ \/ /\ call = "save" /\ Ends("Success") /\ UNCHANGED erased
                /\ saved' = [id \in (DOMAIN saved \ Stored) \cup Kept |->
                               IF id \in Kept THEN Content(id) ELSE saved[id]]
             \/ /\ call = "erase" /\ pc' = "unlink" /\ touched' = {objects[at].id}
                /\ UNCHANGED <<call, at, result, lost, saved, erased>>
       \/ /\ Fault("write") \/ Fault("close")
          /\ \E hdr \in BOOLEAN, n \in 0..(KS_N_ENTIRES - 1) :
               /\ n > 0 => hdr
               /\ fat' = FatFile(hdr, SubSeq(table, 1, n))
          /\ Fails({}) /\ UNCHANGED erased

\* remove_key unlinks the file. OpenSSL's erase keeps the object of a key that
\* had none, mbed TLS's frees its slot and fails.
Unlink ==
    LET o == objects[at]
        there == files[KeyFileName(o)].exists
    IN /\ pc = "unlink"
       /\ files' = [files EXCEPT ![KeyFileName(o)] = Absent]
       /\ objects' = IF there \/ backend = "mbedtls" THEN [objects EXCEPT ![at] = None]
                                                     ELSE objects
       /\ Ends(IF there THEN "Success" ELSE "Fail")
       /\ saved' = Without(saved, {o.id})
       /\ erased' = IF there THEN erased \cup {o.id} ELSE erased
       /\ UNCHANGED <<backend, calls, table, fat, faults>>

\* The process dies: what is in memory is gone, the files are as they are. (One
\* that dies between two calls leaves what ContextFree leaves.)
Crash ==
    /\ call # "none" /\ Fault("crash")
    /\ pc' = "down" /\ call' = "none" /\ at' = 1 /\ result' = "none"
    /\ objects' = InitFat /\ table' = InitFat
    /\ touched' = {} /\ lost' = {} /\ saved' = Without(saved, touched)
    /\ UNCHANGED <<backend, calls, disk, erased>>

-----------------------------------------------------------------------------
\* A store begins empty, or with a key that an earlier program has saved.
Begins(keys, table0, files0) ==
    /\ fat = IF keys = {} THEN Absent ELSE FatFile(TRUE, table0)
    /\ files = [n \in Names |-> IF n \in DOMAIN files0 THEN File(files0[n]) ELSE Absent]
    /\ saved = [id \in keys |-> files0[CHOOSE n \in DOMAIN files0 : n[1] = id]]

Init ==
    /\ backend \in Backends
    /\ objects = InitFat /\ table = InitFat
    /\ \/ Begins({}, InitFat, [n \in {} |-> << >>])
       \/ \E id \in Ids, kind \in Kinds, v \in Vals :
            Begins({id}, [InitFat EXCEPT ![1] = [id |-> id, kind |-> kind]],
                   [n \in {<<id, kind>>} |-> <<v>>])
    /\ pc = "down" /\ call = "none" /\ at = 1 /\ result = "none" /\ faults = 0 /\ calls = 0
    /\ touched = {} /\ lost = {} /\ erased = {}

Next ==
    \/ \E id \in Ids, kind \in Kinds : \E max \in 0..MaxLen[kind] :
         OpensslAllocateHandle(id, kind, max) \/ MbedtlsAllocateHandle(id, kind, max)
    \/ \E id \in Ids : GetHandle(id)
    \/ \E i \in Held : ObjectFree(i) \/ SetAccess(i) \/ EraseKey(i)
    \/ \E i \in Held, v \in Vals : \E len \in 1..MaxLen[objects[i].kind] :
         OpensslSetKey(i, v, len) \/ MbedtlsSetKey(i, v, len)
    \/ \E i \in Held, v \in Vals : OpensslGenerateKey(i, v) \/ MbedtlsGenerateKey(i, v)
    \/ Load \/ ContextFree \/ Allocate \/ Save
    \/ StoreOpen \/ StoreKey \/ FatOpen \/ FatWrite \/ Unlink
    \/ Crash

Spec == Init /\ [][Next]_vars

-----------------------------------------------------------------------------
(* Properties. *)

\* What a new process finds of a key: the table as it is read, the file it names.
Found(id) == IF Loads(FatLoad(InitFat), id) THEN Value(LoadedObject(FatLoad(InitFat), id))
                                            ELSE << >>

\* Whatever happens, also in the middle of saving or erasing other keys, a key
\* that a save has kept is found with its value, unless a step of the same call
\* has opened its own file or that of the table.
SavedIsDurable == \A id \in DOMAIN saved \ touched : Found(id) = saved[id]

\* No table lists an erased key again, in this process or the next, whatever is
\* loaded, saved or lost on the way, until it is allocated anew.
ErasedIsGone ==
    \A id \in erased :
        /\ \A i \in Slots : FatLoad(InitFat)[i].id # id
        /\ ~Listed(id)

\* get_handle of a key that is saved and not loaded gets it, with its value.
GetsSaved ==
    [][\A id \in DOMAIN saved :
         GetHandle(id) /\ ~Loaded(id) /\ HasSlot =>
            result' = "Success" /\ Value(objects'[FirstSlot]) = saved[id]]_vars

=============================================================================
