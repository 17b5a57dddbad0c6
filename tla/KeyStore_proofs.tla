--------------------------- MODULE KeyStore_proofs ---------------------------
(***************************************************************************)
(* Theorems about KeyStore, for every size of the table, any identifiers,  *)
(* kinds and lengths of keys, and any number of faults and calls: a key    *)
(* that was erased is listed nowhere until it is allocated again, and a    *)
(* key that a save has kept is found by the next process, and gotten by    *)
(* this one, with the value it was saved with.                             *)
(***************************************************************************)
EXTENDS KeyStore, SequenceTheorems, FiniteSetTheorems, WellFoundedInduction, TLAPS

-----------------------------------------------------------------------------
(* Erasing.  The inductive invariant. *)

Entries  == [id : Ids, kind : Kinds] \cup {None}
Tables   == [Slots -> Entries]
FatFiles == [exists : {TRUE}, hdr : BOOLEAN, entries : Seq(Entries)]

IsObject(o) == "id" \in DOMAIN o /\ o.id \in Ids

Typed ==
    /\ table \in Tables /\ fat \in FatFiles \cup {Absent}
    /\ objects = [i \in Slots |-> objects[i]]
    /\ \A i \in Slots : objects[i] = None \/ IsObject(objects[i])
    /\ erased \subseteq Ids

\* No entry of the table in memory names the key; none of its file does.
NotInTable(id) == \A i \in Slots : table[i].id # id
NotInFile(id) ==
    fat.exists => \A i \in DOMAIN fat.entries : fat.entries[i].id # id

\* Erasing takes the key out of the table first, and its file away only when
\* the file of the table has been written without it.
Clearing ==
    /\ pc \in {"store", "write"} => call # "erase"
    /\ pc \in {"fatOpen", "fatWrite"} /\ call = "erase" => at \in Held /\ NotInTable(objects[at].id)
    /\ pc = "unlink" => at \in Held /\ NotInTable(objects[at].id) /\ NotInFile(objects[at].id)

Gone == \A id \in erased : NotInTable(id) /\ NotInFile(id)

IInv == Typed /\ Clearing /\ Gone

-----------------------------------------------------------------------------
(* What the operators yield. *)

LEMMA SlotsExist == KS_N_ENTIRES \in Nat /\ Slots = 1..KS_N_ENTIRES
BY KeyStoreAssumption DEF Slots

LEMMA InitFatFacts ==
    /\ InitFat \in Tables /\ InitFat = [i \in Slots |-> InitFat[i]]
    /\ \A i \in Slots : InitFat[i] = None
    /\ \A id \in Ids, i \in Slots : InitFat[i].id # id
BY KeyStoreAssumption DEF InitFat, None, Tables, Entries

\* A new process and load() get a table, without a key that neither the file nor
\* the table before names.
LEMMA FatLoadFacts ==
    ASSUME Typed, NEW tab \in Tables
    PROVE  /\ FatLoad(tab) \in Tables
           /\ \A id : (\A i \in Slots : tab[i].id # id) /\ NotInFile(id)
                        => \A i \in Slots : FatLoad(tab)[i].id # id
<1>1. CASE FatLoads
  <2>1. fat \in FatFiles /\ fat.exists
    BY <1>1 DEF Typed, FatLoads, Absent
  <2>2. fat.entries \in Seq(Entries) /\ DOMAIN fat.entries = 1..Len(fat.entries)
        /\ Len(fat.entries) \in Nat
    BY <2>1, LenProperties DEF FatFiles
  <2>3. FatLoad(tab) = [i \in Slots |-> IF i <= Len(fat.entries) THEN fat.entries[i] ELSE tab[i]]
    BY <1>1 DEF FatLoad
  <2>4. ASSUME NEW i \in Slots, i <= Len(fat.entries)
        PROVE  i \in DOMAIN fat.entries /\ fat.entries[i] \in Entries
    BY <2>2, <2>4, SlotsExist, ElementOfSeq
  <2>5. FatLoad(tab) \in Tables
    BY <2>3, <2>4 DEF Tables
  <2> QED BY <2>1, <2>3, <2>4, <2>5 DEF NotInFile
<1>2. CASE ~FatLoads
  BY <1>2 DEF FatLoad
<1> QED BY <1>1, <1>2

\* The table as a file's entries, whole or cut off.
LEMMA TableAsFile ==
    ASSUME NEW tab \in Tables, NEW hdr \in BOOLEAN
    PROVE  /\ FatFile(hdr, tab) \in FatFiles
           /\ DOMAIN tab = Slots
           /\ \A n \in 0..(KS_N_ENTIRES - 1) :
                 /\ FatFile(hdr, SubSeq(tab, 1, n)) \in FatFiles
                 /\ \A i \in DOMAIN SubSeq(tab, 1, n) : i \in Slots /\ SubSeq(tab, 1, n)[i] = tab[i]
<1>1. tab \in Seq(Entries) /\ Len(tab) = KS_N_ENTIRES /\ DOMAIN tab = Slots
  BY SlotsExist, LenProperties DEF Tables
<1>2. ASSUME NEW n \in 0..(KS_N_ENTIRES - 1)
      PROVE  /\ SubSeq(tab, 1, n) \in Seq(Entries)
             /\ \A i \in DOMAIN SubSeq(tab, 1, n) : i \in Slots /\ SubSeq(tab, 1, n)[i] = tab[i]
  <2>1. /\ SubSeq(tab, 1, n) \in Seq(Entries) /\ Len(SubSeq(tab, 1, n)) = n
        /\ \A i \in 1..n : SubSeq(tab, 1, n)[i] = tab[i]
    BY <1>1, SlotsExist, SubSeqProperties
  <2>2. DOMAIN SubSeq(tab, 1, n) = 1..n
    BY <2>1, LenProperties
  <2> QED BY <2>1, <2>2, SlotsExist
<1> QED BY <1>1, <1>2 DEF FatFile, FatFiles

LEMMA HeldFacts ==
    ASSUME Typed, NEW i \in Held
    PROVE  i \in Slots /\ IsObject(objects[i]) /\ objects[i].id \in Ids
BY DEF Typed, Held, IsObject

LEMMA ObjectsAreObjects ==
    /\ \A id \in Ids : \A kind, max : IsObject(NewObject(id, kind, max))
    /\ \A id \in Ids : \A tab : IsObject(LoadedObject(tab, id))
BY DEF IsObject, NewObject, LoadedObject

\* An object with another field of its own is an object.
LEMMA ChangedObjects ==
    ASSUME NEW o, IsObject(o)
    PROVE  /\ \A x : IsObject([o EXCEPT !.data = x])
           /\ \A x : IsObject([o EXCEPT !.rights = x])
           /\ \A x, y : IsObject([o EXCEPT !.data = x, !.size = y])
BY DEF IsObject

-----------------------------------------------------------------------------
(* The steps. *)

LEMMA InitHolds == Init => IInv
<1> SUFFICES ASSUME Init PROVE IInv
  OBVIOUS
<1>1. InitFat \in FatFiles \cup {InitFat} /\ table = InitFat /\ objects = InitFat
  BY DEF Init
<1>2. fat \in FatFiles \cup {Absent}
  <2>1. FatFile(TRUE, InitFat) \in FatFiles
    BY InitFatFacts, TableAsFile
  <2>2. ASSUME NEW id \in Ids, NEW kind \in Kinds
        PROVE  FatFile(TRUE, [InitFat EXCEPT ![1] = [id |-> id, kind |-> kind]]) \in FatFiles
    <3>1. [InitFat EXCEPT ![1] = [id |-> id, kind |-> kind]] \in Tables
      BY InitFatFacts DEF Tables, Entries
    <3> QED BY <3>1, TableAsFile
  <2> QED BY <2>1, <2>2 DEF Init, Begins
<1>3. Typed
  BY <1>1, <1>2, InitFatFacts DEF Typed, Init
<1>4. Clearing /\ Gone
  BY DEF Clearing, Gone, Init
<1> QED BY <1>3, <1>4 DEF IInv

\* One slot gets an object, or is freed.
LEMMA OneSlotChanges ==
    ASSUME Typed, NEW i \in Slots, NEW o, o = None \/ IsObject(o),
           objects' = [objects EXCEPT ![i] = o]
    PROVE  /\ objects' = [j \in Slots |-> objects'[j]]
           /\ \A j \in Slots : objects'[j] = None \/ IsObject(objects'[j])
<1>1. DOMAIN objects = Slots
  BY DEF Typed
<1>2. \A j \in Slots : objects'[j] = IF j = i THEN o ELSE objects[j]
  BY <1>1
<1>3. DOMAIN objects' = Slots /\ objects' = [j \in DOMAIN objects' |-> objects'[j]]
  BY <1>1
<1> QED BY <1>2, <1>3 DEF Typed

\* A call that touches no file, no entry of the table and no ghost.
LEMMA QuietCall ==
    ASSUME IInv, Idle, UNCHANGED <<pc, table, fat, erased>>,
           \/ UNCHANGED objects
           \/ \E i \in Slots : \E o \in {objects'[i]} :
                 (o = None \/ IsObject(o)) /\ objects' = [objects EXCEPT ![i] = o]
    PROVE  IInv'
<1>1. /\ objects' = [j \in Slots |-> objects'[j]]
      /\ \A j \in Slots : objects'[j] = None \/ IsObject(objects'[j])
  <2>1. CASE UNCHANGED objects
    BY <2>1 DEF IInv, Typed
  <2>2. CASE \E i \in Slots : \E o \in {objects'[i]} :
                 (o = None \/ IsObject(o)) /\ objects' = [objects EXCEPT ![i] = o]
    BY <2>2, OneSlotChanges DEF IInv
  <2> QED BY <2>1, <2>2
<1>2. Typed'
  BY <1>1 DEF IInv, Typed, IsObject
<1>3. Clearing'
  BY DEF Clearing, Idle
<1>4. Gone'
  BY DEF IInv, Gone, NotInTable, NotInFile
<1> QED BY <1>2, <1>3, <1>4 DEF IInv

LEMMA KeepsIt ==
    ASSUME IInv, Idle, NEW i \in Held, NEW o, o = None \/ IsObject(o), Keep(i, o), UNCHANGED pc
    PROVE  IInv'
<1>1. i \in Slots /\ DOMAIN objects = Slots
  BY HeldFacts DEF IInv, Typed
<1>2. objects' = [objects EXCEPT ![i] = o] /\ objects'[i] = o
  BY <1>1 DEF Keep
<1>3. UNCHANGED <<pc, table, fat, erased>>
  BY DEF Keep, disk, ghosts
<1> QED BY <1>1, <1>2, <1>3, QuietCall

LEMMA FailsQuietly == ASSUME IInv, Idle, ReturnsFail PROVE IInv'
<1>1. UNCHANGED <<pc, table, fat, erased, objects>>
  BY DEF ReturnsFail, Returns, memory, disk, ghosts
<1> QED BY <1>1, QuietCall

LEMMA FirstSlotGetsIt ==
    ASSUME Typed, NEW o, IsObject(o), objects' = [objects EXCEPT ![FirstSlot] = o]
    PROVE  \/ UNCHANGED objects
           \/ \E i \in Slots : \E x \in {objects'[i]} :
                 (x = None \/ IsObject(x)) /\ objects' = [objects EXCEPT ![i] = x]
<1>1. DOMAIN objects = Slots /\ objects = [i \in Slots |-> objects[i]]
  BY DEF Typed
<1>2. CASE FirstSlot \in Slots
  <2>1. objects'[FirstSlot] = o
    BY <1>1, <1>2
  <2> QED BY <1>2, <2>1
<1>3. CASE FirstSlot \notin Slots
  BY <1>1, <1>3
<1> QED BY <1>2, <1>3

\* Only an allocation makes the table name a key, and then it is not erased any more.
LEMMA Allocates ==
    ASSUME IInv, NEW id \in Ids, NEW kind \in Kinds, NEW max, NEW made \in BOOLEAN, NEW withoutSlot,
           AllocateWith(id, kind, max, made, withoutSlot)
    PROVE  IInv'
<1>1. Idle
  BY DEF AllocateWith
<1>2. CASE ReturnsFail
  BY <1>1, <1>2, FailsQuietly
<1>3. CASE ~ReturnsFail
  <2>1. /\ UpdateFat(id, kind, max) /\ erased' = erased \ {id}
        /\ UNCHANGED <<pc, fat>>
        /\ UNCHANGED objects \/ objects' = [objects EXCEPT ![FirstSlot] = NewObject(id, kind, max)]
    BY <1>3 DEF AllocateWith, disk, Returns
  <2>2. /\ objects' = [j \in Slots |-> objects'[j]]
        /\ \A j \in Slots : objects'[j] = None \/ IsObject(objects'[j])
    <3>1. CASE UNCHANGED objects
      BY <3>1 DEF IInv, Typed
    <3>2. CASE objects' = [objects EXCEPT ![FirstSlot] = NewObject(id, kind, max)]
      <4>1. IsObject(NewObject(id, kind, max))
        BY ObjectsAreObjects
      <4>2. \/ UNCHANGED objects
            \/ \E i \in Slots : \E x \in {objects'[i]} :
                  (x = None \/ IsObject(x)) /\ objects' = [objects EXCEPT ![i] = x]
        BY <3>2, <4>1, FirstSlotGetsIt DEF IInv
      <4> QED BY <3>1, <4>2, OneSlotChanges DEF IInv
    <3> QED BY <2>1, <3>1, <3>2
  <2>3. /\ table' \in Tables
        /\ \A i \in Slots : table'[i] = table[i] \/ table'[i].id = id
    BY <2>1 DEF IInv, Typed, UpdateFat, Tables, Entries
  <2>4. Typed'
    BY <2>1, <2>2, <2>3 DEF IInv, Typed, IsObject
  <2>5. Gone'
    BY <2>1, <2>3 DEF IInv, Gone, NotInTable, NotInFile
  <2>6. Clearing'
    BY <1>1, <2>1 DEF Clearing, Idle
  <2> QED BY <2>4, <2>5, <2>6 DEF IInv
<1> QED BY <1>2, <1>3

LEMMA GetsHandle == ASSUME IInv, NEW id \in Ids, GetHandle(id) PROVE IInv'
<1>1. Idle
  BY DEF GetHandle
<1>2. CASE ReturnsFail
  BY <1>1, <1>2, FailsQuietly
<1>3. CASE ~ReturnsFail
  <2>1. /\ UNCHANGED <<pc, table, fat, erased>>
        /\ UNCHANGED objects \/ objects' = [objects EXCEPT ![FirstSlot] = LoadedObject(table, id)]
    BY <1>3 DEF GetHandle, Returns, memory, disk, ghosts
  <2>2. CASE UNCHANGED objects
    BY <1>1, <2>1, <2>2, QuietCall
  <2>3. CASE objects' = [objects EXCEPT ![FirstSlot] = LoadedObject(table, id)]
    <3>1. IsObject(LoadedObject(table, id))
      BY ObjectsAreObjects
    <3>2. \/ UNCHANGED objects
          \/ \E i \in Slots : \E x \in {objects'[i]} :
                (x = None \/ IsObject(x)) /\ objects' = [objects EXCEPT ![i] = x]
      BY <2>3, <3>1, FirstSlotGetsIt DEF IInv
    <3> QED BY <1>1, <2>1, <3>2, QuietCall
  <2> QED BY <2>1, <2>2, <2>3
<1> QED BY <1>2, <1>3

\* Freeing, changing and generating: the object keeps its identifier.
LEMMA ChangesObject ==
    ASSUME IInv, NEW i \in Held, NEW v, NEW len,
           \/ ObjectFree(i) \/ SetAccess(i)
           \/ OpensslSetKey(i, v, len) \/ MbedtlsSetKey(i, v, len)
           \/ OpensslGenerateKey(i, v) \/ MbedtlsGenerateKey(i, v)
    PROVE  IInv'
<1> DEFINE o == objects[i]
<1>1. Idle /\ IsObject(o)
  BY HeldFacts DEF IInv, ObjectFree, SetAccess, OpensslSetKey, MbedtlsSetKey, OpensslGenerateKey,
                   MbedtlsGenerateKey
<1>2. ASSUME NEW x, x = None \/ IsObject(x), Keep(i, x), UNCHANGED pc PROVE IInv'
  BY <1>1, <1>2, KeepsIt
<1>3. ASSUME ReturnsFail PROVE IInv'
  BY <1>1, <1>3, FailsQuietly
<1>4. CASE ObjectFree(i)
  BY <1>2, <1>4 DEF ObjectFree, Returns
<1>5. CASE SetAccess(i)
  BY <1>1, <1>2, <1>3, <1>5, ChangedObjects DEF SetAccess, Returns
<1>6. CASE OpensslSetKey(i, v, len)
  <2>1. IsObject(OpensslSet(o, v, len))
    BY <1>1, ChangedObjects DEF OpensslSet
  <2> QED BY <1>2, <1>3, <1>6, <2>1 DEF OpensslSetKey, Returns
<1>7. CASE MbedtlsSetKey(i, v, len)
  <2>1. IsObject(MbedtlsSet(o, v, len)) /\ IsObject([o EXCEPT !.data = << >>])
    BY <1>1, ChangedObjects DEF MbedtlsSet
  <2> QED BY <1>2, <1>3, <1>7, <2>1 DEF MbedtlsSetKey, Returns
<1>8. ASSUME UNCHANGED <<memory, disk, ghosts, pc>> PROVE IInv'
  BY <1>1, <1>8, QuietCall DEF memory, disk, ghosts
<1>9. \A x : IsObject([o EXCEPT !.data = x])
  BY <1>1, ChangedObjects
<1>10. CASE OpensslGenerateKey(i, v)
  BY <1>2, <1>3, <1>8, <1>9, <1>10 DEF OpensslGenerateKey, Returns
<1>11. CASE MbedtlsGenerateKey(i, v)
  BY <1>2, <1>3, <1>8, <1>9, <1>11 DEF MbedtlsGenerateKey, Returns
<1> QED BY <1>4, <1>5, <1>6, <1>7, <1>10, <1>11

LEMMA ReadsTable ==
    ASSUME IInv, NEW tab \in {table, InitFat}, table' = FatLoad(tab), UNCHANGED <<fat, erased, objects>>,
           pc' = "idle"
    PROVE  IInv'
<1>1. tab \in Tables
  BY InitFatFacts DEF IInv, Typed
<1>2. table' \in Tables
  BY <1>1, FatLoadFacts DEF IInv
<1>3. Typed'
  BY <1>2 DEF IInv, Typed, IsObject
<1>4. ASSUME NEW id \in erased
      PROVE  NotInTable(id)' /\ NotInFile(id)'
  <2>1. NotInTable(id) /\ NotInFile(id) /\ id \in Ids
    BY DEF IInv, Gone, Typed
  <2>2. \A i \in Slots : tab[i].id # id
    BY <2>1, InitFatFacts DEF NotInTable
  <2>3. \A i \in Slots : FatLoad(tab)[i].id # id
    BY <1>1, <2>1, <2>2, FatLoadFacts DEF IInv
  <2> QED BY <2>1, <2>3 DEF NotInTable, NotInFile
<1>5. Gone'
  BY <1>4 DEF Gone
<1>6. Clearing'
  BY DEF Clearing
<1> QED BY <1>3, <1>5, <1>6 DEF IInv

\* The process ends: memory is empty, the files are as they are.
LEMMA MemoryIsGone ==
    ASSUME IInv, objects' = InitFat, table' = InitFat, pc' = "down", UNCHANGED <<fat, erased>>
    PROVE  IInv'
<1>1. Typed'
  BY InitFatFacts DEF IInv, Typed
<1>2. ASSUME NEW id \in erased
      PROVE  NotInTable(id)' /\ NotInFile(id)'
  <2>1. NotInFile(id) /\ id \in Ids
    BY DEF IInv, Gone, Typed
  <2> QED BY <2>1, InitFatFacts DEF NotInTable, NotInFile
<1>3. Gone'
  BY <1>2 DEF Gone
<1>4. Clearing'
  BY DEF Clearing
<1> QED BY <1>1, <1>3, <1>4 DEF IInv

\* Erasing begins by taking every entry of the key out of the table.
LEMMA BeginsToErase == ASSUME IInv, NEW i \in Held, EraseKey(i) PROVE IInv'
<1>1. Idle /\ i \in Slots /\ objects[i].id \in Ids
  BY HeldFacts DEF IInv, EraseKey
<1>2. CASE ReturnsFail
  BY <1>1, <1>2, FailsQuietly
<1>3. CASE ~ReturnsFail
  <2>1. /\ RemoveFat(objects[i].id) /\ pc' = "fatOpen" /\ at' = i
        /\ UNCHANGED <<objects, fat, erased>>
    BY <1>3 DEF EraseKey, disk
  <2>2. /\ table' \in Tables
        /\ \A j \in Slots : table'[j] = IF table[j].id = objects[i].id THEN None ELSE table[j]
    BY <2>1 DEF IInv, Typed, RemoveFat, Tables, Entries
  <2>3. None.id = 0 /\ 0 \notin Ids
    BY KeyStoreAssumption DEF None
  <2>4. NotInTable(objects[i].id)'
    BY <1>1, <2>1, <2>2, <2>3 DEF NotInTable
  <2>5. Clearing'
    BY <2>1, <2>4 DEF Clearing, Held
  <2>6. Gone'
    BY <2>1, <2>2, <2>3 DEF IInv, Typed, Gone, NotInTable, NotInFile
  <2>7. Typed'
    BY <2>1, <2>2 DEF IInv, Typed, IsObject
  <2> QED BY <2>5, <2>6, <2>7 DEF IInv
<1> QED BY <1>2, <1>3

\* A step of save or erase that changes no table and no object.
LEMMA GoesOn ==
    ASSUME IInv, UNCHANGED <<objects, table, fat, erased>>,
           \/ pc' \in {"idle", "store", "write"} /\ (pc' = "idle" \/ call' # "erase")
           \/ pc' = "fatOpen" /\ call' # "erase"
    PROVE  IInv'
<1>1. Typed' /\ Gone'
  BY DEF IInv, Typed, IsObject, Gone, NotInTable, NotInFile
<1>2. Clearing'
  BY DEF Clearing
<1> QED BY <1>1, <1>2 DEF IInv

LEMMA FailsToStore ==
    ASSUME StoreFails, UNCHANGED <<objects, table, fat>>
    PROVE  UNCHANGED erased /\ (pc' = "idle" \/ (pc' = "store" /\ UNCHANGED call))
BY DEF StoreFails, OpensslStoreFails, MbedtlsStoreFails, Fails, Ends

LEMMA StoresKeys == ASSUME IInv, StoreOpen \/ StoreKey PROVE IInv'
<1>1. UNCHANGED <<objects, table, fat>> /\ pc \in {"store", "write"} /\ call # "erase"
  BY DEF StoreOpen, StoreKey, memory, IInv, Clearing
<1>2. CASE StoreFails
  BY <1>1, <1>2, FailsToStore, GoesOn
<1>3. CASE ~StoreFails
  <2>1. UNCHANGED <<call, erased>>
    BY <1>3 DEF StoreOpen, StoreKey, ghosts
  <2>2. pc' \in {"store", "write", "fatOpen"}
    BY <1>3 DEF StoreOpen, StoreKey
  <2> QED BY <1>1, <2>1, <2>2, GoesOn
<1> QED BY <1>2, <1>3

LEMMA OpensTable == ASSUME IInv, FatOpen PROVE IInv'
<1>1. UNCHANGED <<objects, table, erased>> /\ pc = "fatOpen"
  BY DEF FatOpen, memory
<1>2. CASE Fails({})
  BY <1>1, <1>2, GoesOn DEF FatOpen, Fails, Ends
<1>3. CASE ~Fails({})
  <2>1. fat' = FatFile(FALSE, << >>) /\ pc' = "fatWrite" /\ UNCHANGED <<call, at>>
    BY <1>3 DEF FatOpen
  <2>2. fat' \in FatFiles /\ DOMAIN fat'.entries = {}
    BY <2>1 DEF FatFile, FatFiles
  <2>3. Typed'
    BY <1>1, <2>2 DEF IInv, Typed, IsObject
  <2>4. Gone'
    BY <1>1, <2>2 DEF IInv, Gone, NotInTable, NotInFile
  <2>5. Clearing'
    BY <1>1, <2>1 DEF IInv, Clearing, NotInTable, Held
  <2> QED BY <2>3, <2>4, <2>5 DEF IInv
<1> QED BY <1>2, <1>3

\* The file of the table names no key that the table does not.
LEMMA WritesTable == ASSUME IInv, FatWrite PROVE IInv'
<1>1. UNCHANGED <<objects, table>> /\ pc = "fatWrite" /\ table \in Tables /\ UNCHANGED erased
  BY DEF FatWrite, memory, IInv, Typed
<1>2. PICK hdr \in BOOLEAN, n \in 0..(KS_N_ENTIRES - 1) :
        fat' = FatFile(TRUE, table) \/ fat' = FatFile(hdr, SubSeq(table, 1, n))
  <2>1. 0 \in 0..(KS_N_ENTIRES - 1) /\ TRUE \in BOOLEAN
    BY KeyStoreAssumption
  <2> QED BY <2>1 DEF FatWrite
<1>3. /\ fat' \in FatFiles
      /\ \A i \in DOMAIN fat'.entries : i \in Slots /\ fat'.entries[i] = table[i]
  <2>1. CASE fat' = FatFile(TRUE, table)
    <3>1. fat' \in FatFiles /\ fat'.entries = table /\ DOMAIN table = Slots
      BY <1>1, <2>1, TableAsFile DEF FatFile
    <3> QED BY <3>1
  <2>2. CASE fat' = FatFile(hdr, SubSeq(table, 1, n))
    <3>1. fat' \in FatFiles /\ fat'.entries = SubSeq(table, 1, n)
      BY <1>1, <2>2, TableAsFile DEF FatFile
    <3> QED BY <1>1, <3>1, TableAsFile
  <2> QED BY <1>2, <2>1, <2>2
<1>4. \A id : NotInTable(id) => NotInTable(id)' /\ NotInFile(id)'
  BY <1>1, <1>3 DEF NotInTable, NotInFile
<1>5. Typed'
  BY <1>1, <1>3 DEF IInv, Typed, IsObject
<1>6. Gone'
  BY <1>1, <1>4 DEF IInv, Gone
<1>7. Clearing'
  <2>1. \/ pc' = "idle"
        \/ pc' = "unlink" /\ call = "erase" /\ UNCHANGED at
    BY DEF FatWrite, Fails, Ends
  <2> QED BY <1>1, <1>4, <2>1 DEF IInv, Clearing, Held
<1> QED BY <1>5, <1>6, <1>7 DEF IInv

LEMMA RemovesFile == ASSUME IInv, Unlink PROVE IInv'
<1>1. /\ pc = "unlink" /\ pc' = "idle" /\ UNCHANGED <<table, fat>>
      /\ erased' \in {erased, erased \cup {objects[at].id}}
      /\ UNCHANGED objects \/ objects' = [objects EXCEPT ![at] = None]
  BY DEF Unlink, Ends
<1>2. /\ at \in Slots /\ objects[at].id \in Ids
      /\ NotInTable(objects[at].id) /\ NotInFile(objects[at].id)
  BY <1>1, HeldFacts DEF IInv, Clearing
<1>3. /\ objects' = [j \in Slots |-> objects'[j]]
      /\ \A j \in Slots : objects'[j] = None \/ IsObject(objects'[j])
  <2>1. CASE UNCHANGED objects
    BY <2>1 DEF IInv, Typed
  <2>2. CASE objects' = [objects EXCEPT ![at] = None]
    BY <1>2, <2>2, OneSlotChanges DEF IInv
  <2> QED BY <1>1, <2>1, <2>2
<1>4. Typed'
  BY <1>1, <1>2, <1>3 DEF IInv, Typed, IsObject
<1>5. Gone'
  BY <1>1, <1>2 DEF IInv, Gone, NotInTable, NotInFile
<1>6. Clearing'
  BY <1>1 DEF Clearing
<1> QED BY <1>4, <1>5, <1>6 DEF IInv

-----------------------------------------------------------------------------
LEMMA StepHolds == IInv /\ [Next]_vars => IInv'
<1> SUFFICES ASSUME IInv, [Next]_vars PROVE IInv'
  OBVIOUS
<1>1. CASE \E id \in Ids, kind \in Kinds : \E max \in 0..MaxLen[kind] :
             OpensslAllocateHandle(id, kind, max) \/ MbedtlsAllocateHandle(id, kind, max)
  BY <1>1, Allocates DEF OpensslAllocateHandle, MbedtlsAllocateHandle, ObjectFits, ObjectCreated
<1>2. CASE \E id \in Ids : GetHandle(id)
  BY <1>2, GetsHandle
<1>3. CASE \E i \in Held : ObjectFree(i) \/ SetAccess(i) \/ EraseKey(i)
  BY <1>3, ChangesObject, BeginsToErase
<1>4. CASE \E i \in Held, v \in Vals : \E len \in 1..MaxLen[objects[i].kind] :
             OpensslSetKey(i, v, len) \/ MbedtlsSetKey(i, v, len)
  BY <1>4, ChangesObject
<1>5. CASE \E i \in Held, v \in Vals : OpensslGenerateKey(i, v) \/ MbedtlsGenerateKey(i, v)
  BY <1>5, ChangesObject
<1>6. CASE Load
  <2>1. /\ table' = FatLoad(table) /\ UNCHANGED <<fat, erased, objects>> /\ pc' = "idle"
    BY <1>6 DEF Load, Idle, Returns, disk, ghosts
  <2> QED BY <2>1, ReadsTable
<1>7. CASE ContextFree
  BY <1>7, MemoryIsGone DEF ContextFree, disk, ghosts
<1>8. CASE Allocate
  <2>1. /\ table' = FatLoad(InitFat) /\ UNCHANGED <<fat, erased, objects>> /\ pc' = "idle"
    BY <1>8 DEF Allocate, disk, ghosts
  <2> QED BY <2>1, ReadsTable
<1>9. CASE Save
  BY <1>9, GoesOn DEF Save, memory, disk, ghosts
<1>10. CASE StoreOpen \/ StoreKey
  BY <1>10, StoresKeys
<1>11. CASE FatOpen
  BY <1>11, OpensTable
<1>12. CASE FatWrite
  BY <1>12, WritesTable
<1>13. CASE Unlink
  BY <1>13, RemovesFile
<1>14. CASE Crash
  BY <1>14, MemoryIsGone DEF Crash, disk
<1>15. CASE UNCHANGED vars
  <2>1. UNCHANGED <<objects, table, fat, erased, pc, call, at>>
    BY <1>15 DEF vars
  <2> QED BY <2>1 DEF IInv, Typed, IsObject, Clearing, Gone, NotInTable, NotInFile, Held
<1> QED BY <1>1, <1>2, <1>3, <1>4, <1>5, <1>6, <1>7, <1>8, <1>9, <1>10, <1>11, <1>12, <1>13,
           <1>14, <1>15 DEF Next

LEMMA InvariantImpliesErased == IInv => ErasedIsGone
<1> SUFFICES ASSUME IInv, NEW id \in erased
             PROVE  (\A i \in Slots : FatLoad(InitFat)[i].id # id) /\ ~Listed(id)
  BY DEF ErasedIsGone
<1>1. NotInTable(id) /\ NotInFile(id) /\ id \in Ids
  BY DEF IInv, Gone, Typed
<1>2. \A i \in Slots : FatLoad(InitFat)[i].id # id
  BY <1>1, InitFatFacts, FatLoadFacts DEF IInv
<1> QED BY <1>1, <1>2 DEF NotInTable, Listed

\* A key that was erased (sss_*_key_store_erase_key) is listed neither by the table
\* in memory nor by the one a new process reads, whatever is loaded, saved or lost
\* since and wherever the process dies, until it is allocated anew.
THEOREM ErasedStaysGone == Spec => []ErasedIsGone
<1>1. Spec => []IInv
  BY InitHolds, StepHolds, PTL DEF Spec
<1> QED BY <1>1, InvariantImpliesErased, PTL
-----------------------------------------------------------------------------
(* What a save has kept.  The invariant of this part: between the operations *)
(* of a save, the keys not touched are on the disk, those already written    *)
(* have their files, and memory and disk agree on where each one is.         *)

Data     == Seq(Vals \cup {0})
Objects  == [id : Ids, kind : Kinds, size : Nat, rights : {"all", "read"}, data : Data]
KeyFiles == [exists : {TRUE}, data : Data]

KeyTyped ==
    /\ \A i \in Slots : objects[i] = None \/ objects[i] \in Objects
    /\ files \in [Names -> KeyFiles \cup {Absent}]
    /\ DOMAIN saved \subseteq Ids /\ touched \subseteq Ids /\ at \in Nat
    /\ backend \in {"openssl", "mbedtls"}

\* Where a call is, and what it may have disturbed by then.
Underway ==
    /\ pc \in {"idle", "down", "store", "write", "fatOpen", "fatWrite", "unlink"}
    /\ pc \in {"idle", "down"} => call = "none" /\ touched = {} /\ lost = {}
    /\ pc \in {"store", "write"} => call = "save"
    /\ pc \in {"fatOpen", "fatWrite"} => call \in {"save", "erase"}
    /\ pc = "unlink" => call = "erase"
    /\ pc \in {"store", "write", "fatOpen"} /\ call = "save" => touched \subseteq Stored
    /\ pc = "write" => at \in Held /\ objects[at].id \in touched
    /\ pc \in {"fatOpen", "fatWrite"} /\ call = "save" => at > KS_N_ENTIRES
    /\ pc \in {"fatOpen", "unlink"} /\ call = "erase" => touched = {objects[at].id}
    /\ pc = "fatWrite" => touched = Ids

SoleHolder(j) == \A k \in Held \ {j} : objects[k].id # objects[j].id

\* Save has left behind it the whole files of the objects it did not lose.
Written(j) ==
    objects[j].data # << >> /\ files[KeyFileName(objects[j])] = File(objects[j].data)
PassedAreWritten ==
    call = "save" =>
        \A j \in Held : j < at /\ objects[j].id \notin lost /\ SoleHolder(j) => Written(j)

\* A table leads to the value that was saved.
LeadsTo(tab, id) ==
    /\ \E i \in Slots : tab[i].id = id
    /\ files[KeyFileName(EntryOf(tab, id))] = File(saved[id])
    /\ saved[id] \in Data /\ saved[id] # << >>
\* The table that a new process reads.
TableOnDisk == FatLoad(InitFat)

OnDisk == \A id \in DOMAIN saved \ touched : LeadsTo(TableOnDisk, id)

SameEntries(tab, other, id) ==
    \A i \in Slots : /\ tab[i].id = id <=> other[i].id = id
                     /\ tab[i].id = id => tab[i] = other[i]
InMemory ==
    pc # "down" => \A id \in DOMAIN saved \ touched : SameEntries(table, TableOnDisk, id)

\* While the file of the table is being written only the table in memory leads to the
\* keys; it does for those that the call is not about.
Rewritten == IF call = "save" THEN Stored ELSE {objects[at].id}
Rewriting == pc = "fatWrite" => \A id \in DOMAIN saved \ Rewritten : LeadsTo(table, id)

KInv == IInv /\ KeyTyped /\ Underway /\ PassedAreWritten /\ OnDisk /\ InMemory /\ Rewriting

-----------------------------------------------------------------------------
(* Entries, files and values. *)

LEMMA LeastSlot ==
    ASSUME NEW S \in SUBSET Slots, S # {}
    PROVE  \E i \in S : \A j \in S : i <= j
<1> DEFINE T == {1..i : i \in S}
<1>1. T \subseteq FiniteSubsetsOf(Slots)
  <2>1. ASSUME NEW i \in S PROVE 1..i \subseteq Slots /\ IsFiniteSet(1..i)
    BY SlotsExist, FS_Interval
  <2> QED BY <2>1 DEF FiniteSubsetsOf
<1>2. PICK x \in T : \A y \in T : ~ (<<y, x>> \in StrictSubsetOrdering(Slots))
  <2>1. IsWellFoundedOn(StrictSubsetOrdering(Slots), FiniteSubsetsOf(Slots))
    BY FS_StrictSubsetOrderingWellFounded
  <2>2. T # {}
    OBVIOUS
  <2> HIDE DEF T
  <2> QED BY <1>1, <2>1, <2>2, WFMin
<1>3. PICK i \in S : x = 1..i
  BY <1>2
<1>4. ASSUME NEW j \in S PROVE i <= j
  <2>1. i \in Nat /\ j \in Nat /\ i \in Slots /\ j \in Slots
    BY SlotsExist
  <2>2. CASE j < i
    <3>1. 1..j \in T /\ 1..j \subseteq 1..i /\ 1..j # 1..i
      BY <2>1, <2>2, SlotsExist
    <3>2. <<1..j, 1..i>> \in StrictSubsetOrdering(Slots)
      BY <3>1, <2>1, SlotsExist DEF StrictSubsetOrdering
    <3> QED BY <1>2, <1>3, <3>1, <3>2
  <2> QED BY <2>1, <2>2
<1> QED BY <1>4

\* The first entry of a key is one of its entries.
FirstOf(tab, id) ==
    CHOOSE i \in Slots : tab[i].id = id /\ \A j \in 1..(i - 1) : tab[j].id # id

LEMMA FirstIsOfKey ==
    ASSUME NEW tab, NEW id, \E i \in Slots : tab[i].id = id
    PROVE  FirstOf(tab, id) \in Slots /\ tab[FirstOf(tab, id)].id = id
<1> DEFINE S == {i \in Slots : tab[i].id = id}
<1>1. PICK i \in S : \A j \in S : i <= j
  BY LeastSlot
<1>2. i \in Slots /\ tab[i].id = id /\ \A j \in 1..(i - 1) : tab[j].id # id
  BY <1>1, SlotsExist
<1> QED BY <1>2 DEF FirstOf

LEMMA EntryIsOfKey ==
    ASSUME NEW tab \in Tables, NEW id \in Ids, \E i \in Slots : tab[i].id = id
    PROVE  /\ \E i \in Slots : EntryOf(tab, id) = tab[i]
           /\ EntryOf(tab, id) \in [id : Ids, kind : Kinds] /\ EntryOf(tab, id).id = id
           /\ KeyFileName(EntryOf(tab, id)) = <<id, EntryOf(tab, id).kind>>
           /\ KeyFileName(EntryOf(tab, id)) \in Names
<1> DEFINE k == FirstOf(tab, id)
<1>1. k \in Slots /\ EntryOf(tab, id) = tab[k] /\ tab[k].id = id
  <2>1. k \in Slots /\ tab[k].id = id
    BY FirstIsOfKey
  <2>2. EntryOf(tab, id) = tab[k]
    BY DEF EntryOf, FirstOf
  <2> QED BY <2>1, <2>2
<1>2. tab[k] \in [id : Ids, kind : Kinds]
  BY <1>1, KeyStoreAssumption DEF Tables, Entries, None
<1> QED BY <1>1, <1>2 DEF KeyFileName, Names

LEMMA SameEntriesLead ==
    ASSUME NEW tab, NEW other, NEW id, SameEntries(tab, other, id), \E i \in Slots : other[i].id = id
    PROVE  (\E i \in Slots : tab[i].id = id) /\ EntryOf(tab, id) = EntryOf(other, id)
<1>1. ASSUME NEW i \in Slots PROVE 1..(i - 1) \subseteq Slots
  BY SlotsExist
<1>2. \A i \in Slots : (tab[i].id = id /\ \A j \in 1..(i - 1) : tab[j].id # id)
                         <=> (other[i].id = id /\ \A j \in 1..(i - 1) : other[j].id # id)
  BY <1>1 DEF SameEntries
<1>3. FirstOf(tab, id) = FirstOf(other, id)
  BY <1>2 DEF FirstOf
<1>4. FirstOf(other, id) \in Slots /\ other[FirstOf(other, id)].id = id
  BY FirstIsOfKey
<1>5. tab[FirstOf(other, id)] = other[FirstOf(other, id)]
  BY <1>4 DEF SameEntries
<1>6. EntryOf(tab, id) = tab[FirstOf(tab, id)] /\ EntryOf(other, id) = other[FirstOf(other, id)]
  BY DEF EntryOf, FirstOf
<1> QED BY <1>3, <1>4, <1>5, <1>6 DEF SameEntries

LEMMA DiskTable ==
    ASSUME IInv
    PROVE  TableOnDisk \in Tables /\ (UNCHANGED fat => TableOnDisk' = TableOnDisk)
<1>1. TableOnDisk \in Tables
  BY InitFatFacts, FatLoadFacts DEF IInv, TableOnDisk
<1>2. UNCHANGED fat => TableOnDisk' = TableOnDisk
  BY DEF TableOnDisk, FatLoad, FatLoads
<1> QED BY <1>1, <1>2

LEMMA WholeData ==
    ASSUME NEW data \in Data
    PROVE  /\ Len(data) \in Nat /\ DOMAIN data = 1..Len(data)
           /\ SubSeq(data, 1, Len(data)) = data
           /\ data # << >> <=> Len(data) > 0
           /\ \A n \in 0..(Len(data) - 1) : SubSeq(data, 1, n) \in Data
<1>1. data \in Seq(Vals \cup {0})
  BY DEF Data
<1>2. Len(data) \in Nat /\ DOMAIN data = 1..Len(data) /\ (data # << >> <=> Len(data) > 0)
  BY <1>1, LenProperties, EmptySeq
<1>3. \A n \in 0..Len(data) : SubSeq(data, 1, n) \in Data /\ Len(SubSeq(data, 1, n)) = n
  BY <1>1, <1>2, SubSeqProperties DEF Data
<1>4. SubSeq(data, 1, Len(data)) = data
  BY <1>1, <1>2, SubSeqProperties, SeqEqual
<1> QED BY <1>2, <1>3, <1>4

\* get_key gives the whole buffer exactly when it is full.
LEMMA FullValue ==
    ASSUME NEW o \in Objects, Len(Value(o)) = Len(o.data)
    PROVE  Value(o) = o.data
<1>1. o.data \in Data /\ o.size \in Nat /\ o.data \in Seq(Vals \cup {0})
  BY DEF Objects, Data
<1>2. CASE o.kind = "pair"
  BY <1>2 DEF Value
<1>3. CASE o.kind # "pair"
  <2>1. Value(o) = SubSeq(o.data, 1, o.size)
    BY <1>3 DEF Value
  <2>2. Len(SubSeq(o.data, 1, o.size)) = o.size
    BY <1>1
  <2> QED BY <1>1, <2>1, <2>2, WholeData
<1> QED BY <1>2, <1>3

LEMMA FileHolds ==
    ASSUME KeyTyped, NEW n \in Names, files[n].exists
    PROVE  files[n] \in KeyFiles /\ files[n].data \in Data
<1>1. files[n] \in KeyFiles \cup {Absent}
  BY DEF KeyTyped
<1>2. ~ Absent.exists
  BY DEF Absent
<1>3. files[n] # Absent
  BY <1>2
<1> QED BY <1>1, <1>3 DEF KeyFiles

\* What load_key makes is an object, of the kind its entry has.
LEMMA LoadedIsObject ==
    ASSUME KeyTyped, NEW tab \in Tables, NEW id \in Ids, Loads(tab, id)
    PROVE  LoadedObject(tab, id) \in Objects
<1>1. (\E i \in Slots : tab[i].id = id) /\ files[KeyFileName(EntryOf(tab, id))].exists
  BY DEF Loads, OpensslLoads, MbedtlsLoads
<1>2. EntryOf(tab, id) \in [id : Ids, kind : Kinds] /\ KeyFileName(EntryOf(tab, id)) \in Names
  BY <1>1, EntryIsOfKey
<1>3. files[KeyFileName(EntryOf(tab, id))].data \in Data
  BY <1>1, <1>2, FileHolds
<1>4. Len(files[KeyFileName(EntryOf(tab, id))].data) \in Nat
  BY <1>3, WholeData
<1> QED BY <1>2, <1>3, <1>4 DEF LoadedObject, Objects

\* A table that leads to a key loads it, with the value it was saved with.
LEMMA LedIsLoaded ==
    ASSUME KeyTyped, NEW tab \in Tables, NEW id \in Ids, LeadsTo(tab, id)
    PROVE  Loads(tab, id) /\ Value(LoadedObject(tab, id)) = saved[id]
<1> DEFINE file == files[KeyFileName(EntryOf(tab, id))]
<1>1. /\ \E i \in Slots : tab[i].id = id
      /\ file.exists /\ file.data = saved[id] /\ saved[id] \in Data /\ saved[id] # << >>
  BY DEF LeadsTo, File
<1>2. Len(saved[id]) > 0 /\ SubSeq(saved[id], 1, Len(saved[id])) = saved[id]
  BY <1>1, WholeData
<1>3. Loads(tab, id)
  BY <1>1, <1>2 DEF Loads, OpensslLoads, MbedtlsLoads
<1>4. LoadedObject(tab, id).data = saved[id] /\ LoadedObject(tab, id).size = Len(saved[id])
  BY <1>1 DEF LoadedObject
<1>5. Value(LoadedObject(tab, id)) = saved[id]
  BY <1>2, <1>4 DEF Value
<1> QED BY <1>3, <1>5

\* The disk goes on leading to a key whose files a step leaves alone.
LEMMA StaysOnDisk ==
    ASSUME KInv, UNCHANGED fat, NEW id \in DOMAIN saved \ touched, saved'[id] = saved[id],
           \A n \in Names : n[1] = id => files'[n] = files[n]
    PROVE  LeadsTo(TableOnDisk, id)'
<1>1. TableOnDisk \in Tables /\ TableOnDisk' = TableOnDisk /\ id \in Ids
  BY DiskTable DEF KInv, KeyTyped
<1>2. LeadsTo(TableOnDisk, id)
  BY DEF KInv, OnDisk
<1>3. EntryOf(TableOnDisk, id)' = EntryOf(TableOnDisk, id)
  BY <1>1 DEF EntryOf
<1>4. /\ KeyFileName(EntryOf(TableOnDisk, id)) \in Names
      /\ KeyFileName(EntryOf(TableOnDisk, id))[1] = id
  BY <1>1, <1>2, EntryIsOfKey DEF LeadsTo
<1>5. KeyFileName(EntryOf(TableOnDisk, id)') = KeyFileName(EntryOf(TableOnDisk, id))
  BY <1>3
<1>6. \E i \in Slots : TableOnDisk'[i].id = id
  BY <1>1, <1>2 DEF LeadsTo
<1>7. files'[KeyFileName(EntryOf(TableOnDisk, id)')] = File(saved'[id])
  BY <1>2, <1>4, <1>5 DEF LeadsTo
<1> QED BY <1>2, <1>6, <1>7 DEF LeadsTo, KeyFileName, File

-----------------------------------------------------------------------------
(* The steps of a store that keeps what was saved. *)

LEMMA KInitHolds == Init => KInv
<1> SUFFICES ASSUME Init PROVE KInv
  OBVIOUS
<1>1. IInv /\ InitFat \in Tables /\ \A i \in Slots : InitFat[i] = None
  BY InitHolds, InitFatFacts
<1>2. Underway /\ PassedAreWritten /\ InMemory /\ Rewriting
  BY DEF Init, Underway, PassedAreWritten, InMemory, Rewriting
<1>3. objects = InitFat /\ touched = {} /\ at = 1 /\ backend \in {"openssl", "mbedtls"}
  BY KeyStoreAssumption DEF Init
<1>4. ASSUME Begins({}, InitFat, [n \in {} |-> << >>]) PROVE KeyTyped /\ OnDisk
  <2>1. files = [n \in Names |-> Absent] /\ DOMAIN saved = {}
    BY <1>4 DEF Begins
  <2> QED BY <1>1, <1>3, <2>1 DEF KeyTyped, OnDisk
<1>5. ASSUME NEW id \in Ids, NEW kind \in Kinds, NEW v \in Vals,
             Begins({id}, [InitFat EXCEPT ![1] = [id |-> id, kind |-> kind]], [n \in {<<id, kind>>} |-> <<v>>])
      PROVE  KeyTyped /\ OnDisk
  <2> DEFINE tab == [InitFat EXCEPT ![1] = [id |-> id, kind |-> kind]]
             file == [n \in {<<id, kind>>} |-> <<v>>]
  <2>1. /\ fat = FatFile(TRUE, tab)
        /\ files = [n \in Names |-> IF n = <<id, kind>> THEN File(<<v>>) ELSE Absent]
        /\ DOMAIN saved = {id} /\ saved[id] = file[CHOOSE n \in {<<id, kind>>} : n[1] = id]
    BY <1>5 DEF Begins
  <2>2. <<v>> \in Data /\ <<v>> # << >>
    BY DEF Data
  <2>3. <<id, kind>> \in Names /\ <<id, kind>>[1] = id
    BY DEF Names
  <2>4. (CHOOSE n \in {<<id, kind>>} : n[1] = id) = <<id, kind>>
    BY <2>3
  <2>5. saved[id] = <<v>>
    BY <2>1, <2>4
  <2>6. KeyTyped
    <3>1. File(<<v>>) \in KeyFiles
      BY <2>2 DEF File, KeyFiles
    <3> QED BY <1>1, <1>3, <2>1, <3>1 DEF KeyTyped
  <2>7. TableOnDisk = tab /\ tab \in Tables /\ tab[1].id = id /\ 1 \in Slots
        /\ \A i \in Slots : tab[i] = tab[1] \/ tab[i] = None
    <3>1. 1 \in Slots /\ tab \in Tables /\ tab[1] = [id |-> id, kind |-> kind]
          /\ \A i \in Slots : tab[i] = tab[1] \/ tab[i] = None
      BY <1>1, SlotsExist, KeyStoreAssumption DEF Tables, Entries
    <3>2. tab \in Seq(Entries) /\ Len(tab) = KS_N_ENTIRES /\ tab # << >>
      <4>1. tab \in [1..KS_N_ENTIRES -> Entries] /\ KS_N_ENTIRES \in Nat \ {0}
        BY <3>1, SlotsExist, KeyStoreAssumption DEF Tables
      <4> HIDE DEF tab
      <4> QED BY <4>1, LenProperties, EmptySeq
    <3>3. FatLoads /\ fat.entries = tab
      BY <2>1, <3>2 DEF FatLoads, FatFile
    <3>4. TableOnDisk = [i \in Slots |-> IF i <= Len(tab) THEN tab[i] ELSE InitFat[i]]
      BY <3>3 DEF TableOnDisk, FatLoad
    <3>5. \A i \in Slots : i <= Len(tab)
      BY <3>2, SlotsExist
    <3>6. TableOnDisk = [i \in Slots |-> tab[i]]
      BY <3>4, <3>5
    <3> QED BY <3>1, <3>6 DEF Tables
  <2> HIDE DEF tab
  <2>8. EntryOf(tab, id) = tab[1]
    <3>1. PICK i \in Slots : EntryOf(tab, id) = tab[i]
      BY <2>7, EntryIsOfKey
    <3>2. EntryOf(tab, id).id = id /\ None.id # id
      BY <2>7, EntryIsOfKey, KeyStoreAssumption DEF None
    <3> QED BY <2>7, <3>1, <3>2
  <2>9. tab[1] = [id |-> id, kind |-> kind]
    BY <1>1, <2>7 DEF tab, Tables
  <2>10. files[KeyFileName(EntryOf(tab, id))] = File(<<v>>)
    BY <2>1, <2>3, <2>8, <2>9 DEF KeyFileName
  <2>11. LeadsTo(TableOnDisk, id)
    BY <2>2, <2>5, <2>7, <2>10 DEF LeadsTo
  <2> QED BY <1>3, <2>1, <2>6, <2>11 DEF OnDisk
<1>6. KeyTyped /\ OnDisk
  BY <1>4, <1>5 DEF Init
<1> QED BY <1>1, <1>2, <1>6 DEF KInv

\* A call that touches neither the files nor the entries of what was saved.
LEMMA IdleCall ==
    ASSUME KInv, IInv', Idle, pc' = "idle", UNCHANGED <<call, fat, files, saved, touched, lost, at, backend>>,
           \A i \in Slots : objects'[i] = None \/ objects'[i] \in Objects,
           \A id \in DOMAIN saved : SameEntries(table', TableOnDisk, id)
    PROVE  KInv'
<1>1. KeyTyped' /\ Underway'
  BY DEF KInv, KeyTyped, Underway, Idle
<1>2. PassedAreWritten' /\ Rewriting'
  BY DEF KInv, PassedAreWritten, Rewriting, Underway, Idle
<1>3. TableOnDisk' = TableOnDisk
  BY DiskTable DEF KInv
<1>4. OnDisk'
  BY StaysOnDisk DEF OnDisk
<1>5. InMemory'
  BY <1>3 DEF InMemory, SameEntries
<1> QED BY <1>1, <1>2, <1>4, <1>5 DEF KInv

\* When no entry of the table changes either.
LEMMA QuietKeeps ==
    ASSUME KInv, IInv', Idle, pc' = "idle", UNCHANGED <<call, table, fat, files, saved, touched, lost, at, backend>>,
           \A i \in Slots : objects'[i] = None \/ objects'[i] \in Objects
    PROVE  KInv'
<1>1. \A id \in DOMAIN saved : SameEntries(table', TableOnDisk, id)
  BY DEF KInv, InMemory, Underway, Idle, SameEntries
<1> QED BY <1>1, IdleCall

LEMMA FailKeeps == ASSUME KInv, IInv', Idle, ReturnsFail PROVE KInv'
<1>1. UNCHANGED <<call, table, fat, files, saved, touched, lost, at, backend, objects, pc>>
  BY DEF ReturnsFail, Returns, memory, disk, ghosts
<1>2. \A i \in Slots : objects'[i] = None \/ objects'[i] \in Objects
  BY <1>1 DEF KInv, KeyTyped
<1> QED BY <1>1, <1>2, QuietKeeps DEF Idle

LEMMA SlotTyped ==
    ASSUME KInv, NEW i, NEW o, o = None \/ o \in Objects, objects' = [objects EXCEPT ![i] = o]
    PROVE  \A j \in Slots : objects'[j] = None \/ objects'[j] \in Objects
<1>1. DOMAIN objects = Slots
  BY DEF KInv, IInv, Typed
<1> QED BY <1>1 DEF KInv, KeyTyped

LEMMA KeepKeeps ==
    ASSUME KInv, IInv', Idle, NEW i \in Held, NEW o, o = None \/ o \in Objects, Keep(i, o), NEW s, Returns(s)
    PROVE  KInv'
<1>1. UNCHANGED <<call, table, fat, files, saved, touched, lost, at, backend, pc>>
  BY DEF Keep, Returns, disk, ghosts
<1>2. \A j \in Slots : objects'[j] = None \/ objects'[j] \in Objects
  BY SlotTyped DEF Keep
<1> QED BY <1>1, <1>2, QuietKeeps DEF Idle

\* A key is allocated only when the table does not list it; one that was saved is listed.
LEMMA AllocateKeeps ==
    ASSUME KInv, IInv', NEW id \in Ids, NEW kind \in Kinds, NEW max \in 0..MaxLen[kind], NEW made \in BOOLEAN,
           NEW withoutSlot, AllocateWith(id, kind, max, made, withoutSlot)
    PROVE  KInv'
<1>1. Idle
  BY DEF AllocateWith
<1>2. CASE ReturnsFail
  BY <1>1, <1>2, FailKeeps
<1>3. CASE ~ReturnsFail
  <2>1. /\ EntersFat(id, kind, max) /\ UpdateFat(id, kind, max)
        /\ UNCHANGED <<call, fat, files, saved, touched, lost, at, backend, pc>>
        /\ UNCHANGED objects \/ objects' = [objects EXCEPT ![FirstSlot] = NewObject(id, kind, max)]
    BY <1>3 DEF AllocateWith, disk, Returns
  <2>2. NewObject(id, kind, max) \in Objects
    <3>1. max \in Nat
      BY KeyStoreAssumption
    <3>2. [i \in 1..max |-> 0] \in Data /\ << >> \in Data
      BY <3>1 DEF Data
    <3> QED BY <3>2 DEF NewObject, Objects
  <2>3. \A j \in Slots : objects'[j] = None \/ objects'[j] \in Objects
    BY <2>1, <2>2, SlotTyped DEF KInv, KeyTyped
  <2>4. \A i \in Slots : table[i].id # id
    BY <2>1 DEF EntersFat, Listed
  <2>5. \A i \in Slots : table'[i] = table[i] \/ (table[i] = None /\ table'[i].id = id)
    BY <2>1 DEF UpdateFat
  <2>6. ASSUME NEW key \in DOMAIN saved PROVE SameEntries(table', TableOnDisk, key)
    <3>1. key \in Ids /\ key \in DOMAIN saved \ touched /\ pc # "down"
      BY <1>1 DEF KInv, KeyTyped, Underway, Idle
    <3>2. SameEntries(table, TableOnDisk, key) /\ LeadsTo(TableOnDisk, key)
      BY <3>1 DEF KInv, InMemory, OnDisk
    <3>3. key # id
      BY <2>4, <3>2 DEF SameEntries, LeadsTo
    <3>4. None.id # key
      BY <3>1, KeyStoreAssumption DEF None
    <3> QED BY <2>5, <3>2, <3>3, <3>4 DEF SameEntries
  <2> QED BY <1>1, <2>1, <2>3, <2>6, IdleCall DEF Idle
<1> QED BY <1>2, <1>3

LEMMA GetKeeps == ASSUME KInv, IInv', NEW id \in Ids, GetHandle(id) PROVE KInv'
<1>1. Idle
  BY DEF GetHandle
<1>2. CASE ReturnsFail
  BY <1>1, <1>2, FailKeeps
<1>3. CASE ~ReturnsFail
  <2>1. UNCHANGED <<call, table, fat, files, saved, touched, lost, at, backend, pc>>
    BY <1>3 DEF GetHandle, Returns, memory, disk, ghosts
  <2>2. \/ UNCHANGED objects
        \/ Loads(table, id) /\ objects' = [objects EXCEPT ![FirstSlot] = LoadedObject(table, id)]
    BY <1>3 DEF GetHandle, memory
  <2>3. \A j \in Slots : objects'[j] = None \/ objects'[j] \in Objects
    <3>1. CASE UNCHANGED objects
      BY <3>1 DEF KInv, KeyTyped
    <3>2. CASE Loads(table, id) /\ objects' = [objects EXCEPT ![FirstSlot] = LoadedObject(table, id)]
      <4>1. LoadedObject(table, id) \in Objects
        BY <3>2, LoadedIsObject DEF KInv, IInv, Typed
      <4> QED BY <3>2, <4>1, SlotTyped
    <3> QED BY <2>2, <3>1, <3>2
  <2> QED BY <1>1, <2>1, <2>3, QuietKeeps DEF Idle
<1> QED BY <1>2, <1>3

LEMMA HeldTyped ==
    ASSUME KInv, NEW i \in Held
    PROVE  i \in Slots /\ objects[i] \in Objects /\ objects[i].id \in Ids
           /\ KeyFileName(objects[i]) = <<objects[i].id, objects[i].kind>>
           /\ KeyFileName(objects[i]) \in Names
           /\ objects[i].data \in Data
BY DEF KInv, KeyTyped, Held, Objects, KeyFileName, Names

LEMMA SetObjects ==
    ASSUME NEW o \in Objects, NEW v \in Vals, NEW len \in Nat
    PROVE  /\ OpensslSet(o, v, len) \in Objects /\ MbedtlsSet(o, v, len) \in Objects
           /\ [o EXCEPT !.data = << >>] \in Objects /\ [o EXCEPT !.data = <<v>>] \in Objects
           /\ [o EXCEPT !.rights = "read"] \in Objects
<1> DEFINE filled == [k \in 1..Len(o.data) |-> IF k <= len THEN v ELSE o.data[k]]
<1>1. /\ o = [id |-> o.id, kind |-> o.kind, size |-> o.size, rights |-> o.rights, data |-> o.data]
      /\ o.id \in Ids /\ o.kind \in Kinds /\ o.size \in Nat /\ o.rights \in {"all", "read"}
      /\ o.data \in Data
  BY DEF Objects
<1>2. << >> \in Data /\ <<v>> \in Data
  BY DEF Data
<1>3. Len(o.data) \in Nat /\ DOMAIN o.data = 1..Len(o.data)
  BY <1>1, WholeData
<1>4. \A k \in 1..Len(o.data) : o.data[k] \in Vals \cup {0}
  BY <1>1, <1>3, ElementOfSeq DEF Data
<1>5. filled \in Data
  BY <1>3, <1>4 DEF Data
<1>6. OpensslSet(o, v, len) \in Objects
  <2>1. CASE o.kind = "pair"
    BY <1>1, <1>2, <2>1 DEF OpensslSet, Objects
  <2>2. CASE o.kind # "pair"
    <3>1. OpensslSet(o, v, len) = [o EXCEPT !.data = filled, !.size = len]
      BY <1>3, <2>2 DEF OpensslSet
    <3> HIDE DEF filled
    <3> QED BY <1>1, <1>5, <3>1 DEF Objects
  <2> QED BY <2>1, <2>2
<1>7. MbedtlsSet(o, v, len) \in Objects
  <2>1. CASE o.kind = "pair"
    BY <1>1, <1>2, <2>1 DEF MbedtlsSet, Objects
  <2>2. CASE o.kind # "pair"
    <3>1. MbedtlsSet(o, v, len) = [o EXCEPT !.data = filled, !.size = len]
      BY <2>2 DEF MbedtlsSet
    <3> HIDE DEF filled
    <3> QED BY <1>1, <1>5, <3>1 DEF Objects
  <2> QED BY <2>1, <2>2
<1>8. /\ [o EXCEPT !.data = << >>] \in Objects /\ [o EXCEPT !.data = <<v>>] \in Objects
      /\ [o EXCEPT !.rights = "read"] \in Objects
  BY <1>1, <1>2 DEF Objects
<1> QED BY <1>6, <1>7, <1>8

LEMMA ChangeKeeps ==
    ASSUME KInv, IInv', NEW i \in Held, NEW v \in Vals, NEW len \in Nat,
           \/ ObjectFree(i) \/ SetAccess(i)
           \/ OpensslSetKey(i, v, len) \/ MbedtlsSetKey(i, v, len)
           \/ OpensslGenerateKey(i, v) \/ MbedtlsGenerateKey(i, v)
    PROVE  KInv'
<1> DEFINE o == objects[i]
<1>1. Idle /\ o \in Objects
  BY HeldTyped DEF ObjectFree, SetAccess, OpensslSetKey, MbedtlsSetKey, OpensslGenerateKey, MbedtlsGenerateKey
<1>2. /\ OpensslSet(o, v, len) \in Objects /\ MbedtlsSet(o, v, len) \in Objects
      /\ [o EXCEPT !.data = << >>] \in Objects /\ [o EXCEPT !.data = <<v>>] \in Objects
      /\ [o EXCEPT !.rights = "read"] \in Objects
  BY <1>1, SetObjects
<1>3. ASSUME NEW x, x = None \/ x \in Objects, Keep(i, x), NEW s, Returns(s) PROVE KInv'
  BY <1>1, <1>3, KeepKeeps
<1>4. ASSUME ReturnsFail PROVE KInv'
  BY <1>1, <1>4, FailKeeps
<1>5. ASSUME UNCHANGED <<memory, disk, ghosts>>, NEW s, Returns(s) PROVE KInv'
  <2>1. UNCHANGED <<call, table, fat, files, saved, touched, lost, at, backend, objects, pc>>
    BY <1>5 DEF Returns, memory, disk, ghosts
  <2>2. \A j \in Slots : objects'[j] = None \/ objects'[j] \in Objects
    BY <2>1 DEF KInv, KeyTyped
  <2> QED BY <1>1, <2>1, <2>2, QuietKeeps DEF Idle
<1> HIDE DEF o
<1>6. CASE ObjectFree(i)
  BY <1>3, <1>6 DEF ObjectFree
<1>7. CASE SetAccess(i)
  BY <1>2, <1>3, <1>4, <1>7 DEF SetAccess, o
<1>8. CASE OpensslSetKey(i, v, len)
  BY <1>2, <1>3, <1>4, <1>8 DEF OpensslSetKey, o
<1>9. CASE MbedtlsSetKey(i, v, len)
  BY <1>2, <1>3, <1>4, <1>9 DEF MbedtlsSetKey, o
<1>10. CASE OpensslGenerateKey(i, v)
  BY <1>2, <1>3, <1>4, <1>5, <1>10 DEF OpensslGenerateKey, o
<1>11. CASE MbedtlsGenerateKey(i, v)
  BY <1>2, <1>3, <1>4, <1>5, <1>11 DEF MbedtlsGenerateKey, o
<1> QED BY <1>6, <1>7, <1>8, <1>9, <1>10, <1>11

\* A table read again agrees with the file wherever the one before did.
LEMMA LoadKeeps == ASSUME KInv, IInv', Load PROVE KInv'
<1>1. /\ Idle /\ table' = FatLoad(table) /\ pc' = "idle"
      /\ UNCHANGED <<call, fat, files, saved, touched, lost, at, backend, objects>>
  BY DEF Load, Idle, Returns, disk, ghosts
<1>2. \A i \in Slots : objects'[i] = None \/ objects'[i] \in Objects
  BY <1>1 DEF KInv, KeyTyped
<1>3. ASSUME NEW id \in DOMAIN saved PROVE SameEntries(table', TableOnDisk, id)
  <2>1. SameEntries(table, TableOnDisk, id) /\ id # None.id
    BY <1>1, KeyStoreAssumption DEF KInv, KeyTyped, InMemory, Underway, Idle, None
  <2>2. CASE FatLoads
    <3>1. /\ table' = [i \in Slots |-> IF i <= Len(fat.entries) THEN fat.entries[i] ELSE table[i]]
          /\ TableOnDisk = [i \in Slots |-> IF i <= Len(fat.entries) THEN fat.entries[i] ELSE InitFat[i]]
      BY <1>1, <2>2 DEF FatLoad, TableOnDisk
    <3>2. \A i \in Slots : table'[i] = TableOnDisk[i] \/ (table'[i] = table[i] /\ TableOnDisk[i] = None)
      BY <3>1, InitFatFacts
    <3> QED BY <2>1, <3>2 DEF SameEntries
  <2>3. CASE ~FatLoads
    BY <1>1, <2>1, <2>3 DEF FatLoad
  <2> QED BY <2>2, <2>3
<1> QED BY <1>1, <1>2, <1>3, IdleCall

\* The process ends, or begins again and reads the table.
LEMMA ProcessKeeps ==
    ASSUME KInv, IInv', touched' = {}, lost' = {}, call' = "none", UNCHANGED <<fat, files, backend>>, at' \in Nat,
           DOMAIN saved' \subseteq DOMAIN saved \ touched, \A id \in DOMAIN saved' : saved'[id] = saved[id],
           objects' = InitFat \/ UNCHANGED objects,
           pc' = "down" \/ (pc' = "idle" /\ table' = TableOnDisk)
    PROVE  KInv'
<1>1. KeyTyped' /\ Underway'
  BY InitFatFacts DEF KInv, KeyTyped, Underway
<1>2. PassedAreWritten' /\ Rewriting'
  BY DEF PassedAreWritten, Rewriting
<1>3. TableOnDisk' = TableOnDisk
  BY DiskTable DEF KInv
<1>4. OnDisk'
  BY StaysOnDisk DEF OnDisk
<1>5. InMemory'
  BY <1>3 DEF InMemory, SameEntries
<1> QED BY <1>1, <1>2, <1>4, <1>5 DEF KInv

LEMMA WithoutFacts ==
    ASSUME NEW f, NEW keys
    PROVE  DOMAIN Without(f, keys) = DOMAIN f \ keys /\ \A x \in DOMAIN f \ keys : Without(f, keys)[x] = f[x]
BY DEF Without, Restrict

LEMMA SaveKeeps == ASSUME KInv, IInv', Save PROVE KInv'
<1>1. /\ pc = "idle" /\ pc' = "store" /\ call' = "save" /\ at' = 1 /\ touched = {}
      /\ UNCHANGED <<table, fat, files, saved, touched, lost, backend, objects>>
  BY DEF Save, Idle, KInv, Underway, memory, disk, ghosts
<1>2. KeyTyped' /\ Underway'
  BY <1>1 DEF KInv, KeyTyped, Underway
<1>3. PassedAreWritten' /\ Rewriting'
  BY <1>1, SlotsExist DEF PassedAreWritten, Rewriting, Held
<1>4. TableOnDisk' = TableOnDisk
  BY <1>1, DiskTable DEF KInv
<1>5. OnDisk'
  BY <1>1, StaysOnDisk DEF OnDisk
<1>6. InMemory'
  BY <1>1, <1>4 DEF KInv, InMemory, SameEntries
<1> QED BY <1>2, <1>3, <1>5, <1>6 DEF KInv

\* Erasing a key takes out its entries and no others.
LEMMA EraseKeeps == ASSUME KInv, IInv', NEW i \in Held, EraseKey(i) PROVE KInv'
<1>1. Idle
  BY DEF EraseKey
<1>2. CASE ReturnsFail
  BY <1>1, <1>2, FailKeeps
<1>3. CASE ~ReturnsFail
  <2>1. /\ RemoveFat(objects[i].id) /\ pc' = "fatOpen" /\ call' = "erase" /\ at' = i
        /\ touched' = {objects[i].id} /\ touched = {} /\ pc # "down"
        /\ UNCHANGED <<objects, fat, files, saved, lost, backend>>
    BY <1>1, <1>3 DEF EraseKey, disk, KInv, Underway, Idle
  <2>2. i \in Slots /\ objects[i].id \in Ids /\ i \in Nat
    BY HeldTyped, SlotsExist
  <2>3. KeyTyped' /\ Underway'
    BY <2>1, <2>2 DEF KInv, KeyTyped, Underway
  <2>4. PassedAreWritten' /\ Rewriting'
    BY <2>1 DEF PassedAreWritten, Rewriting
  <2>5. TableOnDisk' = TableOnDisk
    BY <2>1, DiskTable DEF KInv
  <2>6. OnDisk'
    BY <2>1, StaysOnDisk DEF OnDisk
  <2>7. ASSUME NEW id \in DOMAIN saved' \ touched' PROVE SameEntries(table', TableOnDisk, id)
    <3>1. SameEntries(table, TableOnDisk, id) /\ id # None.id /\ id # objects[i].id
      BY <2>1, KeyStoreAssumption DEF KInv, KeyTyped, InMemory, None
    <3>2. \A j \in Slots : table'[j] = IF table[j].id = objects[i].id THEN None ELSE table[j]
      BY <2>1 DEF RemoveFat
    <3> QED BY <3>1, <3>2 DEF SameEntries
  <2>8. InMemory'
    BY <2>5, <2>7 DEF InMemory, SameEntries
  <2> QED BY <2>3, <2>4, <2>6, <2>8 DEF KInv
<1> QED BY <1>2, <1>3

\* Save writes the file of one object: others keep theirs, also on the way.
LEMMA StoreGoesOn ==
    ASSUME KInv, IInv', pc \in {"store", "write"}, at \in Held, pc' \in {"store", "write"},
           UNCHANGED <<backend, objects, table, fat, saved, call>>,
           files' \in [Names -> KeyFiles \cup {Absent}],
           \A n \in Names : n # KeyFileName(objects[at]) => files'[n] = files[n],
           touched' = touched \cup {objects[at].id}, lost \subseteq lost',
           \/ pc' = "write" /\ UNCHANGED at
           \/ pc' = "store" /\ at' = at + 1 /\ (objects[at].id \in lost' \/ \E j \in {at} : Written(j)')
    PROVE  KInv'
<1>1. /\ at \in Slots /\ at \in Nat /\ objects[at].id \in Ids /\ call = "save" /\ Held' = Held
      /\ KeyFileName(objects[at])[1] = objects[at].id
  BY HeldTyped, SlotsExist DEF KInv, Underway, Held
<1>2. KeyTyped'
  BY <1>1 DEF KInv, KeyTyped
<1>3. Underway'
  BY <1>1 DEF KInv, Underway, Stored, Held
<1>4. ASSUME NEW j \in Held, j < at', objects[j].id \notin lost', SoleHolder(j)'
      PROVE  Written(j)'
  <2>1. CASE j = at
    BY <1>1, <1>4, <2>1
  <2>2. CASE j # at
    <3>1. j \in Nat /\ j < at
      BY <1>1, <1>4, <2>2, SlotsExist DEF Held
    <3>2. SoleHolder(j) /\ objects[at].id # objects[j].id
      BY <1>1, <1>4, <2>2 DEF SoleHolder
    <3>3. Written(j)
      BY <1>1, <1>4, <3>1, <3>2 DEF KInv, PassedAreWritten
    <3>4. KeyFileName(objects[j]) \in Names /\ KeyFileName(objects[j])[1] = objects[j].id
      BY HeldTyped
    <3>5. files'[KeyFileName(objects[j])] = files[KeyFileName(objects[j])]
      BY <1>1, <3>2, <3>4
    <3> QED BY <3>3, <3>5 DEF Written, KeyFileName, File
  <2> QED BY <2>1, <2>2
<1>5. PassedAreWritten'
  BY <1>1, <1>4 DEF PassedAreWritten
<1>6. Rewriting'
  BY DEF Rewriting
<1>7. TableOnDisk' = TableOnDisk
  BY DiskTable DEF KInv
<1>8. OnDisk'
  <2>1. ASSUME NEW id \in DOMAIN saved \ touched'
        PROVE  LeadsTo(TableOnDisk, id)'
    <3>1. \A n \in Names : n[1] = id => files'[n] = files[n]
      BY <1>1, <2>1
    <3> QED BY <2>1, <3>1, StaysOnDisk
  <2> QED BY <2>1 DEF OnDisk
<1>9. InMemory'
  BY <1>7 DEF KInv, InMemory, SameEntries
<1> QED BY <1>2, <1>3, <1>5, <1>6, <1>8, <1>9 DEF KInv

\* Save leaves a free slot, or all of them, behind it.
LEMMA StoreGoesPast ==
    ASSUME KInv, IInv', pc = "store", at \notin Held,
           UNCHANGED <<backend, objects, table, fat, files, saved, call, touched, lost>>,
           \/ pc' = "store" /\ at' = at + 1
           \/ pc' = "fatOpen" /\ UNCHANGED at /\ at > KS_N_ENTIRES
    PROVE  KInv'
<1>1. call = "save" /\ Held' = Held /\ at \in Nat
  BY DEF KInv, KeyTyped, Underway, Held
<1>2. KeyTyped' /\ Underway'
  BY <1>1 DEF KInv, KeyTyped, Underway, Stored
<1>3. \A j \in Held : j < at' => j < at
  BY <1>1, SlotsExist DEF Held
<1>4. PassedAreWritten'
  BY <1>1, <1>3 DEF KInv, PassedAreWritten, SoleHolder, Written, KeyFileName
<1>5. Rewriting'
  BY DEF Rewriting
<1>6. TableOnDisk' = TableOnDisk
  BY DiskTable DEF KInv
<1>7. OnDisk'
  BY StaysOnDisk DEF OnDisk
<1>8. InMemory'
  BY <1>6 DEF KInv, InMemory, SameEntries
<1> QED BY <1>2, <1>4, <1>5, <1>7, <1>8 DEF KInv

\* A call that fails no longer promises what it has disturbed.
LEMMA FailingKeeps ==
    ASSUME KInv, IInv', NEW keys, Fails(keys), pc # "down", UNCHANGED <<backend, objects, table, fat, files>>
    PROVE  KInv'
<1>1. /\ pc' = "idle" /\ call' = "none" /\ at' = 1 /\ touched' = {} /\ lost' = {}
      /\ DOMAIN saved' = DOMAIN saved \ (touched \cup keys)
      /\ \A id \in DOMAIN saved' : saved'[id] = saved[id]
  <2>1. /\ pc' = "idle" /\ call' = "none" /\ at' = 1 /\ touched' = {} /\ lost' = {}
        /\ saved' = Without(saved, touched \cup keys)
    BY DEF Fails, Ends
  <2>2. /\ DOMAIN Without(saved, touched \cup keys) = DOMAIN saved \ (touched \cup keys)
        /\ \A id \in DOMAIN saved \ (touched \cup keys) : Without(saved, touched \cup keys)[id] = saved[id]
    BY WithoutFacts
  <2> QED BY <2>1, <2>2
<1>2. KeyTyped' /\ Underway'
  BY <1>1 DEF KInv, KeyTyped, Underway
<1>3. PassedAreWritten' /\ Rewriting'
  BY <1>1 DEF PassedAreWritten, Rewriting
<1>4. TableOnDisk' = TableOnDisk
  BY DiskTable DEF KInv
<1>5. OnDisk'
  BY <1>1, StaysOnDisk DEF OnDisk
<1>6. InMemory'
  BY <1>1, <1>4 DEF KInv, InMemory, SameEntries
<1> QED BY <1>2, <1>3, <1>5, <1>6 DEF KInv

LEMMA StoreFailKeeps ==
    ASSUME KInv, IInv', pc \in {"store", "write"}, at \in Held, StoreFails,
           UNCHANGED <<backend, objects, table, fat, files>>
    PROVE  KInv'
<1>1. CASE OpensslStoreFails
  BY <1>1, FailingKeeps DEF OpensslStoreFails
<1>2. CASE MbedtlsStoreFails
  <2>1. /\ pc' = "store" /\ at' = at + 1 /\ UNCHANGED <<call, saved>>
        /\ lost' = lost \cup {objects[at].id} /\ touched' = touched \cup {objects[at].id}
    BY <1>2 DEF MbedtlsStoreFails
  <2>2. files' \in [Names -> KeyFiles \cup {Absent}]
    BY DEF KInv, KeyTyped
  <2> QED BY <2>1, <2>2, StoreGoesOn
<1> QED BY <1>1, <1>2 DEF StoreFails

LEMMA FileWritten ==
    ASSUME KInv, NEW n \in Names, NEW data \in Data, files' = [files EXCEPT ![n] = File(data)]
    PROVE  /\ files' \in [Names -> KeyFiles \cup {Absent}] /\ files'[n] = File(data)
           /\ \A m \in Names : m # n => files'[m] = files[m]
BY DEF KInv, KeyTyped, KeyFiles, File

LEMMA StoreOpenKeeps == ASSUME KInv, IInv', StoreOpen PROVE KInv'
<1>1. pc = "store" /\ UNCHANGED <<backend, objects, table, fat>>
  BY DEF StoreOpen, memory
<1>2. CASE at > KS_N_ENTIRES /\ pc' = "fatOpen" /\ UNCHANGED <<files, call, at, ghosts>>
  <2>1. at \notin Held
    BY <1>2, SlotsExist DEF Held, KInv, KeyTyped
  <2> QED BY <1>1, <1>2, <2>1, StoreGoesPast DEF ghosts
<1>3. CASE at \in Slots \ Held /\ at' = at + 1 /\ UNCHANGED <<files, pc, call, ghosts>>
  BY <1>1, <1>3, StoreGoesPast DEF ghosts
<1>4. CASE at \in Held /\ StoreFails /\ UNCHANGED files
  BY <1>1, <1>4, StoreFailKeeps
<1>5. CASE /\ at \in Held /\ files' = [files EXCEPT ![KeyFileName(objects[at])] = File(<< >>)]
           /\ pc' = "write" /\ touched' = touched \cup {objects[at].id}
           /\ UNCHANGED <<call, at, lost, saved>>
  <2>1. << >> \in Data /\ KeyFileName(objects[at]) \in Names
    BY <1>5, HeldTyped DEF Data
  <2>2. /\ files' \in [Names -> KeyFiles \cup {Absent}]
        /\ \A n \in Names : n # KeyFileName(objects[at]) => files'[n] = files[n]
    BY <1>5, <2>1, FileWritten
  <2> QED BY <1>1, <1>5, <2>2, StoreGoesOn
<1> QED BY <1>2, <1>3, <1>4, <1>5 DEF StoreOpen

LEMMA StoreKeyKeeps == ASSUME KInv, IInv', StoreKey PROVE KInv'
<1> DEFINE o == objects[at]
           n == KeyFileName(o)
<1>1. /\ pc = "write" /\ UNCHANGED <<backend, objects, table, fat>>
      /\ at \in Held /\ o.id \in touched /\ touched \cup {o.id} = touched
  BY DEF StoreKey, memory, KInv, Underway
<1>2. n \in Names /\ o.data \in Data
  BY <1>1, HeldTyped
<1>3. CASE StoreFails /\ UNCHANGED files
  BY <1>1, <1>3, StoreFailKeeps
<1>4. CASE /\ o.data # << >> /\ files' = [files EXCEPT ![n] = File(o.data)]
           /\ pc' = "store" /\ at' = at + 1 /\ UNCHANGED <<call, ghosts>>
  <2>1. /\ files' \in [Names -> KeyFiles \cup {Absent}] /\ files'[n] = File(o.data)
        /\ \A m \in Names : m # n => files'[m] = files[m]
    BY <1>2, <1>4, FileWritten
  <2>3. objects[at].data # << >> /\ files'[KeyFileName(objects[at])] = File(objects[at].data)
    BY <1>4, <2>1
  <2>4. \E j \in {at} : Written(j)'
    BY <1>1, <2>3 DEF Written, KeyFileName, File
  <2> QED BY <1>1, <1>4, <2>1, <2>4, StoreGoesOn DEF ghosts
<1>5. CASE /\ o.data # << >>
           /\ \E k \in 0..(Len(o.data) - 1) : files' = [files EXCEPT ![n] = File(SubSeq(o.data, 1, k))]
           /\ pc' = "store" /\ at' = at + 1 /\ lost' = lost \cup {o.id}
           /\ UNCHANGED <<call, touched, saved>>
  <2>1. PICK k \in 0..(Len(o.data) - 1) : files' = [files EXCEPT ![n] = File(SubSeq(o.data, 1, k))]
    BY <1>5
  <2>2. SubSeq(o.data, 1, k) \in Data
    BY <1>2, WholeData
  <2>3. /\ files' \in [Names -> KeyFiles \cup {Absent}]
        /\ \A m \in Names : m # n => files'[m] = files[m]
    BY <1>2, <2>1, <2>2, FileWritten
  <2> QED BY <1>1, <1>5, <2>3, StoreGoesOn
<1> QED BY <1>3, <1>4, <1>5 DEF StoreKey

\* Before the file of the table is opened, the table in memory leads to every key that
\* is not touched.
LEMMA MemoryLeads ==
    ASSUME KInv, pc # "down", NEW id \in DOMAIN saved \ touched
    PROVE  LeadsTo(table, id)
<1>1. SameEntries(table, TableOnDisk, id) /\ LeadsTo(TableOnDisk, id)
  BY DEF KInv, InMemory, OnDisk
<1>2. (\E i \in Slots : table[i].id = id) /\ EntryOf(table, id) = EntryOf(TableOnDisk, id)
  BY <1>1, SameEntriesLead DEF LeadsTo
<1> QED BY <1>1, <1>2 DEF LeadsTo

LEMMA FatOpenKeeps == ASSUME KInv, IInv', FatOpen PROVE KInv'
<1>1. pc = "fatOpen" /\ UNCHANGED <<backend, objects, table, files>>
  BY DEF FatOpen, memory
<1>2. CASE Fails({}) /\ UNCHANGED fat
  BY <1>1, <1>2, FailingKeeps
<1>3. CASE /\ pc' = "fatWrite" /\ touched' = Ids /\ UNCHANGED <<call, at, lost, saved>>
  <2>1. KeyTyped' /\ Underway'
    BY <1>1, <1>3 DEF KInv, KeyTyped, Underway
  <2>2. PassedAreWritten'
    BY <1>1, <1>3 DEF KInv, PassedAreWritten, SoleHolder, Written, KeyFileName, File, Held
  <2>3. OnDisk' /\ InMemory'
    BY <1>3 DEF KInv, KeyTyped, OnDisk, InMemory
  <2>4. touched \subseteq Rewritten /\ Rewritten' = Rewritten
    BY <1>1, <1>3 DEF KInv, Underway, Rewritten, Stored, Held
  <2>5. ASSUME NEW id \in DOMAIN saved \ Rewritten PROVE LeadsTo(table, id)'
    <3>1. LeadsTo(table, id)
      BY <1>1, <2>4, <2>5, MemoryLeads
    <3> QED BY <1>1, <1>3, <3>1 DEF LeadsTo, EntryOf, KeyFileName, File
  <2>6. Rewriting'
    BY <1>3, <2>4, <2>5 DEF Rewriting
  <2> QED BY <2>1, <2>2, <2>3, <2>6 DEF KInv
<1> QED BY <1>2, <1>3 DEF FatOpen

\* A file of the whole table is read as that table.
LEMMA WholeTable ==
    ASSUME table \in Tables, UNCHANGED table, fat' = FatFile(TRUE, table)
    PROVE  TableOnDisk' = table
<1>1. table \in Seq(Entries) /\ Len(table) = KS_N_ENTIRES /\ table # << >>
  <2>1. table \in [1..KS_N_ENTIRES -> Entries] /\ KS_N_ENTIRES \in Nat \ {0}
    BY SlotsExist, KeyStoreAssumption DEF Tables
  <2> QED BY <2>1, LenProperties, EmptySeq
<1>2. fat'.exists /\ fat'.hdr /\ fat'.entries = table
  BY DEF FatFile
<1>3. FatLoads'
  BY <1>1, <1>2 DEF FatLoads
<1>4. TableOnDisk' = [i \in Slots |-> IF i <= Len(table) THEN table[i] ELSE InitFat[i]]
  BY <1>2, <1>3 DEF TableOnDisk, FatLoad, InitFat
<1>5. \A i \in Slots : i <= Len(table)
  BY <1>1, SlotsExist
<1>6. TableOnDisk' = [i \in Slots |-> table[i]]
  BY <1>4, <1>5
<1> QED BY <1>6 DEF Tables

\* What a save promises is written: its file, and the entry that names it.
LEMMA KeptAreWritten ==
    ASSUME KInv, pc = "fatWrite", call = "save", NEW id \in Kept
    PROVE  /\ id \in Ids /\ id \in Stored
           /\ \E i \in Slots : table[i].id = id
           /\ files[KeyFileName(EntryOf(table, id))] = File(Content(id))
           /\ Content(id) \in Data /\ Content(id) # << >>
<1>1. PICK j \in Held : /\ id = objects[j].id /\ objects[j].id \notin lost /\ Listed(id)
                        /\ EntryOf(table, id).kind = objects[j].kind
                        /\ Len(Value(objects[j])) = Len(objects[j].data)
                        /\ SoleHolder(j)
  BY DEF Kept, SoleHolder
<1>2. /\ j \in Slots /\ objects[j] \in Objects /\ id \in Ids /\ objects[j].data \in Data
      /\ KeyFileName(objects[j]) = <<id, objects[j].kind>>
  BY <1>1, HeldTyped
<1>3. j < at
  BY <1>2, SlotsExist DEF KInv, KeyTyped, Underway
<1>4. Written(j)
  BY <1>1, <1>3 DEF KInv, PassedAreWritten
<1>5. Value(objects[j]) = objects[j].data
  BY <1>1, <1>2, FullValue
<1>6. Content(id) = objects[j].data
  <2>1. \A i \in Held : objects[i].id = id => i = j
    BY <1>1 DEF SoleHolder
  <2>2. (CHOOSE i \in Held : objects[i].id = id) = j
    BY <1>1, <2>1
  <2> QED BY <1>5, <2>2 DEF Content
<1>7. (\E i \in Slots : table[i].id = id) /\ table \in Tables
  BY <1>1 DEF Listed, KInv, IInv, Typed
<1>8. KeyFileName(EntryOf(table, id)) = KeyFileName(objects[j])
  BY <1>1, <1>2, <1>7, EntryIsOfKey
<1> QED BY <1>1, <1>2, <1>4, <1>6, <1>7, <1>8 DEF Written, Stored

LEMMA FatWriteKeeps == ASSUME KInv, IInv', FatWrite PROVE KInv'
<1>1. /\ pc = "fatWrite" /\ UNCHANGED <<backend, objects, table, files>> /\ touched = Ids
      /\ call \in {"save", "erase"} /\ Held' = Held /\ table \in Tables
  BY DEF FatWrite, memory, KInv, Underway, Held, IInv, Typed
<1>2. CASE Fails({})
  <2>1. /\ pc' = "idle" /\ call' = "none" /\ at' = 1 /\ touched' = {} /\ lost' = {}
        /\ saved' = Without(saved, touched \cup {})
    BY <1>2 DEF Fails, Ends
  <2>2. DOMAIN Without(saved, touched \cup {}) = DOMAIN saved \ (touched \cup {})
    BY WithoutFacts
  <2>3. DOMAIN saved' = {}
    BY <1>1, <2>1, <2>2 DEF KInv, KeyTyped
  <2>4. KeyTyped' /\ Underway'
    BY <1>1, <2>1, <2>3 DEF KInv, KeyTyped, Underway
  <2>5. PassedAreWritten' /\ Rewriting' /\ OnDisk' /\ InMemory'
    BY <2>1, <2>3 DEF PassedAreWritten, Rewriting, OnDisk, InMemory
  <2> QED BY <2>4, <2>5 DEF KInv
<1>3. CASE /\ fat' = FatFile(TRUE, table) /\ call = "save" /\ Ends("Success")
           /\ saved' = [id \in (DOMAIN saved \ Stored) \cup Kept |->
                          IF id \in Kept THEN Content(id) ELSE saved[id]]
  <2>1. pc' = "idle" /\ call' = "none" /\ at' = 1 /\ touched' = {} /\ lost' = {}
    BY <1>3 DEF Ends
  <2>2. TableOnDisk' = table
    BY <1>1, <1>3, WholeTable
  <2>3. ASSUME NEW id \in DOMAIN saved' PROVE id \in Ids /\ LeadsTo(TableOnDisk, id)'
    <3>1. CASE id \in Kept
      <4>1. saved'[id] = Content(id)
        BY <1>3, <3>1
      <4> QED BY <1>1, <1>3, <2>2, <3>1, <4>1, KeptAreWritten DEF LeadsTo, EntryOf, KeyFileName, File
    <3>2. CASE id \notin Kept
      <4>1. id \in DOMAIN saved \ Stored /\ saved'[id] = saved[id]
        BY <1>3, <2>3, <3>2
      <4>2. LeadsTo(table, id) /\ id \in Ids
        BY <1>1, <1>3, <4>1 DEF KInv, KeyTyped, Rewriting, Rewritten
      <4> QED BY <1>1, <2>2, <4>1, <4>2 DEF LeadsTo, EntryOf, KeyFileName, File
    <3> QED BY <3>1, <3>2
  <2>4. KeyTyped' /\ Underway'
    BY <1>1, <2>1, <2>3 DEF KInv, KeyTyped, Underway
  <2>5. PassedAreWritten' /\ Rewriting' /\ OnDisk' /\ InMemory'
    BY <1>1, <2>1, <2>2, <2>3 DEF PassedAreWritten, Rewriting, OnDisk, InMemory, SameEntries
  <2> QED BY <2>4, <2>5 DEF KInv
<1>4. CASE /\ fat' = FatFile(TRUE, table) /\ call = "erase" /\ pc' = "unlink" /\ touched' = {objects[at].id}
           /\ UNCHANGED <<call, at, lost, saved>>
  <2>1. at \in Held /\ objects[at].id \in Ids
    BY <1>1, <1>4, HeldTyped DEF KInv, IInv, Clearing
  <2>2. TableOnDisk' = table
    BY <1>1, <1>4, WholeTable
  <2>3. ASSUME NEW id \in DOMAIN saved \ {objects[at].id} PROVE LeadsTo(TableOnDisk, id)'
    <3>1. LeadsTo(table, id)
      BY <1>1, <1>4 DEF KInv, Rewriting, Rewritten
    <3> QED BY <1>1, <1>4, <2>2, <3>1 DEF LeadsTo, EntryOf, KeyFileName, File
  <2>4. KeyTyped' /\ Underway'
    BY <1>1, <1>4, <2>1 DEF KInv, KeyTyped, Underway
  <2>5. PassedAreWritten' /\ Rewriting'
    BY <1>4 DEF PassedAreWritten, Rewriting
  <2>6. OnDisk' /\ InMemory'
    BY <1>1, <1>4, <2>2, <2>3 DEF OnDisk, InMemory, SameEntries
  <2> QED BY <2>4, <2>5, <2>6 DEF KInv
<1> QED BY <1>2, <1>3, <1>4 DEF FatWrite

\* Erasing removes the file of the key it is about.
LEMMA UnlinkKeeps == ASSUME KInv, IInv', Unlink PROVE KInv'
<1> DEFINE o == objects[at]
<1>1. /\ pc = "unlink" /\ pc' = "idle" /\ call' = "none" /\ at' = 1 /\ touched' = {} /\ lost' = {}
      /\ UNCHANGED <<backend, table, fat>> /\ saved' = Without(saved, {o.id})
      /\ files' = [files EXCEPT ![KeyFileName(o)] = Absent]
      /\ UNCHANGED objects \/ objects' = [objects EXCEPT ![at] = None]
  BY DEF Unlink, Ends
<1>2. /\ at \in Held /\ touched = {o.id}
      /\ KeyFileName(o) = <<o.id, o.kind>> /\ KeyFileName(o) \in Names
  BY <1>1, HeldTyped DEF KInv, IInv, Clearing, Underway
<1>3. DOMAIN saved' = DOMAIN saved \ touched /\ \A id \in DOMAIN saved' : saved'[id] = saved[id]
  <2>1. /\ DOMAIN Without(saved, {o.id}) = DOMAIN saved \ {o.id}
        /\ \A id \in DOMAIN saved \ {o.id} : Without(saved, {o.id})[id] = saved[id]
    BY WithoutFacts
  <2> QED BY <1>1, <1>2, <2>1
<1>4. /\ files' \in [Names -> KeyFiles \cup {Absent}]
      /\ \A n \in Names : n # KeyFileName(o) => files'[n] = files[n]
  BY <1>1, <1>2 DEF KInv, KeyTyped
<1>5. \A j \in Slots : objects'[j] = None \/ objects'[j] \in Objects
  <2>1. CASE UNCHANGED objects
    BY <2>1 DEF KInv, KeyTyped
  <2>2. CASE objects' = [objects EXCEPT ![at] = None]
    BY <2>2, SlotTyped
  <2> QED BY <1>1, <2>1, <2>2
<1>6. KeyTyped' /\ Underway'
  BY <1>1, <1>3, <1>4, <1>5 DEF KInv, KeyTyped, Underway
<1>7. PassedAreWritten' /\ Rewriting'
  BY <1>1 DEF PassedAreWritten, Rewriting
<1>8. TableOnDisk' = TableOnDisk
  BY <1>1, DiskTable DEF KInv
<1>9. OnDisk'
  <2>1. ASSUME NEW id \in DOMAIN saved'
        PROVE  LeadsTo(TableOnDisk, id)'
    <3>1. \A n \in Names : n[1] = id => files'[n] = files[n]
      BY <1>2, <1>3, <1>4, <2>1
    <3> QED BY <1>1, <1>3, <2>1, <3>1, StaysOnDisk
  <2> QED BY <2>1 DEF OnDisk
<1>10. InMemory'
  BY <1>1, <1>3, <1>8 DEF KInv, InMemory, SameEntries
<1> QED BY <1>6, <1>7, <1>9, <1>10 DEF KInv

-----------------------------------------------------------------------------
LEMMA StepKeeps == KInv /\ [Next]_vars => KInv'
<1> SUFFICES ASSUME KInv, [Next]_vars PROVE KInv'
  OBVIOUS
<1>0. IInv'
  BY StepHolds DEF KInv
<1>1. CASE \E id \in Ids, kind \in Kinds : \E max \in 0..MaxLen[kind] :
             OpensslAllocateHandle(id, kind, max) \/ MbedtlsAllocateHandle(id, kind, max)
  BY <1>0, <1>1, AllocateKeeps DEF OpensslAllocateHandle, MbedtlsAllocateHandle, ObjectFits, ObjectCreated
<1>2. CASE \E id \in Ids : GetHandle(id)
  BY <1>0, <1>2, GetKeeps
<1>3. CASE \E i \in Held : ObjectFree(i) \/ SetAccess(i)
  <2>1. PICK i \in Held : ObjectFree(i) \/ SetAccess(i)
    BY <1>3
  <2>2. CASE Vals = {}
    <3>1. Idle
      BY <2>1 DEF ObjectFree, SetAccess
    <3>2. CASE ObjectFree(i)
      BY <1>0, <3>1, <3>2, KeepKeeps DEF ObjectFree
    <3>3. CASE SetAccess(i)
      <4>1. [objects[i] EXCEPT !.rights = "read"] \in Objects
        BY HeldTyped DEF Objects
      <4> QED BY <1>0, <3>1, <3>3, <4>1, KeepKeeps, FailKeeps DEF SetAccess
    <3> QED BY <2>1, <3>2, <3>3
  <2>3. CASE Vals # {}
    <3>1. PICK v \in Vals : TRUE
      BY <2>3
    <3> QED BY <1>0, <2>1, ChangeKeeps
  <2> QED BY <2>2, <2>3
<1>4. CASE \E i \in Held : EraseKey(i)
  BY <1>0, <1>4, EraseKeeps
<1>5. CASE \E i \in Held, v \in Vals : \E len \in 1..MaxLen[objects[i].kind] :
             OpensslSetKey(i, v, len) \/ MbedtlsSetKey(i, v, len)
  <2>1. \A i \in Held : \A len \in 1..MaxLen[objects[i].kind] : len \in Nat
    OBVIOUS
  <2> QED BY <1>0, <1>5, <2>1, ChangeKeeps
<1>6. CASE \E i \in Held, v \in Vals : OpensslGenerateKey(i, v) \/ MbedtlsGenerateKey(i, v)
  <2>1. PICK i \in Held, v \in Vals : OpensslGenerateKey(i, v) \/ MbedtlsGenerateKey(i, v)
    BY <1>6
  <2>2. 1 \in Nat
    OBVIOUS
  <2> QED BY <1>0, <2>1, <2>2, ChangeKeeps
<1>7. CASE Load
  BY <1>0, <1>7, LoadKeeps
<1>8. CASE ContextFree
  <2>1. /\ touched' = {} /\ lost' = {} /\ call' = "none" /\ UNCHANGED <<fat, files, backend, at, saved>>
        /\ objects' = InitFat /\ pc' = "down" /\ touched = {}
    BY <1>8 DEF ContextFree, disk, ghosts, KInv, Underway, Idle
  <2> QED BY <1>0, <2>1, ProcessKeeps DEF KInv, KeyTyped
<1>9. CASE Allocate
  <2>1. /\ touched' = {} /\ lost' = {} /\ call' = "none" /\ UNCHANGED <<fat, files, backend, at, saved, objects>>
        /\ pc' = "idle" /\ table' = TableOnDisk /\ touched = {}
    BY <1>9 DEF Allocate, disk, ghosts, KInv, Underway, TableOnDisk
  <2> QED BY <1>0, <2>1, ProcessKeeps DEF KInv, KeyTyped
<1>10. CASE Save
  BY <1>0, <1>10, SaveKeeps
<1>11. CASE StoreOpen \/ StoreKey
  BY <1>0, <1>11, StoreOpenKeeps, StoreKeyKeeps
<1>12. CASE FatOpen \/ FatWrite
  BY <1>0, <1>12, FatOpenKeeps, FatWriteKeeps
<1>13. CASE Unlink
  BY <1>0, <1>13, UnlinkKeeps
<1>14. CASE Crash
  <2>1. /\ touched' = {} /\ lost' = {} /\ call' = "none" /\ UNCHANGED <<fat, files, backend>> /\ at' = 1
        /\ objects' = InitFat /\ pc' = "down" /\ saved' = Without(saved, touched)
    BY <1>14 DEF Crash, disk
  <2>2. /\ DOMAIN Without(saved, touched) = DOMAIN saved \ touched
        /\ \A id \in DOMAIN saved \ touched : Without(saved, touched)[id] = saved[id]
    BY WithoutFacts
  <2> QED BY <1>0, <2>1, <2>2, ProcessKeeps
<1>15. CASE UNCHANGED vars
  <2>1. UNCHANGED <<backend, objects, table, fat, files, pc, call, at, touched, lost, saved>>
    BY <1>15 DEF vars
  <2>2. UNCHANGED <<Held, Stored, Rewritten>> /\ TableOnDisk' = TableOnDisk
    BY <2>1, DiskTable DEF Held, Stored, Rewritten, KInv
  <2>3. KeyTyped' /\ Underway' /\ PassedAreWritten'
    BY <2>1, <2>2 DEF KInv, KeyTyped, Underway, PassedAreWritten, SoleHolder, Written, KeyFileName, File
  <2>4. \A id : (LeadsTo(TableOnDisk, id) => LeadsTo(TableOnDisk, id)') /\ (LeadsTo(table, id) => LeadsTo(table, id)')
    BY <2>1, <2>2 DEF LeadsTo, EntryOf, KeyFileName, File
  <2>5. OnDisk' /\ InMemory' /\ Rewriting'
    BY <2>1, <2>2, <2>4 DEF KInv, OnDisk, InMemory, Rewriting, SameEntries
  <2> QED BY <1>0, <2>3, <2>5 DEF KInv
<1> QED BY <1>1, <1>2, <1>3, <1>4, <1>5, <1>6, <1>7, <1>8, <1>9, <1>10, <1>11, <1>12, <1>13,
           <1>14, <1>15 DEF Next

LEMMA KeepsAll == Spec => []KInv
BY KInitHolds, StepKeeps, PTL DEF Spec

\* A key that a save has kept (sss_*_key_store_save) is found by a new process with
\* the value it was saved with, whatever is loaded, set, saved or erased since and
\* wherever a step fails or the process dies, until a step of a call opens its own
\* file or, for a key that call is not about, that of the table.
THEOREM SavedStaysFound == Spec => []SavedIsDurable
<1>1. KInv => SavedIsDurable
  <2> SUFFICES ASSUME KInv, NEW id \in DOMAIN saved \ touched PROVE Found(id) = saved[id]
    BY DEF SavedIsDurable
  <2>1. LeadsTo(TableOnDisk, id) /\ TableOnDisk \in Tables /\ id \in Ids /\ KeyTyped
    BY DiskTable DEF KInv, OnDisk, KeyTyped
  <2> QED BY <2>1, LedIsLoaded DEF Found, TableOnDisk
<1> QED BY <1>1, KeepsAll, PTL

\* get_handle (sss_*_key_object_get_handle) of a key that a save has kept and that is
\* not loaded gets it, with the value it was saved with, when an object can be loaded.
THEOREM SavedIsGotten == Spec => GetsSaved
<1>1. KInv /\ [Next]_vars =>
        [\A id \in DOMAIN saved :
           GetHandle(id) /\ ~Loaded(id) /\ HasSlot =>
              result' = "Success" /\ Value(objects'[FirstSlot]) = saved[id]]_vars
  <2> SUFFICES ASSUME KInv, NEW id \in DOMAIN saved, GetHandle(id), ~Loaded(id), HasSlot
               PROVE  result' = "Success" /\ Value(objects'[FirstSlot]) = saved[id]
    OBVIOUS
  <2>1. pc = "idle" /\ id \in DOMAIN saved \ touched /\ id \in Ids /\ KeyTyped /\ table \in Tables
    BY DEF GetHandle, Idle, KInv, Underway, KeyTyped, IInv, Typed
  <2>2. LeadsTo(table, id)
    BY <2>1, MemoryLeads
  <2>3. Loads(table, id) /\ Value(LoadedObject(table, id)) = saved[id]
    BY <2>1, <2>2, LedIsLoaded
  <2>4. objects' = [objects EXCEPT ![FirstSlot] = LoadedObject(table, id)] /\ result' = "Success"
    BY <2>3 DEF GetHandle, Returns
  <2>5. FirstSlot \in Slots
    <3>1. PICK i \in Slots \ Held : \A j \in Slots \ Held : i <= j
      <4>1. Slots \ Held # {} /\ Slots \ Held \in SUBSET Slots
        BY DEF HasSlot, Held
      <4> QED BY <4>1, LeastSlot
    <3> QED BY <3>1 DEF FirstSlot
  <2>6. objects'[FirstSlot] = LoadedObject(table, id)
    BY <2>4, <2>5 DEF KInv, IInv, Typed
  <2> QED BY <2>3, <2>4, <2>6
<1> QED BY <1>1, KeepsAll, PTL DEF Spec, GetsSaved

=============================================================================
