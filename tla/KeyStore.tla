------------------------------ MODULE KeyStore ------------------------------
(***************************************************************************)
(* SvcKit/base/svc_security/svc_keystore (svc_keystore.cpp): processes     *)
(* that open the same directory of encrypted secrets, and die at any step. *)
(* The files are all they share.  A process makes one call at a time, as   *)
(* the mutex of its handle has it; load_secret() and contains() change     *)
(* nothing.  A secret is known by the key it is encrypted with.            *)
(***************************************************************************)
EXTENDS Integers, TLAPS

CONSTANTS
  Processes,  \* also their process ids: one that died comes again
  Names,      \* of secrets
  MaxKeys     \* bound on the keys ever drawn

None == 0     \* no file, no key
Short == -1   \* a file master.key without all of its bytes
Keys == 1 .. MaxKeys

VARIABLES
  master,         \* the file master.key: None, Short or its key
  entries,        \* of each name, the key its file is encrypted with, or None
  temporaries,    \* files <name>.secret.tmp.<pid>
  at, masterKey,  \* of each process: where it is; its key, None without one
  name,           \* of the secret it stores
  drawn,          \* keys drawn so far
  withdrawn       \* history: a key was removed that another process had read
disk == <<master, entries, temporaries>>
vars == <<master, entries, temporaries, at, masterKey, name, drawn, withdrawn>>

Init ==
  /\ master = None /\ entries = [n \in Names |-> None] /\ temporaries = {}
  /\ at = [p \in Processes |-> "closed"] /\ masterKey = [p \in Processes |-> None]
  /\ name \in [Processes -> Names] /\ drawn = 0 /\ withdrawn = FALSE

Goto(p, label) == at' = [at EXCEPT ![p] = label]

-----------------------------------------------------------------------------
(* svc_keystore_open(): loadOrCreateMasterKey() *)

\* Mutant of LoadMasterKey: what is there of the key is taken.
LoadMasterKeyShort(p) ==
  /\ at[p] = "closed"
  /\ IF master = None THEN Goto(p, "draw") /\ UNCHANGED masterKey
     ELSE masterKey' = [masterKey EXCEPT ![p] = master] /\ Goto(p, "open")
  /\ UNCHANGED <<disk, name, drawn, withdrawn>>

\* A file that is not whole is an error, and stays one.
LoadMasterKey(p) ==
  /\ at[p] = "closed"
  /\ \/ master = None /\ Goto(p, "draw") /\ UNCHANGED masterKey
     \/ /\ master \in Keys
        /\ masterKey' = [masterKey EXCEPT ![p] = master] /\ Goto(p, "open")
  /\ UNCHANGED <<disk, name, drawn, withdrawn>>

\* svc_crypto_random()
DrawMasterKey(p) ==
  /\ at[p] = "draw" /\ drawn < MaxKeys
  /\ drawn' = drawn + 1 /\ masterKey' = [masterKey EXCEPT ![p] = drawn + 1]
  /\ Goto(p, "create") /\ UNCHANGED <<disk, name, withdrawn>>

\* Mutant of CreateMasterKey: a file that another process made is overwritten.
CreateMasterKeyOver(p) ==
  /\ at[p] = "create" /\ master' = Short /\ Goto(p, "write")
  /\ UNCHANGED <<entries, temporaries, masterKey, name, drawn, withdrawn>>

\* open(O_CREAT | O_EXCL): a process that comes second reads the other's key.
CreateMasterKey(p) ==
  /\ at[p] = "create"
  /\ IF master = None THEN master' = Short /\ Goto(p, "write") /\ UNCHANGED masterKey
     ELSE Goto(p, "closed") /\ masterKey' = [masterKey EXCEPT ![p] = None] /\ UNCHANGED master
  /\ UNCHANGED <<entries, temporaries, name, drawn, withdrawn>>

\* write() and fsync(), and what is done if either fails: the file is removed,
\* although another process may have read a key that was not synced.
WriteMasterKey(p) ==
  /\ at[p] = "write" /\ master' = masterKey[p] /\ Goto(p, "sync")
  /\ UNCHANGED <<entries, temporaries, masterKey, name, drawn, withdrawn>>

SyncMasterKey(p) == at[p] = "sync" /\ Goto(p, "open") /\ UNCHANGED <<disk, masterKey, name, drawn, withdrawn>>

RemoveMasterKey(p) ==
  /\ at[p] \in {"write", "sync"} /\ master' = None /\ Goto(p, "closed")
  /\ masterKey' = [masterKey EXCEPT ![p] = None]
  /\ withdrawn' = (withdrawn \/ \E n \in Names : entries[n] = masterKey[p]
                             \/ \E q \in Processes \ {p} : masterKey[q] = masterKey[p])
  /\ UNCHANGED <<entries, temporaries, name, drawn>>

-----------------------------------------------------------------------------
(* svc_keystore_store_secret() and writeFileAtomically(); a write that     *)
(* fails removes the temporary file and changes nothing.                   *)

\* Mutant of WriteTemporary: the file of the secret itself is written.
WriteTemporaryInPlace(p, n) ==
  /\ at[p] = "open" /\ name' = [name EXCEPT ![p] = n]
  /\ entries' = [entries EXCEPT ![n] = Short] /\ Goto(p, "rename")
  /\ UNCHANGED <<master, temporaries, masterKey, drawn, withdrawn>>

\* open(O_CREAT | O_EXCL): refused while a file of an earlier process that had
\* the same id is there.
WriteTemporary(p, n) ==
  /\ at[p] = "open" /\ <<n, p>> \notin temporaries
  /\ name' = [name EXCEPT ![p] = n] /\ temporaries' = temporaries \cup {<<n, p>>}
  /\ Goto(p, "rename") /\ UNCHANGED <<master, entries, masterKey, drawn, withdrawn>>

Rename(p) ==
  /\ at[p] = "rename" /\ Goto(p, "open")
  /\ entries' \in {entries, [entries EXCEPT ![name[p]] = masterKey[p]]}
  /\ temporaries' = temporaries \ {<<name[p], p>>}
  /\ UNCHANGED <<master, masterKey, name, drawn, withdrawn>>

\* svc_keystore_remove()
Remove(p, n) ==
  /\ at[p] = "open" /\ entries[n] # None /\ entries' = [entries EXCEPT ![n] = None]
  /\ UNCHANGED <<master, temporaries, at, masterKey, name, drawn, withdrawn>>

-----------------------------------------------------------------------------
\* svc_keystore_close()
Close(p) ==
  /\ at[p] = "open" /\ Goto(p, "closed") /\ masterKey' = [masterKey EXCEPT ![p] = None]
  /\ UNCHANGED <<disk, name, drawn, withdrawn>>

\* The process dies in a call; what it had written stays.
Crash(p) ==
  /\ at[p] \notin {"closed", "open"}
  /\ Goto(p, "closed") /\ masterKey' = [masterKey EXCEPT ![p] = None]
  /\ UNCHANGED <<disk, name, drawn, withdrawn>>

Next == \E p \in Processes :
  \/ LoadMasterKey(p) \/ DrawMasterKey(p) \/ CreateMasterKey(p) \/ WriteMasterKey(p)
  \/ SyncMasterKey(p) \/ RemoveMasterKey(p)
  \/ Rename(p) \/ Close(p) \/ Crash(p)
  \/ \E n \in Names : WriteTemporary(p, n) \/ Remove(p, n)

Spec == Init /\ [][Next]_vars

-----------------------------------------------------------------------------
(* Correctness. *)

(* A secret that was stored can be loaded again: its file is whole, and    *)
(* encrypted with the one key that every process has and that is on disk,  *)
(* whoever else creates the key meanwhile and wherever a process dies.     *)
(* Only a key that another process has read before its fsync() failed is   *)
(* lost with all that is encrypted with it.                                *)
SecretsReadable ==
  ~withdrawn =>
    /\ \A n \in Names : entries[n] # None => entries[n] = master
    /\ \A p \in Processes : at[p] \in {"open", "rename"} => masterKey[p] = master

-----------------------------------------------------------------------------
(* Proof that secrets stay readable, for any processes, secrets and keys.   *)
Places == {"closed", "draw", "create", "write", "sync", "open", "rename"}

TypeOK ==
  /\ master \in Nat \cup {Short} /\ entries \in [Names -> Nat]
  /\ at \in [Processes -> Places] /\ masterKey \in [Processes -> Nat]
  /\ name \in [Processes -> Names] /\ drawn \in Nat /\ withdrawn \in BOOLEAN

\* Whoever has drawn or read a key has one.
HasKey == \A p \in Processes : at[p] \notin {"closed", "draw"} => masterKey[p] # None

\* The process that made the file is the only one to write it, until it is synced.
OneWriter ==
  /\ \A p, q \in Processes : {at[p], at[q]} \subseteq {"write", "sync"} => p = q
  /\ \A p \in Processes : /\ at[p] = "write" => master = Short
                          /\ at[p] = "sync" => master = masterKey[p]

KeyInv == TypeOK /\ HasKey /\ OneWriter /\ SecretsReadable

(* The key store begins with no key and no secrets.                         *)
LEMMA KeyInit == Init => KeyInv
<1> SUFFICES ASSUME Init PROVE KeyInv
  OBVIOUS
<1>1. TypeOK
  BY DEF Init, TypeOK, Places, None
<1>2. \A p \in Processes : at[p] = "closed"
  BY DEF Init
<1>3. HasKey /\ OneWriter
  BY <1>2 DEF HasKey, OneWriter
<1>4. SecretsReadable
  BY <1>2 DEF Init, SecretsReadable
<1> QED BY <1>1, <1>3, <1>4 DEF KeyInv

(* A process that opens the store reads the key of the others or draws one, *)
(* whose file it writes alone, and takes it back only with a note.          *)
LEMMA OpenStep ==
  ASSUME KeyInv, NEW p \in Processes,
         LoadMasterKey(p) \/ DrawMasterKey(p) \/ CreateMasterKey(p) \/ WriteMasterKey(p)
           \/ SyncMasterKey(p) \/ RemoveMasterKey(p)
  PROVE  KeyInv'
<1> USE DEF KeyInv, TypeOK, HasKey, OneWriter, SecretsReadable, Places, Goto, disk, None, Short
<1>1. CASE LoadMasterKey(p)
  BY <1>1 DEF LoadMasterKey, Keys
<1>2. CASE DrawMasterKey(p)
  BY <1>2 DEF DrawMasterKey
<1>3. CASE CreateMasterKey(p)
  <2>1. CASE master = None
    BY <1>3, <2>1 DEF CreateMasterKey
  <2>2. CASE master # None
    BY <1>3, <2>2 DEF CreateMasterKey
  <2> QED BY <2>1, <2>2
<1>4. CASE WriteMasterKey(p)
  BY <1>4 DEF WriteMasterKey
<1>5. CASE SyncMasterKey(p)
  BY <1>5 DEF SyncMasterKey
<1>6. CASE RemoveMasterKey(p)
  <2>1. TypeOK' /\ HasKey' /\ OneWriter'
    BY <1>6 DEF RemoveMasterKey
  <2>2. ASSUME ~withdrawn', NEW n \in Names PROVE entries[n] = None
    <3>1. ~withdrawn /\ entries[n] # masterKey[p]
      BY <1>6, <2>2 DEF RemoveMasterKey
    <3>2. master = Short \/ master = masterKey[p]
      BY <1>6 DEF RemoveMasterKey
    <3> QED BY <3>1, <3>2
  <2>3. ASSUME ~withdrawn', NEW q \in Processes, at'[q] \in {"open", "rename"} PROVE FALSE
    <3>1. q # p /\ at[q] = at'[q]
      BY <1>6, <2>3 DEF RemoveMasterKey
    <3>2. ~withdrawn /\ masterKey[q] # masterKey[p]
      BY <1>6, <2>3, <3>1 DEF RemoveMasterKey
    <3>3. master = Short \/ master = masterKey[p]
      BY <1>6 DEF RemoveMasterKey
    <3> QED BY <2>3, <3>1, <3>2, <3>3
  <2> QED BY <1>6, <2>1, <2>2, <2>3 DEF RemoveMasterKey
<1> QED BY <1>1, <1>2, <1>3, <1>4, <1>5, <1>6

(* Secrets are written, renamed and removed by processes that have the key. *)
LEMMA StoreStep ==
  ASSUME KeyInv, NEW p \in Processes,
         Rename(p) \/ Close(p) \/ Crash(p) \/ \E n \in Names : WriteTemporary(p, n) \/ Remove(p, n)
  PROVE  KeyInv'
<1> USE DEF KeyInv, TypeOK, HasKey, OneWriter, SecretsReadable, Places, Goto, disk, None, Short
<1>1. CASE Rename(p)
  BY <1>1 DEF Rename
<1>2. CASE Close(p)
  BY <1>2 DEF Close
<1>3. CASE Crash(p)
  BY <1>3 DEF Crash
<1>4. ASSUME NEW n \in Names, WriteTemporary(p, n) PROVE KeyInv'
  BY <1>4 DEF WriteTemporary
<1>5. ASSUME NEW n \in Names, Remove(p, n) PROVE KeyInv'
  BY <1>5 DEF Remove
<1> QED BY <1>1, <1>2, <1>3, <1>4, <1>5

(* For any number of processes that create, load, crash and fail: what was  *)
(* stored is whole and encrypted with the one key that is on disk and that  *)
(* every process has (unless an unsynced key that was read is withdrawn).   *)
THEOREM SecretsStayReadable == Spec => []SecretsReadable
<1>1. KeyInv /\ [Next]_vars => KeyInv'
  <2>1. ASSUME KeyInv, Next PROVE KeyInv'
    BY <2>1, OpenStep, StoreStep DEF Next
  <2>2. ASSUME KeyInv, UNCHANGED vars PROVE KeyInv'
    BY <2>2 DEF vars, disk, KeyInv, TypeOK, HasKey, OneWriter, SecretsReadable
  <2> QED BY <2>1, <2>2
<1>2. KeyInv => SecretsReadable
  BY DEF KeyInv
<1> QED BY KeyInit, <1>1, <1>2, PTL DEF Spec
===============================================================================
