----------------------------- MODULE KeyManager -----------------------------
(***************************************************************************)
(* SecureKeyManager (src/mevbot/core/security/key_manager.py): the master *)
(* key file and the keys file on disk, across crashes of the process that *)
(* owns the manager (SafetyCoordinator constructs it first).               *)
(*                                                                         *)
(* Each operation runs without suspension; a crash may come between two    *)
(* of them, or, when TornWrites holds, inside one of its file writes:      *)
(* open(path, 'w'/'wb') truncates the file at once and the content is      *)
(* written when the `with` block closes it, so a process killed in between *)
(* leaves an empty file.  Salts, the PBKDF2 derivation and Fernet are      *)
(* abstracted: an entry records the password it was encrypted under, and   *)
(* decryption succeeds exactly with that password.                         *)
(***************************************************************************)
EXTENDS Naturals

CONSTANTS
  KeyIds,     \* key identifiers
  Passwords,  \* passwords a caller may give
  Values,     \* valid private keys (64 hex digits, an address derives)
  Invalid,    \* a string that is not a valid private key
  MaxBoots,   \* bound: constructions of the manager
  Crashes,    \* whether the process may die between two operations
  TornWrites, \* whether it may die inside a file write
  NoFile,     \* no keys file on disk
  Empty       \* an empty (truncated) keys file: json.load raises

VARIABLES
  up,      \* a constructed manager is alive
  boots,   \* constructions so far
  master,  \* .master.key: "none", "empty" (truncated) or "ok"
  keys     \* encrypted_keys.json: a store, NoFile or Empty

vars == <<up, boots, master, keys>>

None == "none"
EmptyStore == [k \in {} |-> [pw |-> None, val |-> None]]

\* The contents json.load can read: functions from some ids to entries.
Stores == UNION {[S -> [pw : Passwords, val : Values]] : S \in SUBSET KeyIds}

\* _validate_private_key: 64 hex digits (after an optional 0x) from which
\* an address derives.
ValidKey(v) == v \in Values

\* get_private_key: load the file (an unreadable one gives None), look the
\* id up, decrypt with the key derived from the password (a wrong one
\* raises InvalidToken, caught), validate the result.
Get(k, pw) ==
  IF keys \in Stores /\ k \in DOMAIN keys /\ keys[k].pw = pw
     /\ ValidKey(keys[k].val)
  THEN keys[k].val ELSE None

Init ==
  /\ up = FALSE /\ boots = 0
  /\ master = "none" /\ keys = NoFile

\* __init__ and _initialize_keystore: write a fresh master key if the file
\* does not exist; read it into Fernet, which raises on an empty file, and
\* the construction raises with it; write {} to the keys file if it does
\* not exist.  An existing keys file is kept, readable or not.
Construct ==
  /\ ~up /\ boots < MaxBoots
  /\ boots' = boots + 1
  /\ \/ /\ master \in {"none", "ok"} /\ master' = "ok"
        /\ up' = TRUE
        /\ keys' = IF keys = NoFile THEN EmptyStore ELSE keys
     \/ /\ master = "none" /\ TornWrites                \* killed in the write
        /\ master' = "empty" /\ up' = FALSE /\ UNCHANGED keys
     \/ /\ master \in {"none", "ok"} /\ keys = NoFile /\ master' = "ok"
        /\ \/ Crashes /\ UNCHANGED keys        \* killed before the keys file
           \/ TornWrites /\ keys' = Empty      \* killed in its write
        /\ up' = FALSE
     \/ /\ master = "empty"                    \* Fernet(b'') raises
        /\ up' = FALSE /\ UNCHANGED <<master, keys>>

\* The new content of a file write, or an empty file and a dead process.
Write(new) ==
  \/ keys' = new /\ UNCHANGED up
  \/ TornWrites /\ keys' = Empty /\ up' = FALSE

\* Mutant: the key is stored without _validate_private_key.
AddPrivateKeyUnchecked(k, pw, v) ==
  /\ up /\ keys \in Stores
  /\ Write([x \in DOMAIN keys \cup {k} |->
             IF x = k THEN [pw |-> pw, val |-> v] ELSE keys[x]])
  /\ UNCHANGED <<boots, master>>

\* add_private_key: an invalid key, or a keys file json.load cannot read,
\* returns False with nothing written; otherwise the loaded keys, with the
\* entry for k set (an existing one is replaced), are written back.
AddPrivateKey(k, pw, v) ==
  /\ up /\ ValidKey(v) /\ keys \in Stores
  /\ Write([x \in DOMAIN keys \cup {k} |->
             IF x = k THEN [pw |-> pw, val |-> v] ELSE keys[x]])
  /\ UNCHANGED <<boots, master>>

\* remove_key: get_private_key must succeed with the password (else
\* False); the file is loaded again and, with k deleted, written back.
RemoveKey(k, pw) ==
  /\ up /\ Get(k, pw) # None
  /\ Write([x \in DOMAIN keys \ {k} |-> keys[x]])
  /\ UNCHANGED <<boots, master>>

\* The process dies between two operations.
Crash ==
  /\ up /\ Crashes
  /\ up' = FALSE
  /\ UNCHANGED <<boots, master, keys>>

Next ==
  \/ Construct
  \/ \E k \in KeyIds, pw \in Passwords :
       \/ \E v \in Values \cup {Invalid} : AddPrivateKey(k, pw, v)
       \/ RemoveKey(k, pw)
  \/ Crash

Spec == Init /\ [][Next]_vars

-----------------------------------------------------------------------------

\* Types; a live manager has read a master key, and every stored entry is
\* a valid private key.
TypeOK ==
  /\ up \in BOOLEAN /\ boots \in 0 .. MaxBoots
  /\ master \in {"none", "empty", "ok"}
  /\ keys \in Stores \cup {NoFile, Empty}
  /\ up => master = "ok" /\ keys # NoFile

=============================================================================
