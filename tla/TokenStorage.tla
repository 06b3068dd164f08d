---------------------------- MODULE TokenStorage ----------------------------
(***************************************************************************)
(* auth/token_storage.py, EncryptedFileStorage: the token files and the    *)
(* file with the encryption key that lie in one directory, and the         *)
(* processes that share it (servers, and the commands login, logout,       *)
(* whoami and doctor of cli/__init__.py).  In a process the event loop     *)
(* runs one piece of code at a time, the use of the key file included; the *)
(* token files are read, written and unlinked in threads.  Nothing locks,  *)
(* and every file is written in place: opened, which empties it, and then  *)
(* written.                                                                *)
(***************************************************************************)
EXTENDS Naturals

CONSTANTS
  Processes,  \* the processes that use the directory
  Operations, \* the operations in progress
  Runs,       \* which process runs each of them
  Names,      \* the keys token sets are stored under
  Entry,      \* which of them each process uses
  Tokens,     \* the token sets
  MaxKeys,    \* bound: this many encryption keys are generated
  Nothing,    \* no token set, or no file
  Empty,      \* a file that was opened for writing, and not yet written
  Torn,       \* a file that holds parts of two writes
  Plain       \* the key of a file that is not encrypted

Keys == 1..MaxKeys
Contents == [key : Keys \cup {Plain}, token : Tokens]
NoContents == {Nothing, Empty, Torn}

ASSUME ProcessAssumption ==
  Runs \in [Operations -> Processes] /\ Entry \in [Processes -> Names]
ASSUME BoundAssumption == MaxKeys \in Nat
ASSUME ValueAssumption ==
  /\ NoContents \cap (Tokens \cup Contents \cup Keys \cup {Plain}) = {}
  /\ Tokens \cap Contents = {}
  /\ Plain \notin Keys
  /\ Nothing # Empty /\ Nothing # Torn /\ Empty # Torn

VARIABLES
  encrypted,  \* _has_crypto: the package cryptography is installed
  keyFile,    \* .fastauthmcp_key
  made,       \* how many encryption keys have been generated
  file,       \* the token file of each name
  pc,         \* where each operation is
  hand,       \* what it is to store, or has read
  drawn,      \* the encryption key it has generated
  attached,   \* the file it is writing is still in the directory
  last,       \* history: what was stored last under each name
  spoiled,    \* history: the last write of each name was cut short, or not alone
  raced       \* history: two operations generated keys at the same time

keyVars == <<keyFile, made, drawn, raced>>
fileVars == <<file, attached, last, spoiled>>
vars == <<encrypted, keyVars, fileVars, pc, hand>>

Steps == {"idle", "derive_key", "make_key", "write_key",
          "write", "writing", "chmod", "read", "unlink"}

NameOf(o) == Entry[Runs[o]]
MakesKey(o) == pc[o] \in {"make_key", "write_key"}
Writes(o, n) == pc[o] = "writing" /\ attached[o] /\ NameOf(o) = n
Goto(o, step) == pc' = [pc EXCEPT ![o] = step]
Done(o) == Goto(o, "idle") /\ hand' = [hand EXCEPT ![o] = Nothing]

TypeOK ==
  /\ encrypted \in BOOLEAN
  /\ keyFile \in Keys \cup NoContents
  /\ made \in 0..MaxKeys
  /\ file \in [Names -> Contents \cup NoContents]
  /\ pc \in [Operations -> Steps]
  /\ hand \in [Operations -> Tokens \cup Contents \cup NoContents]
  /\ drawn \in [Operations -> Keys \cup {Nothing}]
  /\ attached \in [Operations -> BOOLEAN]
  /\ last \in [Names -> Tokens \cup {Nothing}]
  /\ spoiled \in [Names -> BOOLEAN]
  /\ raced \in BOOLEAN
  /\ \A o \in Operations :
       /\ pc[o] \in {"write", "writing"} => hand[o] \in Contents
       /\ pc[o] = "derive_key" \/ MakesKey(o) => hand[o] # Nothing
       /\ pc[o] = "write_key" => drawn[o] \in Keys

(* The directory may be new, or hold a key already. *)
Init ==
  /\ encrypted \in BOOLEAN
  /\ made \in {0, 1} \cap (0..MaxKeys)
  /\ keyFile = IF made = 0 THEN Nothing ELSE made
  /\ file = [n \in Names |-> Nothing]
  /\ pc = [o \in Operations |-> "idle"]
  /\ hand = [o \in Operations |-> Nothing]
  /\ drawn = [o \in Operations |-> Nothing]
  /\ attached = [o \in Operations |-> FALSE]
  /\ last = [n \in Names |-> Nothing]
  /\ spoiled = [n \in Names |-> FALSE]
  /\ raced = FALSE

-----------------------------------------------------------------------------
(* The calls, up to their first await or to the use of the key file.  The  *)
(* loop of a process is free unless it is busy making a key.               *)

LoopFree(o) == \A x \in Operations : Runs[x] = Runs[o] => ~MakesKey(x)

BeginStore(o) ==
  /\ pc[o] = "idle" /\ LoopFree(o)
  /\ \E t \in Tokens :
       hand' = [hand EXCEPT ![o] = IF encrypted THEN t ELSE [key |-> Plain, token |-> t]]
  /\ Goto(o, IF encrypted THEN "derive_key" ELSE "write")
  /\ UNCHANGED <<encrypted, keyVars, fileVars>>

(* If there is no file, a retrieve finds nothing and a delete does nothing.*)
BeginRetrieve(o) ==
  /\ pc[o] = "idle" /\ LoopFree(o)
  /\ file[NameOf(o)] # Nothing
  /\ Goto(o, "read")
  /\ UNCHANGED <<encrypted, keyVars, fileVars, hand>>

BeginDelete(o) ==
  /\ pc[o] = "idle" /\ LoopFree(o)
  /\ file[NameOf(o)] # Nothing
  /\ Goto(o, "unlink")
  /\ UNCHANGED <<encrypted, keyVars, fileVars, hand>>

-----------------------------------------------------------------------------
(* _derive_key, inside _encrypt and _decrypt.                              *)

(* With its key a store seals the token set; a retrieve, whose file it may *)
(* not open, answers with the token set or with None.                      *)
UseKey(o, k) ==
  IF hand[o] \in Tokens
    THEN /\ hand' = [hand EXCEPT ![o] = [key |-> k, token |-> hand[o]]]
         /\ Goto(o, "write")
    ELSE Done(o)

(* Mutant: the key on file is taken for an invalid one. *)
DeriveKeyAnew(o) ==
  /\ pc[o] = "derive_key" /\ LoopFree(o)
  /\ Goto(o, "make_key") /\ UNCHANGED <<raced, hand>>
  /\ UNCHANGED <<encrypted, keyFile, made, drawn, fileVars>>

(* A file of 32 bytes is the key.  Any other, or none, is replaced.        *)
DeriveKey(o) ==
  /\ pc[o] = "derive_key" /\ LoopFree(o)
  /\ IF keyFile \in Keys
       THEN UseKey(o, keyFile) /\ UNCHANGED raced
       ELSE /\ Goto(o, "make_key") /\ UNCHANGED hand
            /\ raced' = (raced \/ \E x \in Operations : MakesKey(x))
  /\ UNCHANGED <<encrypted, keyFile, made, drawn, fileVars>>

OpenKeyFile(o) ==
  /\ pc[o] = "make_key"
  /\ made < MaxKeys
  /\ made' = made + 1
  /\ drawn' = [drawn EXCEPT ![o] = made + 1]
  /\ keyFile' = Empty
  /\ Goto(o, "write_key")
  /\ UNCHANGED <<encrypted, raced, fileVars, hand>>

(* The key that was drawn is used, whatever another process has written.   *)
WriteKeyFile(o) ==
  /\ pc[o] = "write_key"
  /\ keyFile' = drawn[o]
  /\ drawn' = [drawn EXCEPT ![o] = Nothing]
  /\ UseKey(o, drawn[o])
  /\ UNCHANGED <<encrypted, made, raced, fileVars>>

-----------------------------------------------------------------------------
(* The threads.                                                            *)

OpenFile(o) ==
  /\ pc[o] = "write"
  /\ LET n == NameOf(o)
     IN  /\ file' = [file EXCEPT ![n] = Empty]
         /\ spoiled' = [spoiled EXCEPT ![n] = \E x \in Operations : Writes(x, n)]
  /\ attached' = [attached EXCEPT ![o] = TRUE]
  /\ Goto(o, "writing")
  /\ UNCHANGED <<encrypted, keyVars, last, hand>>

(* Over what another store has written since the file was opened, the      *)
(* longer of the two leaves its end; what is written to a file that has    *)
(* been unlinked is lost.                                                  *)
WriteFile(o) ==
  /\ pc[o] = "writing"
  /\ LET n == NameOf(o)
     IN  IF attached[o]
           THEN /\ \E c \in IF file[n] = Empty THEN {hand[o]} ELSE {hand[o], Torn} :
                     file' = [file EXCEPT ![n] = c]
                /\ last' = [last EXCEPT ![n] = hand[o].token]
           ELSE UNCHANGED <<file, last>>
  /\ attached' = [attached EXCEPT ![o] = FALSE]
  /\ hand' = [hand EXCEPT ![o] = Nothing]
  /\ Goto(o, "chmod")
  /\ UNCHANGED <<encrypted, keyVars, spoiled>>

(* The store returns; or raises, if the file has been unlinked. *)
Chmod(o) ==
  /\ pc[o] = "chmod"
  /\ Done(o)
  /\ UNCHANGED <<encrypted, keyVars, fileVars>>

(* Mutant: the file is not looked for again before it is used. *)
ReadFileUnchecked(o) ==
  /\ pc[o] = "read"
  /\ IF encrypted
       THEN /\ hand' = [hand EXCEPT ![o] = file[NameOf(o)]]
            /\ Goto(o, "derive_key")
       ELSE Done(o)
  /\ UNCHANGED <<encrypted, keyVars, fileVars>>

(* No file any more: None.  A file that is not encrypted is parsed, which  *)
(* raises if it is empty or torn.                                          *)
ReadFile(o) ==
  /\ pc[o] = "read"
  /\ IF encrypted /\ file[NameOf(o)] # Nothing
       THEN /\ hand' = [hand EXCEPT ![o] = file[NameOf(o)]]
            /\ Goto(o, "derive_key")
       ELSE Done(o)
  /\ UNCHANGED <<encrypted, keyVars, fileVars>>

(* Mutant: a delete empties the file and leaves it. *)
EmptyFile(o) ==
  /\ pc[o] = "unlink"
  /\ file' = [file EXCEPT ![NameOf(o)] = IF @ = Nothing THEN Nothing ELSE Empty]
  /\ last' = [last EXCEPT ![NameOf(o)] = Nothing]
  /\ Done(o)
  /\ UNCHANGED <<encrypted, keyVars, attached, spoiled>>

(* The delete raises if there is no file any more. *)
Unlink(o) ==
  /\ pc[o] = "unlink"
  /\ LET n == NameOf(o)
     IN  /\ file' = [file EXCEPT ![n] = Nothing]
         /\ last' = [last EXCEPT ![n] = Nothing]
         /\ spoiled' = [spoiled EXCEPT ![n] = FALSE]
         /\ attached' = [x \in Operations |-> attached[x] /\ NameOf(x) # n]
  /\ Done(o)
  /\ UNCHANGED <<encrypted, keyVars>>

-----------------------------------------------------------------------------
(* A call that is cancelled before its thread has begun, or as it comes    *)
(* back from it, does nothing more; a thread that runs is not stopped.     *)
Abandon(o) ==
  /\ \/ pc[o] \in {"write", "read", "unlink"}
     \/ pc[o] = "derive_key" /\ hand[o] \notin Tokens
  /\ Done(o)
  /\ UNCHANGED <<encrypted, keyVars, fileVars>>

(* The disk is full: a file that was opened stays empty, or as it was.     *)
DiskFails(o) ==
  /\ pc[o] \in {"make_key", "write_key", "write", "writing"}
  /\ Done(o)
  /\ drawn' = [drawn EXCEPT ![o] = Nothing]
  /\ attached' = [attached EXCEPT ![o] = FALSE]
  /\ spoiled' = [n \in Names |-> spoiled[n] \/ Writes(o, n)]
  /\ UNCHANGED <<encrypted, keyFile, made, raced, file, last>>

(* A process dies, or is killed: files it was writing stay as they are. *)
Crash(p) ==
  LET own(o) == Runs[o] = p
  IN  /\ pc' = [o \in Operations |-> IF own(o) THEN "idle" ELSE pc[o]]
      /\ hand' = [o \in Operations |-> IF own(o) THEN Nothing ELSE hand[o]]
      /\ drawn' = [o \in Operations |-> IF own(o) THEN Nothing ELSE drawn[o]]
      /\ attached' = [o \in Operations |-> IF own(o) THEN FALSE ELSE attached[o]]
      /\ spoiled' = [n \in Names |->
                       spoiled[n] \/ \E o \in Operations : own(o) /\ Writes(o, n)]
      /\ UNCHANGED <<encrypted, keyFile, made, raced, file, last>>

Next ==
  \/ \E o \in Operations :
       \/ BeginStore(o) \/ BeginRetrieve(o) \/ BeginDelete(o)
       \/ DeriveKey(o) \/ OpenKeyFile(o) \/ WriteKeyFile(o)
       \/ OpenFile(o) \/ WriteFile(o) \/ Chmod(o) \/ ReadFile(o) \/ Unlink(o)
       \/ Abandon(o) \/ DiskFails(o)
  \/ \E p \in Processes : Crash(p)

Spec == Init /\ [][Next]_vars

-----------------------------------------------------------------------------
(* The key a retrieve would use. *)
KeyInUse == IF encrypted THEN keyFile ELSE Plain

(* No token set is sealed under a key that has been lost: unless two       *)
(* processes have generated the first key at the same time, every token    *)
(* file that is whole opens with the key on file, and so does every one    *)
(* that a store is about to write or a retrieve has read, through crashes  *)
(* that leave the key file empty.                                          *)
SealedUnderTheKey ==
  ~raced =>
    /\ \A n \in Names : file[n] \in Contents => file[n].key = KeyInUse
    /\ \A o \in Operations : hand[o] \in Contents => hand[o].key = KeyInUse

(* A retrieve finds what was stored last: when no store of the name is     *)
(* half done, the last one was neither cut short by a crash nor crossed by *)
(* another, and the encryption key was not raced for, the file is absent   *)
(* after a delete and opens to the last token set after a store.           *)
LastStoreIsReadable ==
  \A n \in Names :
    ~raced /\ ~spoiled[n] /\ (\A o \in Operations : ~Writes(o, n)) =>
      file[n] = IF last[n] = Nothing THEN Nothing
                ELSE [key |-> KeyInUse, token |-> last[n]]

=============================================================================
