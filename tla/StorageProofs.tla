--------------------------- MODULE StorageProofs ---------------------------
(***************************************************************************)
(* Proofs about where token sets are kept: in files (TokenStorage), by     *)
(* commands (CommandLine), and in the session store (Sessions), for any    *)
(* number of processes, operations, shells, calls and session IDs.         *)
(***************************************************************************)
EXTENDS TokenStorage, CommandLine, Sessions, TLAPS

-----------------------------------------------------------------------------
(* TokenStorage.  The invariant has three parts: what one loop per         *)
(* process, and the absence of a race, make of the key file; that whatever *)
(* is sealed is sealed under the key on file; and what a token file holds, *)
(* with and without a store that has it open.                              *)

(* In a process one operation at a time is making a key.  Unless two have  *)
(* raced, one at a time in all, and then there is no key on file.          *)
Making ==
  /\ \A x, y \in Operations :
       MakesKey(x) /\ MakesKey(y) /\ (Runs[x] = Runs[y] \/ ~raced) => x = y
  /\ \A x \in Operations : MakesKey(x) /\ ~raced => keyFile \notin Keys

(* The key file is used only where there is encryption. *)
PlainFiles ==
  ~encrypted => \A o \in Operations : pc[o] # "derive_key" /\ ~MakesKey(o)

SealedRightly(c) ==
  c \in Contents => c.key = KeyInUse /\ (encrypted => keyFile \in Keys)

Sealed ==
  ~raced => /\ \A n \in Names : SealedRightly(file[n])
            /\ \A o \in Operations : SealedRightly(hand[o])

(* A file that is not spoiled is open in one store at most, and then empty;*)
(* or holds what was stored last.                                          *)
Whole(n) ==
  IF last[n] = Nothing THEN file[n] = Nothing
  ELSE file[n] \in Contents /\ file[n].token = last[n]

Intact(n) ==
  /\ \A x, y \in Operations : Writes(x, n) /\ Writes(y, n) => x = y
  /\ \A x \in Operations : Writes(x, n) => file[n] = Empty
  /\ (\A x \in Operations : ~Writes(x, n)) => Whole(n)

FilesIntact == \A n \in Names : ~spoiled[n] => Intact(n)

IInv == TypeOK /\ Making /\ PlainFiles /\ Sealed /\ FilesIntact

-----------------------------------------------------------------------------
(* What a file or a hand may hold, as facts of the three kinds of value.   *)
LEMMA ValueFacts ==
  /\ Nothing # Empty /\ Nothing # Torn /\ Empty # Torn
  /\ \A x \in NoContents : x \notin Tokens /\ x \notin Contents /\ x \notin Keys
  /\ Tokens \cap Contents = {}
  /\ Plain \notin Keys
  BY ValueAssumption

LEMMA ContentsFacts ==
  /\ \A k \in Keys \cup {Plain}, t \in Tokens : [key |-> k, token |-> t] \in Contents
  /\ \A c \in Contents :
       /\ c.key \in Keys \cup {Plain} /\ c.token \in Tokens
       /\ c = [key |-> c.key, token |-> c.token]
  BY DEF Contents

LEMMA NameOfType == \A o \in Operations : Runs[o] \in Processes /\ NameOf(o) \in Names
  BY ProcessAssumption DEF NameOf

(* The type invariant, apart from the boolean variables, in two parts.     *)
Values ==
  /\ keyFile \in Keys \cup NoContents
  /\ made \in 0..MaxKeys
  /\ file \in [Names -> Contents \cup NoContents]
  /\ pc \in [Operations -> Steps]
  /\ hand \in [Operations -> Tokens \cup Contents \cup NoContents]
  /\ drawn \in [Operations -> Keys \cup {Nothing}]
  /\ last \in [Names -> Tokens \cup {Nothing}]

Flags ==
  /\ encrypted \in BOOLEAN
  /\ attached \in [Operations -> BOOLEAN]
  /\ spoiled \in [Names -> BOOLEAN]
  /\ raced \in BOOLEAN

Held(o) ==
  /\ pc[o] \in {"write", "writing"} => hand[o] \in Contents
  /\ pc[o] = "derive_key" \/ MakesKey(o) => hand[o] # Nothing
  /\ pc[o] = "write_key" => drawn[o] \in Keys

Typed == Values /\ Flags /\ \A o \in Operations : Held(o)

LEMMA TypeParts == (TypeOK <=> Typed) /\ (TypeOK' <=> Typed')
  BY DEF TypeOK, Typed, Values, Flags, Held

LEMMA InitInvariant == Init => IInv
<1> SUFFICES ASSUME Init PROVE IInv
  OBVIOUS
<1>1. Values
  <2>1. keyFile \in Keys \cup NoContents /\ made \in 0..MaxKeys
    BY BoundAssumption DEF Init, Keys, NoContents
  <2>2. Nothing \in NoContents /\ "idle" \in Steps
    BY DEF NoContents, Steps
  <2> QED
    BY <2>1, <2>2 DEF Init, Values
<1>2. Flags
  BY Zenon DEF Init, Flags
<1>3. \A o \in Operations : Held(o)
  BY DEF Init, Held, MakesKey
<1>4. Making /\ PlainFiles
  BY DEF Init, Making, PlainFiles, MakesKey
<1>5. Nothing \notin Contents
  BY ValueFacts DEF NoContents
<1>6. Sealed
  BY <1>5 DEF Init, Sealed, SealedRightly
<1>7. FilesIntact
  BY DEF Init, FilesIntact, Intact, Writes, Whole
<1> QED
  BY <1>1, <1>2, <1>3, <1>4, <1>6, <1>7, TypeParts DEF IInv, Typed

-----------------------------------------------------------------------------
(* Types. *)

LEMMA FlagsStep == ASSUME Flags, Next PROVE Flags'
<1>1. CASE \E o \in Operations :
             BeginStore(o) \/ BeginRetrieve(o) \/ BeginDelete(o) \/ OpenKeyFile(o)
             \/ WriteKeyFile(o) \/ Chmod(o) \/ ReadFile(o) \/ Abandon(o)
  BY <1>1, Zenon DEF Flags, BeginStore, BeginRetrieve, BeginDelete, OpenKeyFile,
     WriteKeyFile, Chmod, ReadFile, Abandon, keyVars, fileVars
<1>2. ASSUME NEW o \in Operations, DeriveKey(o) PROVE Flags'
  BY <1>2, Zenon DEF Flags, DeriveKey, fileVars
<1>3. ASSUME NEW o \in Operations, OpenFile(o) PROVE Flags'
  BY <1>3, Zenon DEF Flags, OpenFile, keyVars
<1>4. ASSUME NEW o \in Operations, WriteFile(o) PROVE Flags'
  BY <1>4, Zenon DEF Flags, WriteFile, keyVars
<1>5. ASSUME NEW o \in Operations, Unlink(o) PROVE Flags'
  BY <1>5, Zenon DEF Flags, Unlink, keyVars
<1>6. ASSUME NEW o \in Operations, DiskFails(o) PROVE Flags'
  BY <1>6, Zenon DEF Flags, DiskFails
<1>7. ASSUME NEW p \in Processes, Crash(p) PROVE Flags'
  BY <1>7, Zenon DEF Flags, Crash
<1> QED
  BY <1>1, <1>2, <1>3, <1>4, <1>5, <1>6, <1>7 DEF Next

(* What changes hands is of the right kind.                                *)
LEMMA StepsListed ==
  /\ "idle" \in Steps /\ "derive_key" \in Steps /\ "make_key" \in Steps
  /\ "write_key" \in Steps /\ "write" \in Steps /\ "writing" \in Steps
  /\ "chmod" \in Steps /\ "read" \in Steps /\ "unlink" \in Steps
  /\ Nothing \in NoContents /\ Empty \in NoContents /\ Torn \in NoContents
  BY DEF Steps, NoContents

LEMMA UseKeyType ==
  ASSUME Values, NEW o \in Operations, NEW k \in Keys, UseKey(o, k)
  PROVE  /\ pc' \in [Operations -> Steps]
         /\ hand' \in [Operations -> Tokens \cup Contents \cup NoContents]
BY StepsListed, ContentsFacts DEF Values, UseKey, Done, Goto

LEMMA ValuesStep ==
  ASSUME Values, \A o \in Operations : Held(o), Next PROVE Values'
<1> USE StepsListed, ContentsFacts, NameOfType DEF Values, Goto, Done
<1>1. ASSUME NEW o \in Operations, BeginStore(o) PROVE Values'
  <2>1. PICK t \in Tokens :
          hand' = [hand EXCEPT ![o] =
                     IF encrypted THEN t ELSE [key |-> Plain, token |-> t]]
    BY <1>1 DEF BeginStore
  <2>2. (IF encrypted THEN t ELSE [key |-> Plain, token |-> t]) \in Tokens \cup Contents
    OBVIOUS
  <2>3. hand' \in [Operations -> Tokens \cup Contents \cup NoContents]
    BY <2>1, <2>2
  <2>4. pc' \in [Operations -> Steps]
    BY <1>1 DEF BeginStore
  <2> QED
    BY <1>1, <2>3, <2>4 DEF BeginStore, keyVars, fileVars
<1>2. ASSUME NEW o \in Operations, BeginRetrieve(o) \/ BeginDelete(o) PROVE Values'
  BY <1>2 DEF BeginRetrieve, BeginDelete, keyVars, fileVars
<1>3. ASSUME NEW o \in Operations, DeriveKey(o) PROVE Values'
  BY <1>3, UseKeyType DEF DeriveKey, fileVars
<1>4. ASSUME NEW o \in Operations, OpenKeyFile(o) PROVE Values'
  BY <1>4, BoundAssumption DEF OpenKeyFile, fileVars, Keys
<1>5. ASSUME NEW o \in Operations, WriteKeyFile(o), Held(o) PROVE Values'
  BY <1>5, UseKeyType DEF WriteKeyFile, Held, fileVars
<1>6. ASSUME NEW o \in Operations, OpenFile(o) PROVE Values'
  BY <1>6 DEF OpenFile, keyVars
<1>7. ASSUME NEW o \in Operations, WriteFile(o), Held(o) PROVE Values'
  BY <1>7 DEF WriteFile, Held, keyVars
<1>8. ASSUME NEW o \in Operations, Chmod(o) \/ Abandon(o) PROVE Values'
  BY <1>8 DEF Chmod, Abandon, keyVars, fileVars
<1>9. ASSUME NEW o \in Operations, ReadFile(o) PROVE Values'
  BY <1>9 DEF ReadFile, keyVars, fileVars
<1>10. ASSUME NEW o \in Operations, Unlink(o) PROVE Values'
  BY <1>10 DEF Unlink, keyVars
<1>11. ASSUME NEW o \in Operations, DiskFails(o) PROVE Values'
  BY <1>11 DEF DiskFails
<1>12. ASSUME NEW p \in Processes, Crash(p) PROVE Values'
  BY <1>12 DEF Crash
<1> QED
  BY <1>1, <1>2, <1>3, <1>4, <1>5, <1>6, <1>7, <1>8, <1>9, <1>10, <1>11, <1>12 DEF Next

(* An operation that is not the one that moves keeps what it holds.        *)
LEMMA HeldStep ==
  ASSUME Values, \A o \in Operations : Held(o), Next
  PROVE  (\A o \in Operations : Held(o))'
<1> USE ContentsFacts, ValueFacts DEF Values, Held, MakesKey, Goto, Done
<1> SUFFICES ASSUME NEW x \in Operations PROVE Held(x)'
  OBVIOUS
<1>1. ASSUME NEW o \in Operations, BeginStore(o) PROVE Held(x)'
  <2>1. PICK t \in Tokens :
          hand' = [hand EXCEPT ![o] =
                     IF encrypted THEN t ELSE [key |-> Plain, token |-> t]]
    BY <1>1 DEF BeginStore
  <2>2. CASE encrypted
    <3>1. t # Nothing
      BY DEF NoContents
    <3>2. hand' = [hand EXCEPT ![o] = t] /\ pc' = [pc EXCEPT ![o] = "derive_key"]
      BY <1>1, <2>1, <2>2 DEF BeginStore
    <3> QED
      BY <1>1, <3>1, <3>2 DEF BeginStore, keyVars
  <2>3. CASE ~encrypted
    <3>1. /\ hand' = [hand EXCEPT ![o] = [key |-> Plain, token |-> t]]
          /\ pc' = [pc EXCEPT ![o] = "write"]
      BY <1>1, <2>1, <2>3 DEF BeginStore
    <3> QED
      BY <1>1, <3>1 DEF BeginStore, keyVars
  <2> QED
    BY <2>2, <2>3
<1>2. ASSUME NEW o \in Operations, BeginRetrieve(o) \/ BeginDelete(o) PROVE Held(x)'
  BY <1>2 DEF BeginRetrieve, BeginDelete, keyVars
<1>3. ASSUME NEW o \in Operations, DeriveKey(o) PROVE Held(x)'
  BY <1>3 DEF DeriveKey, UseKey
<1>4. ASSUME NEW o \in Operations, OpenKeyFile(o) PROVE Held(x)'
  BY <1>4, BoundAssumption DEF OpenKeyFile, Keys
<1>5. ASSUME NEW o \in Operations, WriteKeyFile(o) PROVE Held(x)'
  BY <1>5 DEF WriteKeyFile, UseKey
<1>6. ASSUME NEW o \in Operations, OpenFile(o) PROVE Held(x)'
  BY <1>6 DEF OpenFile, keyVars
<1>7. ASSUME NEW o \in Operations, WriteFile(o) PROVE Held(x)'
  BY <1>7 DEF WriteFile, keyVars
<1>8. ASSUME NEW o \in Operations, Chmod(o) \/ Abandon(o) PROVE Held(x)'
  BY <1>8 DEF Chmod, Abandon, keyVars
<1>9. ASSUME NEW o \in Operations, ReadFile(o) PROVE Held(x)'
  BY <1>9 DEF ReadFile, keyVars
<1>10. ASSUME NEW o \in Operations, Unlink(o) PROVE Held(x)'
  BY <1>10 DEF Unlink, keyVars
<1>11. ASSUME NEW o \in Operations, DiskFails(o) PROVE Held(x)'
  BY <1>11 DEF DiskFails
<1>12. ASSUME NEW p \in Processes, Crash(p) PROVE Held(x)'
  BY <1>12 DEF Crash
<1> QED
  BY <1>1, <1>2, <1>3, <1>4, <1>5, <1>6, <1>7, <1>8, <1>9, <1>10, <1>11, <1>12 DEF Next

(* The type invariant of TokenStorage holds in every reachable state.      *)
THEOREM TypeCorrect == Spec => []TypeOK
<1>1. TypeOK /\ UNCHANGED vars => TypeOK'
  BY DEF TypeOK, MakesKey, vars, keyVars, fileVars
<1>2. TypeOK /\ Next => TypeOK'
  BY TypeParts, FlagsStep, ValuesStep, HeldStep DEF Typed
<1>3. Init => TypeOK
  BY InitInvariant DEF IInv
<1> QED
  BY <1>1, <1>2, <1>3, PTL DEF Spec

-----------------------------------------------------------------------------
(* The encryption key. *)

(* An operation that makes a key is in its process's only piece of code    *)
(* that does; the others of its process wait for the loop.                 *)
LEMMA MakingStep == ASSUME TypeOK, Making, Next PROVE Making'
<1> USE DEF Making, MakesKey, Goto, Done
<1>1. ASSUME NEW o \in Operations, BeginStore(o) PROVE Making'
  BY <1>1 DEF BeginStore, keyVars, TypeOK
<1>2. ASSUME NEW o \in Operations, BeginRetrieve(o) \/ BeginDelete(o) PROVE Making'
  BY <1>2 DEF BeginRetrieve, BeginDelete, keyVars, TypeOK
<1>3. ASSUME NEW o \in Operations, DeriveKey(o) PROVE Making'
  <2>1. CASE keyFile \in Keys
    <3>1. \A x \in Operations : MakesKey(x)' => MakesKey(x)
      BY <1>3, <2>1 DEF DeriveKey, UseKey, TypeOK
    <3> QED
      BY <1>3, <2>1, <3>1 DEF DeriveKey
  <2>2. CASE keyFile \notin Keys
    <3>1. pc' = [pc EXCEPT ![o] = "make_key"] /\ keyFile' = keyFile
      BY <1>3, <2>2 DEF DeriveKey
    <3>2. \A x \in Operations \ {o} : MakesKey(x)' <=> MakesKey(x)
      BY <3>1 DEF TypeOK
    <3>3. \A x \in Operations : Runs[x] = Runs[o] => ~MakesKey(x)
      BY <1>3 DEF DeriveKey, LoopFree
    <3>4. ~raced' => ~raced /\ \A x \in Operations : ~MakesKey(x)
      BY <1>3, <2>2, Zenon DEF DeriveKey
    <3> QED
      BY <2>2, <3>1, <3>2, <3>3, <3>4
  <2> QED
    BY <2>1, <2>2
<1>4. ASSUME NEW o \in Operations, OpenKeyFile(o) PROVE Making'
  BY <1>4, ValueFacts DEF OpenKeyFile, NoContents, TypeOK
<1>5. ASSUME NEW o \in Operations, WriteKeyFile(o) PROVE Making'
  BY <1>5 DEF WriteKeyFile, UseKey, TypeOK
<1>6. ASSUME NEW o \in Operations, OpenFile(o) PROVE Making'
  BY <1>6 DEF OpenFile, keyVars, TypeOK
<1>7. ASSUME NEW o \in Operations, WriteFile(o) PROVE Making'
  BY <1>7 DEF WriteFile, keyVars, TypeOK
<1>8. ASSUME NEW o \in Operations, Chmod(o) \/ Abandon(o) PROVE Making'
  BY <1>8 DEF Chmod, Abandon, keyVars, TypeOK
<1>9. ASSUME NEW o \in Operations, ReadFile(o) PROVE Making'
  BY <1>9 DEF ReadFile, keyVars, TypeOK
<1>10. ASSUME NEW o \in Operations, Unlink(o) PROVE Making'
  BY <1>10 DEF Unlink, keyVars, TypeOK
<1>11. ASSUME NEW o \in Operations, DiskFails(o) PROVE Making'
  BY <1>11 DEF DiskFails, TypeOK
<1>12. ASSUME NEW p \in Processes, Crash(p) PROVE Making'
  BY <1>12 DEF Crash, TypeOK
<1> QED
  BY <1>1, <1>2, <1>3, <1>4, <1>5, <1>6, <1>7, <1>8, <1>9, <1>10, <1>11, <1>12 DEF Next

LEMMA PlainFilesStep == ASSUME TypeOK, PlainFiles, Next PROVE PlainFiles'
<1> USE DEF PlainFiles, MakesKey, Goto, Done, TypeOK
<1>1. ASSUME NEW o \in Operations, BeginStore(o) PROVE PlainFiles'
  BY <1>1 DEF BeginStore
<1>2. ASSUME NEW o \in Operations, BeginRetrieve(o) \/ BeginDelete(o) PROVE PlainFiles'
  BY <1>2 DEF BeginRetrieve, BeginDelete
<1>3. ASSUME NEW o \in Operations, DeriveKey(o) \/ OpenKeyFile(o) \/ WriteKeyFile(o)
      PROVE  PlainFiles'
  BY <1>3 DEF DeriveKey, OpenKeyFile, WriteKeyFile
<1>4. ASSUME NEW o \in Operations,
             OpenFile(o) \/ WriteFile(o) \/ Chmod(o) \/ Abandon(o) \/ Unlink(o)
             \/ DiskFails(o)
      PROVE  PlainFiles'
  BY <1>4 DEF OpenFile, WriteFile, Chmod, Abandon, Unlink, DiskFails
<1>5. ASSUME NEW o \in Operations, ReadFile(o) PROVE PlainFiles'
  BY <1>5 DEF ReadFile
<1>6. ASSUME NEW p \in Processes, Crash(p) PROVE PlainFiles'
  BY <1>6 DEF Crash
<1> QED
  BY <1>1, <1>2, <1>3, <1>4, <1>5, <1>6 DEF Next

(* Where nothing is sealed yet, a new key is as good as any.               *)
LEMMA NothingSealed ==
  ASSUME TypeOK, Making, PlainFiles, Sealed, ~raced,
         NEW o \in Operations, MakesKey(o)
  PROVE  /\ \A n \in Names : file[n] \notin Contents
         /\ \A x \in Operations : hand[x] \notin Contents
BY DEF Making, PlainFiles, Sealed, SealedRightly

LEMMA RacesAreRemembered == ASSUME Next, ~raced' PROVE ~raced
<1>1. ASSUME NEW o \in Operations, DeriveKey(o) PROVE ~raced
  BY <1>1, Zenon DEF DeriveKey
<1> QED
  BY <1>1, Zenon DEF Next, BeginStore, BeginRetrieve, BeginDelete, OpenKeyFile,
     WriteKeyFile, OpenFile, WriteFile, Chmod, ReadFile, Unlink, Abandon, DiskFails,
     Crash, keyVars

LEMMA SealedStep ==
  ASSUME TypeOK, Making, PlainFiles, Sealed, Next PROVE Sealed'
<1> SUFFICES ASSUME ~raced'
             PROVE  /\ \A n \in Names : SealedRightly(file[n])'
                    /\ \A x \in Operations : SealedRightly(hand[x])'
  BY DEF Sealed
<1>0. /\ ~raced
      /\ \A n \in Names : SealedRightly(file[n])
      /\ \A x \in Operations : SealedRightly(hand[x])
  BY RacesAreRemembered DEF Sealed
<1> USE <1>0, ValueFacts, NameOfType
    DEF Sealed, SealedRightly, KeyInUse, Goto, Done, TypeOK, NoContents
<1>1. ASSUME NEW o \in Operations, BeginStore(o) PROVE Sealed'
  BY <1>1 DEF BeginStore, keyVars, fileVars
<1>2. ASSUME NEW o \in Operations, BeginRetrieve(o) \/ BeginDelete(o) PROVE Sealed'
  BY <1>2 DEF BeginRetrieve, BeginDelete, keyVars, fileVars
<1>3. ASSUME NEW o \in Operations, DeriveKey(o) PROVE Sealed'
  BY <1>3 DEF DeriveKey, UseKey, PlainFiles, fileVars
<1>4. ASSUME NEW o \in Operations, OpenKeyFile(o) PROVE Sealed'
  BY <1>4, NothingSealed DEF OpenKeyFile, MakesKey, fileVars
<1>5. ASSUME NEW o \in Operations, WriteKeyFile(o) PROVE Sealed'
  BY <1>5, NothingSealed DEF WriteKeyFile, UseKey, PlainFiles, MakesKey, fileVars
<1>6. ASSUME NEW o \in Operations, OpenFile(o) PROVE Sealed'
  BY <1>6 DEF OpenFile, keyVars
<1>7. ASSUME NEW o \in Operations, WriteFile(o) PROVE Sealed'
  BY <1>7 DEF WriteFile, keyVars
<1>8. ASSUME NEW o \in Operations, Chmod(o) \/ Abandon(o) PROVE Sealed'
  BY <1>8 DEF Chmod, Abandon, keyVars, fileVars
<1>9. ASSUME NEW o \in Operations, ReadFile(o) PROVE Sealed'
  BY <1>9 DEF ReadFile, keyVars, fileVars
<1>10. ASSUME NEW o \in Operations, Unlink(o) PROVE Sealed'
  BY <1>10 DEF Unlink, keyVars
<1>11. ASSUME NEW o \in Operations, DiskFails(o) PROVE Sealed'
  BY <1>11 DEF DiskFails
<1>12. ASSUME NEW p \in Processes, Crash(p) PROVE Sealed'
  BY <1>12 DEF Crash
<1> QED
  BY <1>1, <1>2, <1>3, <1>4, <1>5, <1>6, <1>7, <1>8, <1>9, <1>10, <1>11, <1>12 DEF Next

-----------------------------------------------------------------------------
(* The token files. *)

(* A step that neither opens, writes nor unlinks a file leaves it intact.  *)
LEMMA UntouchedFile ==
  ASSUME NEW n \in Names, Intact(n),
         file'[n] = file[n], last'[n] = last[n],
         \A x \in Operations : Writes(x, n)' <=> Writes(x, n)
  PROVE  Intact(n)'
BY DEF Intact, Whole

LEMMA FilesIntactStep == ASSUME TypeOK, FilesIntact, Next PROVE FilesIntact'
<1> SUFFICES ASSUME NEW n \in Names, ~spoiled'[n] PROVE Intact(n)'
  BY DEF FilesIntact
<1> USE NameOfType DEF FilesIntact, Goto, Done, TypeOK
<1> DEFINE Same(o) == \A x \in Operations : Writes(x, n)' <=> Writes(x, n)
<1>1. ASSUME NEW o \in Operations, BeginStore(o) \/ BeginRetrieve(o) \/ BeginDelete(o)
      PROVE  Intact(n)'
  <2>1. Same(o)
    BY <1>1 DEF BeginStore, BeginRetrieve, BeginDelete, fileVars, Writes, NameOf
  <2> QED
    BY <1>1, <2>1, UntouchedFile DEF BeginStore, BeginRetrieve, BeginDelete, fileVars
<1>2. ASSUME NEW o \in Operations, DeriveKey(o) \/ OpenKeyFile(o) \/ WriteKeyFile(o)
      PROVE  Intact(n)'
  <2>1. Same(o)
    BY <1>2 DEF DeriveKey, OpenKeyFile, WriteKeyFile, UseKey, fileVars, Writes, NameOf
  <2> QED
    BY <1>2, <2>1, UntouchedFile DEF DeriveKey, OpenKeyFile, WriteKeyFile, fileVars
<1>3. ASSUME NEW o \in Operations, Chmod(o) \/ Abandon(o) \/ ReadFile(o)
      PROVE  Intact(n)'
  <2>1. Same(o)
    BY <1>3 DEF Chmod, Abandon, ReadFile, fileVars, Writes, NameOf
  <2> QED
    BY <1>3, <2>1, UntouchedFile DEF Chmod, Abandon, ReadFile, fileVars
<1>4. ASSUME NEW o \in Operations, OpenFile(o) PROVE Intact(n)'
  <2>1. CASE n = NameOf(o)
    <3>1. \A x \in Operations : ~Writes(x, n)
      BY <1>4, <2>1 DEF OpenFile
    <3>2. \A x \in Operations : Writes(x, n)' <=> x = o
      BY <1>4, <2>1, <3>1 DEF OpenFile, Writes, NameOf
    <3>3. file'[n] = Empty
      BY <1>4, <2>1 DEF OpenFile
    <3> QED
      BY <3>2, <3>3 DEF Intact
  <2>2. CASE n # NameOf(o)
    <3>1. Same(o)
      BY <1>4, <2>2 DEF OpenFile, Writes, NameOf
    <3> QED
      BY <1>4, <2>2, <3>1, UntouchedFile DEF OpenFile
  <2> QED
    BY <2>1, <2>2
<1>5. ASSUME NEW o \in Operations, WriteFile(o) PROVE Intact(n)'
  <2>1. CASE Writes(o, n)
    <3>1. Intact(n) /\ file[n] = Empty /\ \A x \in Operations : Writes(x, n) => x = o
      BY <1>5, <2>1 DEF WriteFile, Intact
    <3>2. \A x \in Operations : ~Writes(x, n)'
      BY <1>5, <3>1 DEF WriteFile, Writes, NameOf
    <3>3. file'[n] = hand[o] /\ last'[n] = hand[o].token
      BY <1>5, <2>1, <3>1 DEF WriteFile, Writes
    <3>4. hand[o] \in Contents /\ hand[o].token # Nothing
      BY <1>5, ContentsFacts, ValueFacts DEF WriteFile, NoContents
    <3> QED
      BY <3>2, <3>3, <3>4 DEF Intact, Whole
  <2>2. CASE ~Writes(o, n)
    <3>1. Same(o)
      BY <1>5, <2>2 DEF WriteFile, Writes, NameOf
    <3>2. file'[n] = file[n] /\ last'[n] = last[n] /\ spoiled' = spoiled
      BY <1>5, <2>2 DEF WriteFile, Writes
    <3> QED
      BY <3>1, <3>2, UntouchedFile
  <2> QED
    BY <2>1, <2>2
<1>6. ASSUME NEW o \in Operations, Unlink(o) PROVE Intact(n)'
  <2>1. CASE n = NameOf(o)
    <3>1. \A x \in Operations : ~Writes(x, n)'
      BY <1>6, <2>1 DEF Unlink, Writes, NameOf
    <3> QED
      BY <1>6, <2>1, <3>1 DEF Unlink, Intact, Whole
  <2>2. CASE n # NameOf(o)
    <3>1. Same(o)
      BY <1>6, <2>2 DEF Unlink, Writes, NameOf
    <3> QED
      BY <1>6, <2>2, <3>1, UntouchedFile DEF Unlink
  <2> QED
    BY <2>1, <2>2
<1>7. ASSUME NEW o \in Operations, DiskFails(o) PROVE Intact(n)'
  <2>1. ~spoiled[n] /\ ~Writes(o, n)
    BY <1>7 DEF DiskFails
  <2>2. Same(o)
    BY <1>7, <2>1 DEF DiskFails, Writes, NameOf
  <2> QED
    BY <1>7, <2>1, <2>2, UntouchedFile DEF DiskFails
<1>8. ASSUME NEW p \in Processes, Crash(p) PROVE Intact(n)'
  <2>1. ~spoiled[n] /\ \A x \in Operations : Runs[x] = p => ~Writes(x, n)
    BY <1>8 DEF Crash
  <2>2. \A x \in Operations : Writes(x, n)' <=> Writes(x, n)
    BY <1>8, <2>1 DEF Crash, Writes, NameOf
  <2> QED
    BY <1>8, <2>1, <2>2, UntouchedFile DEF Crash
<1> QED
  BY <1>1, <1>2, <1>3, <1>4, <1>5, <1>6, <1>7, <1>8 DEF Next

-----------------------------------------------------------------------------
LEMMA Invariance == Spec => []IInv
<1>1. IInv /\ Next => IInv'
  <2>1. TypeOK /\ Next => TypeOK'
    BY TypeParts, FlagsStep, ValuesStep, HeldStep DEF Typed
  <2> QED
    BY <2>1, MakingStep, PlainFilesStep, SealedStep, FilesIntactStep DEF IInv
<1>2. IInv /\ UNCHANGED vars => IInv'
  BY DEF IInv, TypeOK, Making, PlainFiles, Sealed, SealedRightly, KeyInUse,
     FilesIntact, Intact, Whole, Writes, MakesKey, vars, keyVars, fileVars
<1> QED
  BY <1>1, <1>2, InitInvariant, PTL DEF Spec

(* However many processes and operations share the directory, and whatever *)
(* crashes, no token set is sealed under a key that was lost, unless two   *)
(* processes drew the first key at the same time.                          *)
THEOREM KeyIsNeverLost == Spec => []SealedUnderTheKey
<1>1. IInv => SealedUnderTheKey
  BY DEF IInv, Sealed, SealedRightly, SealedUnderTheKey
<1> QED
  BY <1>1, Invariance, PTL

(* And a retrieve finds what the last store has stored.                    *)
THEOREM StoredIsFound == Spec => []LastStoreIsReadable
<1>1. IInv => LastStoreIsReadable
  <2> SUFFICES ASSUME IInv, NEW n \in Names, ~raced, ~spoiled[n],
                      \A o \in Operations : ~Writes(o, n)
               PROVE  file[n] = IF last[n] = Nothing THEN Nothing
                                ELSE [key |-> KeyInUse, token |-> last[n]]
    BY DEF LastStoreIsReadable
  <2>1. Whole(n)
    BY DEF IInv, FilesIntact, Intact
  <2>2. CASE last[n] = Nothing
    BY <2>1, <2>2 DEF Whole
  <2>3. CASE last[n] # Nothing
    <3>1. file[n] \in Contents /\ file[n].token = last[n]
      BY <2>1, <2>3 DEF Whole
    <3>2. file[n].key = KeyInUse
      BY <3>1 DEF IInv, Sealed, SealedRightly
    <3> QED
      BY <2>3, <3>1, <3>2, ContentsFacts
  <2> QED
    BY <2>2, <2>3
<1> QED
  BY <1>1, Invariance, PTL

(* One process has one event loop: it cannot race with itself, and so the  *)
(* two theorems above hold of it without the proviso.                      *)
THEOREM OneProcessNeverRaces ==
  ASSUME \A p, q \in Processes : p = q
  PROVE  Spec => []~raced
<1>1. Init => ~raced
  BY DEF Init
<1>2. IInv /\ ~raced /\ [Next]_vars => ~raced'
  <2> SUFFICES ASSUME IInv, ~raced, [Next]_vars, raced' PROVE FALSE
    OBVIOUS
  <2>1. PICK o \in Operations : DeriveKey(o)
    <3>1. ~UNCHANGED vars
      BY DEF vars, keyVars
    <3> QED
      BY <3>1, Zenon DEF Next, BeginStore, BeginRetrieve, BeginDelete, OpenKeyFile,
         WriteKeyFile, OpenFile, WriteFile, Chmod, ReadFile, Unlink, Abandon,
         DiskFails, Crash, keyVars
  <2>2. \E x \in Operations : MakesKey(x)
    BY <2>1, Zenon DEF DeriveKey
  <2>3. \A x \in Operations : ~MakesKey(x)
    BY <2>1, NameOfType DEF DeriveKey, LoopFree
  <2> QED
    BY <2>2, <2>3
<1> QED
  BY <1>1, <1>2, Invariance, PTL DEF Spec

-----------------------------------------------------------------------------
(* CommandLine.                                                            *)

(* Where a command of a shell is, as long as no other process has changed  *)
(* the entry: before it changes the entry itself, the entry is what it was *)
(* when the command began; afterwards it is what the command has made it.  *)
Untouched(s) == entry = before[s]

Progress(s) ==
  CASE at[s] = "begun" -> Untouched(s)
    [] at[s] = "got" -> command[s] = "login" /\ Untouched(s) /\ held[s] # NoEntry
    [] at[s] = "stored" ->
         \/ command[s] = "login" /\ entry = held[s] /\ entry # NoEntry
         \/ command[s] = "logout" /\ entry = NoEntry
    [] at[s] = "read" ->
         command[s] \in {"whoami", "doctor"} /\ Untouched(s) /\ held[s] = entry
    [] OTHER -> TRUE

(* What the exit code of a command says is so.                             *)
Told(s) ==
  /\ code[s] = 1 => entry \in {before[s], NoEntry}
  /\ code[s] = 0 =>
       CASE command[s] = "login" -> entry # NoEntry /\ entry = held[s]
         [] command[s] = "logout" -> entry = NoEntry
         [] command[s] = "whoami" -> entry # NoEntry /\ entry.readable
         [] command[s] = "doctor" -> entry = held[s] /\ ~aged[s]
         [] OTHER -> entry = before[s]

ShellInv(s) == alone[s] => Progress(s) /\ (at[s] = "idle" => Told(s))

CommandInv == CommandTypeOK /\ \A s \in Shells : ShellInv(s)

-----------------------------------------------------------------------------
LEMMA CommandInitTypeOK == CommandInit => CommandTypeOK
<1> SUFFICES ASSUME CommandInit PROVE CommandTypeOK
  OBVIOUS
<1>1. logins \in 0..MaxLogins
  BY LoginsAssumption DEF CommandInit
<1>2. code \in [Shells -> 0..2]
  BY DEF CommandInit
<1>3. /\ entry \in TokenSets \cup {NoEntry} /\ fresh \in BOOLEAN
      /\ command \in [Shells -> Commands]
      /\ at \in [Shells -> {"idle", "begun", "got", "stored", "read"}]
  BY Zenon DEF CommandInit, Commands
<1>4. /\ held \in [Shells -> TokenSets \cup {NoEntry}]
      /\ before \in [Shells -> TokenSets \cup {NoEntry}]
  BY Zenon DEF CommandInit
<1>5. /\ aged \in [Shells -> BOOLEAN] /\ checked \in [Shells -> BOOLEAN]
      /\ alone \in [Shells -> BOOLEAN]
  BY Zenon DEF CommandInit
<1>6. QED
  BY <1>1, <1>2, <1>3, <1>4, <1>5, Zenon DEF CommandTypeOK

(* A login's number is within the bound.                                   *)
LEMMA NewTokenSet ==
  ASSUME CommandTypeOK, logins < MaxLogins, NEW r \in BOOLEAN
  PROVE  /\ logins + 1 \in 0..MaxLogins
         /\ [n |-> logins + 1, readable |-> r] \in TokenSets
         /\ [n |-> logins + 1, readable |-> r] # NoEntry
BY LoginsAssumption, NoEntryAssumption DEF CommandTypeOK, TokenSets

LEMMA CommandNextTypeOK ==
  CommandTypeOK /\ [CommandNext]_commandVars => CommandTypeOK'
<1> SUFFICES ASSUME CommandTypeOK, [CommandNext]_commandVars PROVE CommandTypeOK'
  OBVIOUS
<1> USE DEF CommandTypeOK
<1>1. ASSUME NEW s \in Shells, Begin(s) PROVE CommandTypeOK'
  BY <1>1 DEF Begin
<1>2. ASSUME NEW s \in Shells, NEW with \in 0..2, Exit(s, with) PROVE CommandTypeOK'
  BY <1>2 DEF Exit
<1>3. ASSUME NEW s \in Shells, Serves(s) \/ Validates(s) PROVE CommandTypeOK'
  <2>1. PICK with \in {0, 1} : Exit(s, with)
    BY <1>3 DEF Serves, Validates
  <2>2. with \in 0..2
    OBVIOUS
  <2>3. QED
    BY <1>2, <2>1, <2>2, Zenon
<1>4. ASSUME NEW s \in Shells, LoginGets(s) PROVE CommandTypeOK'
  BY <1>4, NewTokenSet DEF LoginGets
<1>5. ASSUME NEW s \in Shells, NEW t \in TokenSets \cup {NoEntry}, Change(s, t)
      PROVE  CommandTypeOK'
  BY <1>5 DEF Change
<1>6. ASSUME NEW s \in Shells, LoginStores(s) \/ LogoutDeletes(s) PROVE CommandTypeOK'
  BY <1>5, <1>6 DEF LoginStores, LogoutDeletes
<1>7. ASSUME NEW s \in Shells, StoreBreaks(s) PROVE CommandTypeOK'
  <2>1. code' \in [Shells -> 0..2]
    BY <1>7 DEF StoreBreaks
  <2>2. fresh' \in BOOLEAN /\ alone' \in [Shells -> BOOLEAN]
    BY <1>7, Zenon DEF StoreBreaks
  <2>3. entry' \in TokenSets \cup {NoEntry}
    BY <1>7, Zenon DEF StoreBreaks
  <2>4. at' \in [Shells -> {"idle", "begun", "got", "stored", "read"}]
    BY <1>7 DEF StoreBreaks
  <2>5. UNCHANGED <<logins, command, held, aged, checked, before>>
    BY <1>7, Zenon DEF StoreBreaks
  <2>6. QED
    BY <2>1, <2>2, <2>3, <2>4, <2>5, Zenon
<1>8. ASSUME NEW s \in Shells, Fails(s) \/ Succeeds(s) \/ RetrieveFails(s) \/ Killed(s)
      PROVE  CommandTypeOK'
  BY <1>2, <1>8 DEF Fails, Succeeds, RetrieveFails, Killed
<1>9. ASSUME NEW s \in Shells, CheckFails(s) PROVE CommandTypeOK'
  BY <1>9 DEF CheckFails
<1>10. ASSUME NEW s \in Shells, Retrieves(s) PROVE CommandTypeOK'
  BY <1>10 DEF Retrieves
<1>11. ASSUME NEW s \in Shells, Tells(s) \/ Diagnoses(s) PROVE CommandTypeOK'
  BY <1>2, <1>11 DEF Tells, Diagnoses
<1>12. CASE Expire
  BY <1>12 DEF Expire, shellVars
<1>13. CASE UNCHANGED commandVars
  BY <1>13 DEF commandVars, shellVars
<1>14. QED
  BY <1>1, <1>3, <1>4, <1>6, <1>7, <1>8, <1>9, <1>10, <1>11, <1>12, <1>13
  DEF CommandNext

(* The commands' variables keep their types: exit codes are 0, 1 or 2.     *)
THEOREM CommandTypeCorrect == CommandSpec => []CommandTypeOK
BY CommandInitTypeOK, CommandNextTypeOK, PTL DEF CommandSpec

-----------------------------------------------------------------------------
LEMMA InitShells == CommandInit => \A s \in Shells : ShellInv(s)
BY DEF CommandInit, ShellInv

(* A step of another shell leaves the entry, or is noticed.                *)
LEMMA OthersKept ==
  ASSUME CommandTypeOK, NEW s \in Shells, ShellInv(s),
         entry' = entry \/ ~alone'[s], alone'[s] => alone[s],
         at'[s] = at[s], command'[s] = command[s], code'[s] = code[s],
         held'[s] = held[s], aged'[s] = aged[s], before'[s] = before[s]
  PROVE  ShellInv(s)'
BY DEF ShellInv, Progress, Untouched, Told

(* What a shell does itself, action by action.                             *)
LEMMA OwnStep ==
  ASSUME CommandTypeOK, NEW s \in Shells, ShellInv(s),
         \/ Begin(s) \/ Serves(s) \/ Validates(s)
         \/ LoginGets(s) \/ LoginStores(s) \/ StoreBreaks(s) \/ LogoutDeletes(s)
         \/ Fails(s) \/ Succeeds(s)
         \/ CheckFails(s) \/ Retrieves(s) \/ RetrieveFails(s) \/ Tells(s) \/ Diagnoses(s)
         \/ Killed(s)
  PROVE  ShellInv(s)'
<1> USE DEF CommandTypeOK, ShellInv, Progress, Untouched, Running
<1>1. CASE Begin(s)
  BY <1>1 DEF Begin
<1>2. ASSUME NEW with \in 0..2, Exit(s, with), alone[s] => Told(s)'
      PROVE  ShellInv(s)'
  BY <1>2 DEF Exit
<1>3. CASE Serves(s) \/ Validates(s)
  <2>1. PICK with \in {0, 1} : Exit(s, with)
    BY <1>3 DEF Serves, Validates
  <2>2. command[s] \in {"run", "config validate"} /\ at[s] = "begun"
    BY <1>3 DEF Serves, Validates
  <2>3. alone[s] => Told(s)'
    BY <2>1, <2>2 DEF Exit, Told
  <2>4. QED
    BY <1>2, <2>1, <2>3
<1>4. CASE LoginGets(s)
  BY <1>4, NewTokenSet DEF LoginGets
<1>5. CASE LoginStores(s)
  BY <1>5 DEF LoginStores, Change
<1>6. CASE StoreBreaks(s)
  BY <1>6 DEF StoreBreaks, Told
<1>7. CASE LogoutDeletes(s)
  BY <1>7 DEF LogoutDeletes, Change
<1>8. CASE Fails(s) \/ RetrieveFails(s)
  <2>1. Exit(s, 1) /\ (alone[s] => entry = before[s])
    BY <1>8 DEF Fails, RetrieveFails
  <2>2. alone[s] => Told(s)'
    BY <2>1 DEF Exit, Told
  <2>3. QED
    BY <1>2, <2>1, <2>2
<1>9. CASE Succeeds(s)
  <2>1. Exit(s, 0) /\ at[s] = "stored" /\ command[s] \in {"login", "logout"}
    BY <1>9 DEF Succeeds
  <2>2. alone[s] => Told(s)'
    BY <2>1 DEF Exit, Told
  <2>3. QED
    BY <1>2, <2>1, <2>2
<1>10. CASE CheckFails(s)
  BY <1>10 DEF CheckFails
<1>11. CASE Retrieves(s)
  BY <1>11 DEF Retrieves
<1>12. CASE Tells(s) \/ Diagnoses(s)
  <2>1. PICK with \in {0, 1} : Exit(s, with)
    BY <1>12 DEF Tells, Diagnoses
  <2>2. alone[s] => Told(s)'
    BY <1>12, <2>1 DEF Tells, Diagnoses, Exit, Told
  <2>3. QED
    BY <1>2, <2>1, <2>2
<1>13. CASE Killed(s)
  <2>1. Exit(s, 2)
    BY <1>13 DEF Killed
  <2>2. Told(s)'
    BY <2>1 DEF Exit, Told
  <2>3. QED
    BY <1>2, <2>1, <2>2
<1>14. QED
  BY <1>1, <1>3, <1>4, <1>5, <1>6, <1>7, <1>8, <1>9, <1>10, <1>11, <1>12, <1>13

LEMMA CommandInvariant == CommandSpec => []CommandInv
<1>1. CommandInit => CommandInv
  BY CommandInitTypeOK, InitShells DEF CommandInv
<1>2. CommandInv /\ [CommandNext]_commandVars => CommandInv'
  <2> SUFFICES ASSUME CommandInv, [CommandNext]_commandVars PROVE CommandInv'
    OBVIOUS
  <2>1. CommandTypeOK /\ CommandTypeOK'
    BY CommandNextTypeOK DEF CommandInv
  <2>2. ASSUME NEW s \in Shells PROVE ShellInv(s)'
    <3>1. ShellInv(s)
      BY DEF CommandInv
    <3>2. ASSUME NEW o \in Shells, o # s,
                 \/ Begin(o) \/ Serves(o) \/ Validates(o)
                 \/ LoginGets(o) \/ LoginStores(o) \/ StoreBreaks(o) \/ LogoutDeletes(o)
                 \/ Fails(o) \/ Succeeds(o) \/ CheckFails(o) \/ Retrieves(o)
                 \/ RetrieveFails(o) \/ Tells(o) \/ Diagnoses(o) \/ Killed(o)
          PROVE  ShellInv(s)'
      <4>1. (entry' = entry \/ ~alone'[s]) /\ (alone'[s] => alone[s])
        BY <2>1, <3>2, ZenonT(60)
        DEF CommandTypeOK, Begin, Serves, Validates, LoginGets, LoginStores, StoreBreaks,
            LogoutDeletes, Fails, Succeeds, CheckFails, Retrieves, RetrieveFails, Tells,
            Diagnoses, Killed, Exit, Change
      <4>2. /\ at'[s] = at[s] /\ command'[s] = command[s] /\ code'[s] = code[s]
            /\ held'[s] = held[s] /\ aged'[s] = aged[s] /\ before'[s] = before[s]
        BY <2>1, <3>2, ZenonT(60)
        DEF CommandTypeOK, Begin, Serves, Validates, LoginGets, LoginStores, StoreBreaks,
            LogoutDeletes, Fails, Succeeds, CheckFails, Retrieves, RetrieveFails, Tells,
            Diagnoses, Killed, Exit, Change
      <4>3. QED
        BY <2>1, <3>1, <4>1, <4>2, OthersKept
    <3>3. CASE Expire \/ UNCHANGED commandVars
      <4>1. UNCHANGED <<entry, alone, at, command, code, held, aged, before>>
        BY <3>3 DEF Expire, commandVars, shellVars
      <4>2. QED
        BY <3>1, <4>1 DEF ShellInv, Progress, Untouched, Told
    <3>4. QED
      BY <2>1, <3>1, <3>2, <3>3, OwnStep DEF CommandNext
  <2>3. QED
    BY <2>1, <2>2 DEF CommandInv
<1>3. QED
  BY <1>1, <1>2, PTL DEF CommandSpec

(* The exit code of a command that no other interferes with is true, for   *)
(* any number of shells and logins.                                        *)
THEOREM ExitCodesTrue == CommandSpec => []ExitsTrue
<1>1. CommandInv => ExitsTrue
  BY DEF CommandInv, ShellInv, Told, ExitsTrue
<1>2. QED
  BY <1>1, CommandInvariant, PTL


-----------------------------------------------------------------------------
(* Sessions.                                                               *)

(* A call that is not on its way has nothing left of the one before.       *)
NothingLeft ==
  \A c \in Calls : place[c] = "idle" =>
    /\ sessionId[c] = Nil /\ metadata[c] = Nil
    /\ ~had[c] /\ ~identity[c] /\ ~renewed[c]

(* A call that has got no new token set has that of its session, for as    *)
(* long as no other call has given the session a new one in the meantime.  *)
HasTheLatest ==
  \A c \in Calls :
    LET s == sessionId[c]
    IN  had[c] /\ ~renewed[c] /\ sessions[s] # Nil /\ ~crossed[s]
          => metadata[c] = sessions[s].token

-----------------------------------------------------------------------------
(* Types, in three parts: the store, what identifies a call, and the rest. *)

StoreTypes ==
  /\ sessions \in [Ids -> Records \cup {Nil}]
  /\ given \subseteq Ids
  /\ \A s \in Ids : sessions[s] # Nil => s \in given

CallTypes ==
  /\ count \in 0..MaxIssued
  /\ place \in [Calls -> {"idle", "below"}]
  /\ sessionId \in [Calls -> Ids \cup {Nil}]
  /\ metadata \in [Calls -> IssuedSets \cup {Nil}]
  /\ latest \in [Ids -> IssuedSets \cup {Nil}]

FlagTypes ==
  /\ had \in [Calls -> BOOLEAN]
  /\ identity \in [Calls -> BOOLEAN]
  /\ renewed \in [Calls -> BOOLEAN]
  /\ crossed \in [Ids -> BOOLEAN]

HadTypes ==
  \A c \in Calls :
    had[c] => sessionId[c] \in given /\ identity[c] /\ metadata[c] # Nil

LEMMA SessionTypeParts == SessionTypeOK <=> StoreTypes /\ CallTypes /\ FlagTypes /\ HadTypes
BY Zenon DEF SessionTypeOK, StoreTypes, CallTypes, FlagTypes, HadTypes

LEMMA NilApart == Nil \notin Ids /\ Nil \notin IssuedSets /\ Nil \notin Records
BY NilAssumption, NoTokenAssumption

LEMMA RecordHas ==
  ASSUME NEW r \in Records
  PROVE  r.token \in IssuedSets /\ r.age \in 0..(Ttl + 1)
BY DEF Records

LEMMA NewRecord ==
  ASSUME NEW t \in IssuedSets
  PROVE  [token |-> t, age |-> 0] \in Records
BY LeaseAssumption DEF Records

(* A call that is at its beginning, or at its end, changes nothing that    *)
(* belongs to another one.                                                 *)
LEMMA GoneBack ==
  ASSUME SessionTypeOK, NEW c \in Calls, GoBack(c)
  PROVE  /\ place[c] = "below"
         /\ place' \in [Calls -> {"idle", "below"}]
         /\ sessionId' \in [Calls -> Ids \cup {Nil}]
         /\ metadata' \in [Calls -> IssuedSets \cup {Nil}]
         /\ had' \in [Calls -> BOOLEAN]
         /\ identity' \in [Calls -> BOOLEAN]
         /\ renewed' \in [Calls -> BOOLEAN]
         /\ place'[c] = "idle" /\ sessionId'[c] = Nil /\ metadata'[c] = Nil
         /\ ~had'[c] /\ ~identity'[c] /\ ~renewed'[c]
         /\ \A d \in Calls \ {c} :
              /\ place'[d] = place[d] /\ sessionId'[d] = sessionId[d]
              /\ metadata'[d] = metadata[d] /\ had'[d] = had[d]
              /\ identity'[d] = identity[d] /\ renewed'[d] = renewed[d]
<1>1. /\ place \in [Calls -> {"idle", "below"}]
      /\ sessionId \in [Calls -> Ids \cup {Nil}]
      /\ metadata \in [Calls -> IssuedSets \cup {Nil}]
      /\ had \in [Calls -> BOOLEAN]
      /\ identity \in [Calls -> BOOLEAN]
      /\ renewed \in [Calls -> BOOLEAN]
  BY DEF SessionTypeOK
<1>2. /\ place' \in [Calls -> {"idle", "below"}] /\ place'[c] = "idle"
      /\ \A d \in Calls \ {c} : place'[d] = place[d]
  BY <1>1 DEF GoBack
<1>3. /\ sessionId' \in [Calls -> Ids \cup {Nil}] /\ sessionId'[c] = Nil
      /\ \A d \in Calls \ {c} : sessionId'[d] = sessionId[d]
  BY <1>1 DEF GoBack
<1>4. /\ metadata' \in [Calls -> IssuedSets \cup {Nil}] /\ metadata'[c] = Nil
      /\ \A d \in Calls \ {c} : metadata'[d] = metadata[d]
  BY <1>1 DEF GoBack
<1>5. /\ had' \in [Calls -> BOOLEAN] /\ ~had'[c]
      /\ \A d \in Calls \ {c} : had'[d] = had[d]
  BY <1>1, Zenon DEF GoBack
<1>6. /\ identity' \in [Calls -> BOOLEAN] /\ ~identity'[c]
      /\ \A d \in Calls \ {c} : identity'[d] = identity[d]
  BY <1>1, Zenon DEF GoBack
<1>7. /\ renewed' \in [Calls -> BOOLEAN] /\ ~renewed'[c]
      /\ \A d \in Calls \ {c} : renewed'[d] = renewed[d]
  BY <1>1, Zenon DEF GoBack
<1>8. QED
  BY <1>2, <1>3, <1>4, <1>5, <1>6, <1>7, Zenon DEF GoBack

LEMMA Entered ==
  ASSUME SessionTypeOK, NothingLeft,
         NEW c \in Calls, NEW s \in Ids \cup {Nil}, Enter(c, s)
  PROVE  /\ ~had[c] /\ ~identity[c] /\ ~renewed[c] /\ metadata[c] = Nil
         /\ place' \in [Calls -> {"idle", "below"}]
         /\ sessionId' \in [Calls -> Ids \cup {Nil}]
         /\ place'[c] = "below" /\ sessionId'[c] = s
         /\ \A d \in Calls \ {c} :
              place'[d] = place[d] /\ sessionId'[d] = sessionId[d]
<1>1. /\ place \in [Calls -> {"idle", "below"}]
      /\ sessionId \in [Calls -> Ids \cup {Nil}]
  BY DEF SessionTypeOK
<1>2. /\ place' \in [Calls -> {"idle", "below"}] /\ place'[c] = "below"
      /\ \A d \in Calls \ {c} : place'[d] = place[d]
  BY <1>1 DEF Enter
<1>3. /\ sessionId' \in [Calls -> Ids \cup {Nil}] /\ sessionId'[c] = s
      /\ \A d \in Calls \ {c} : sessionId'[d] = sessionId[d]
  BY <1>1 DEF Enter
<1>4. QED
  BY <1>2, <1>3, Zenon DEF Enter, NothingLeft

-----------------------------------------------------------------------------
(* The store.  Each step does to each session one of five things, those    *)
(* that a lease allows.                                                    *)

Same(s) == sessions'[s] = sessions[s] /\ (s \in given <=> s \in given')

Issued(s, t) ==
  /\ s \notin given /\ s \in given'
  /\ t \in IssuedSets /\ sessions'[s] = [token |-> t, age |-> 0]

Replaced(s, t) ==
  /\ s \in given /\ s \in given'
  /\ sessions[s] \in Records /\ sessions[s].age <= Ttl
  /\ t \in IssuedSets /\ sessions'[s] = [sessions[s] EXCEPT !.token = t]

Aged(s) ==
  /\ s \in given /\ s \in given'
  /\ sessions[s] \in Records /\ sessions[s].age <= Ttl
  /\ sessions'[s] = [sessions[s] EXCEPT !.age = @ + 1]

Ended(s) ==
  s \in given /\ s \in given' /\ sessions[s] \in Records /\ sessions'[s] = Nil

Leased(s) ==
  \/ Same(s) \/ Aged(s) \/ Ended(s)
  \/ \E t \in IssuedSets : Issued(s, t) \/ Replaced(s, t)

LEMMA GetIs ==
  ASSUME StoreTypes, NEW s \in Ids \cup {Nil}
  PROVE  /\ Get(s) # Nil => /\ s \in Ids /\ s \in given
                            /\ Get(s) = sessions[s] /\ sessions[s] \in Records
                            /\ sessions[s].age <= Ttl
         /\ Get(s) = Nil => s \notin Ids \/ sessions[s] = Nil \/ Expired(s)
<1>1. CASE s = Nil
  BY <1>1, NilApart DEF Get
<1>2. CASE s \in Ids
  <2>1. sessions[s] \in Records \cup {Nil} /\ (sessions[s] # Nil => s \in given)
    BY <1>2 DEF StoreTypes
  <2>2. CASE sessions[s] = Nil
    BY <1>2, <2>2 DEF Get
  <2>3. CASE sessions[s] # Nil
    <3>1. sessions[s].age \in 0..(Ttl + 1)
      BY <2>1, <2>3, RecordHas
    <3>2. ~Expired(s) => sessions[s].age <= Ttl
      BY <3>1, LeaseAssumption DEF Expired
    <3>3. QED
      BY <1>2, <2>1, <2>3, <3>2, NilApart DEF Get
  <2>4. QED
    BY <2>2, <2>3
<1>3. QED
  BY <1>1, <1>2

(* A session that is removed, and the others as they were.                 *)
LEMMA RemovedOne ==
  ASSUME StoreTypes, NEW s \in Ids, sessions[s] # Nil,
         sessions' = [sessions EXCEPT ![s] = Nil], given' = given
  PROVE  sessions' \in [Ids -> Records \cup {Nil}] /\ \A i \in Ids : Same(i) \/ Ended(i)
<1>1. /\ sessions \in [Ids -> Records \cup {Nil}]
      /\ sessions[s] \in Records /\ s \in given
  BY DEF StoreTypes
<1>2. sessions' \in [Ids -> Records \cup {Nil}] /\ sessions'[s] = Nil
  BY <1>1
<1>3. \A i \in Ids \ {s} : sessions'[i] = sessions[i]
  BY <1>1
<1>4. QED
  BY <1>1, <1>2, <1>3, Zenon DEF Same, Ended

LEMMA SweptOne ==
  ASSUME StoreTypes, NEW s \in Ids \cup {Nil}, sessions' = Swept(s), given' = given
  PROVE  sessions' \in [Ids -> Records \cup {Nil}] /\ \A i \in Ids : Same(i) \/ Ended(i)
<1>1. CASE s # Nil /\ sessions[s] # Nil /\ Expired(s)
  <2>1. s \in Ids
    BY <1>1
  <2>2. QED
    BY <1>1, <2>1, RemovedOne, Zenon DEF Swept
<1>2. CASE ~(s # Nil /\ sessions[s] # Nil /\ Expired(s))
  BY <1>2, Zenon DEF Swept, Same, StoreTypes
<1>3. QED
  BY <1>1, <1>2, Zenon

Quiet(s) == Same(s) \/ Aged(s) \/ Ended(s)

(* Only a call that ends brings a token set into the store.                *)
LEMMA QuietStep ==
  ASSUME SessionTypeOK, [SessionNext]_sessionVars,
         ~ \E c \in Calls : Create(c) \/ Update(c)
  PROVE  /\ sessions' \in [Ids -> Records \cup {Nil}] /\ given' = given
         /\ latest' = latest /\ crossed' = crossed
         /\ \A s \in Ids : Quiet(s)
<1> DEFINE Kept == /\ sessions' \in [Ids -> Records \cup {Nil}] /\ given' = given
                   /\ \A s \in Ids : Quiet(s)
<1>0. /\ StoreTypes
      /\ sessions \in [Ids -> Records \cup {Nil}] /\ given \subseteq Ids
      /\ sessionId \in [Calls -> Ids \cup {Nil}]
  BY SessionTypeParts DEF StoreTypes, CallTypes
<1>1. ASSUME UNCHANGED store PROVE Kept
  BY <1>0, <1>1 DEF store, Quiet, Same
<1>2. ASSUME NEW c \in Calls, NEW s \in Ids \cup {Nil}, Discard(c, s) PROVE Kept
  <2>1. Get(s) # Nil /\ sessions' = [sessions EXCEPT ![s] = Nil] /\ given' = given
    BY <1>2 DEF Discard, Invalidated
  <2>2. s \in Ids /\ sessions[s] # Nil
    BY <1>0, <2>1, GetIs
  <2>3. QED
    BY <1>0, <2>1, <2>2, RemovedOne, Zenon DEF Quiet
<1>3. ASSUME NEW c \in Calls, NEW s \in Ids \cup {Nil}, BeginUnknown(c, s) PROVE Kept
  <2>1. sessions' = Swept(s) /\ given' = given
    BY <1>3 DEF BeginUnknown
  <2>2. QED
    BY <1>0, <2>1, SweptOne, Zenon DEF Quiet
<1>4. ASSUME NEW c \in Calls, TooLate(c) PROVE Kept
  <2>1. sessions' = Swept(sessionId[c]) /\ given' = given
        /\ sessionId[c] \in Ids \cup {Nil}
    BY <1>0, <1>4 DEF TooLate
  <2>2. QED
    BY <1>0, <2>1, SweptOne, Zenon DEF Quiet
<1>5. ASSUME Age PROVE Kept
  <2>1. ASSUME NEW s \in Ids, ~(sessions[s] = Nil \/ Expired(s))
        PROVE  /\ sessions[s] \in Records /\ s \in given /\ sessions[s].age <= Ttl
               /\ [sessions[s] EXCEPT !.age = @ + 1] \in Records
    <3>1. sessions[s] \in Records /\ s \in given
      BY <1>0, <2>1 DEF StoreTypes
    <3>2. sessions[s].age <= Ttl /\ sessions[s].age \in 0..(Ttl + 1)
      BY <2>1, <3>1, RecordHas, LeaseAssumption DEF Expired
    <3>3. QED
      BY <3>1, <3>2, LeaseAssumption DEF Records
  <2>2. /\ sessions' = [s \in Ids |->
                          IF sessions[s] = Nil \/ Expired(s) THEN sessions[s]
                          ELSE [sessions[s] EXCEPT !.age = @ + 1]]
        /\ given' = given
    BY <1>5, Zenon DEF Age
  <2>3. sessions' \in [Ids -> Records \cup {Nil}]
    BY <1>0, <2>1, <2>2, Zenon
  <2>4. ASSUME NEW s \in Ids PROVE Same(s) \/ Aged(s)
    <3>1. CASE sessions[s] = Nil \/ Expired(s)
      BY <2>2, <3>1, Zenon DEF Same
    <3>2. CASE ~(sessions[s] = Nil \/ Expired(s))
      BY <2>1, <2>2, <3>2, Zenon DEF Aged
    <3>3. QED
      BY <3>1, <3>2, Zenon
  <2>5. QED
    BY <1>0, <2>2, <2>3, <2>4, Zenon DEF Quiet
<1>6. latest' = latest /\ crossed' = crossed
  BY Zenon DEF SessionNext, sessionVars, history, Restore, Discard, BeginUnknown,
     Identify, Renew, Raise, Unchanged, TooLate, Age
<1>7. ASSUME NEW c \in Calls, NEW s \in Ids \cup {Nil},
             Restore(c, s) \/ Identify(c) \/ Renew(c) \/ Raise(c) \/ Unchanged(c)
      PROVE  Kept
  BY <1>1, <1>7, Zenon DEF Restore, Identify, Renew, Raise, Unchanged
<1>8. UNCHANGED sessionVars => Kept
  BY <1>1, Zenon DEF sessionVars
<1>9. QED
  BY <1>2, <1>3, <1>4, <1>5, <1>6, <1>7, <1>8, Zenon DEF SessionNext

LEMMA CreateStep ==
  ASSUME SessionTypeOK, NEW c \in Calls, Create(c)
  PROVE  /\ sessions' \in [Ids -> Records \cup {Nil}] /\ given' \subseteq Ids
         /\ crossed' = crossed
         /\ \E s \in Ids : /\ Issued(s, metadata[c])
                           /\ latest' = [latest EXCEPT ![s] = metadata[c]]
                           /\ \A i \in Ids \ {s} : Same(i)
<1>0. /\ sessions \in [Ids -> Records \cup {Nil}] /\ given \subseteq Ids
      /\ metadata \in [Calls -> IssuedSets \cup {Nil}]
  BY SessionTypeParts DEF StoreTypes, CallTypes
<1>1. metadata[c] \in IssuedSets
  BY <1>0 DEF Create
<1>2. PICK s \in Ids \ given :
        /\ sessions' = [sessions EXCEPT ![s] = [token |-> metadata[c], age |-> 0]]
        /\ given' = given \cup {s}
        /\ latest' = [latest EXCEPT ![s] = metadata[c]]
  BY Zenon DEF Create, Created
<1>3. [token |-> metadata[c], age |-> 0] \in Records
  BY <1>1, NewRecord
<1>4. /\ sessions' \in [Ids -> Records \cup {Nil}]
      /\ sessions'[s] = [token |-> metadata[c], age |-> 0]
      /\ \A i \in Ids \ {s} : sessions'[i] = sessions[i]
  BY <1>0, <1>2, <1>3
<1>5. Issued(s, metadata[c])
  BY <1>1, <1>2, <1>4, Zenon DEF Issued
<1>6. \A i \in Ids \ {s} : Same(i)
  BY <1>2, <1>4, Zenon DEF Same
<1>7. given' \subseteq Ids /\ crossed' = crossed
  BY <1>0, <1>2, Zenon DEF Create
<1>8. QED
  BY <1>2, <1>4, <1>5, <1>6, <1>7, Zenon

LEMMA UpdateStep ==
  ASSUME SessionTypeOK, NEW c \in Calls, Update(c)
  PROVE  LET s == sessionId[c]
         IN  /\ sessions' \in [Ids -> Records \cup {Nil}] /\ given' = given
             /\ s \in Ids /\ sessions[s] \in Records
             /\ metadata[c] \in IssuedSets
             /\ Same(s) \/ Replaced(s, metadata[c])
             /\ sessions'[s].token = metadata[c]
             /\ \A i \in Ids \ {s} : Same(i)
<1> DEFINE s == sessionId[c]
<1>0. /\ StoreTypes /\ sessions \in [Ids -> Records \cup {Nil}]
      /\ sessionId \in [Calls -> Ids \cup {Nil}]
      /\ metadata \in [Calls -> IssuedSets \cup {Nil}]
  BY SessionTypeParts DEF StoreTypes, CallTypes
<1>1. /\ had[c] /\ Get(s) # Nil /\ given' = given
      /\ sessions' = IF Differs(c) THEN [sessions EXCEPT ![s].token = metadata[c]]
                     ELSE sessions
  BY Zenon DEF Update, Updated
<1>2. /\ s \in Ids /\ s \in given /\ Get(s) = sessions[s]
      /\ sessions[s] \in Records /\ sessions[s].age <= Ttl
  BY <1>0, <1>1, GetIs
<1>3. metadata[c] \in IssuedSets
  BY <1>0, <1>1, SessionTypeParts DEF HadTypes
<1>4. CASE Differs(c)
  <2>1. /\ [sessions[s] EXCEPT !.token = metadata[c]] \in Records
        /\ [sessions[s] EXCEPT !.token = metadata[c]].token = metadata[c]
    BY <1>2, <1>3 DEF Records
  <2>2. sessions' = [sessions EXCEPT ![s] = [sessions[s] EXCEPT !.token = metadata[c]]]
    BY <1>1, <1>4, Zenon
  <2>3. /\ sessions' \in [Ids -> Records \cup {Nil}]
        /\ sessions'[s] = [sessions[s] EXCEPT !.token = metadata[c]]
        /\ \A i \in Ids \ {s} : sessions'[i] = sessions[i]
    BY <1>0, <1>2, <2>1, <2>2, Zenon
  <2>4. Replaced(s, metadata[c])
    BY <1>1, <1>2, <1>3, <2>3, Zenon DEF Replaced
  <2>5. \A i \in Ids \ {s} : Same(i)
    BY <1>1, <2>3, Zenon DEF Same
  <2>6. sessions'[s].token = metadata[c]
    BY <2>1, <2>3
  <2>7. QED
    BY <1>1, <1>2, <1>3, <2>3, <2>4, <2>5, <2>6, Zenon
<1>5. CASE ~Differs(c)
  <2>1. sessions' = sessions /\ sessions'[s].token = metadata[c]
    BY <1>1, <1>2, <1>5, Zenon DEF Differs
  <2>2. \A i \in Ids : Same(i)
    BY <1>1, <2>1, Zenon DEF Same
  <2>3. QED
    BY <1>0, <1>1, <1>2, <1>3, <2>1, <2>2, Zenon
<1>6. QED
  BY <1>4, <1>5

LEMMA StoreStep ==
  ASSUME SessionTypeOK, [SessionNext]_sessionVars
  PROVE  /\ sessions' \in [Ids -> Records \cup {Nil}] /\ given' \subseteq Ids
         /\ \A s \in Ids : Leased(s)
<1>0. given \subseteq Ids
  BY DEF SessionTypeOK
<1>1. CASE ~ \E c \in Calls : Create(c) \/ Update(c)
  BY <1>0, <1>1, QuietStep, ZenonT(60) DEF Leased, Quiet
<1>2. ASSUME NEW c \in Calls, Create(c)
      PROVE  /\ sessions' \in [Ids -> Records \cup {Nil}] /\ given' \subseteq Ids
             /\ \A s \in Ids : Leased(s)
  BY <1>2, CreateStep, ZenonT(60) DEF Leased, Issued
<1>3. ASSUME NEW c \in Calls, Update(c)
      PROVE  /\ sessions' \in [Ids -> Records \cup {Nil}] /\ given' \subseteq Ids
             /\ \A s \in Ids : Leased(s)
  BY <1>0, <1>3, UpdateStep, ZenonT(60) DEF Leased
<1>4. QED
  BY <1>1, <1>2, <1>3, Zenon

(* What is given stays given, and what has ended stays so.                 *)
LEMMA LeaseKeeps ==
  ASSUME StoreTypes, NEW s \in Ids, Leased(s)
  PROVE  /\ s \in given => s \in given'
         /\ sessions'[s] # Nil => s \in given'
         /\ s \in given /\ sessions'[s] # Nil => sessions[s] # Nil
<1>1. sessions[s] # Nil => s \in given
  BY DEF StoreTypes
<1>2. CASE Same(s)
  BY <1>1, <1>2, Zenon DEF Same
<1>3. CASE Aged(s)
  BY <1>3, NilApart DEF Aged
<1>4. CASE Ended(s)
  BY <1>4 DEF Ended
<1>5. ASSUME NEW t \in IssuedSets, Issued(s, t)
      PROVE  s \notin given /\ s \in given'
  BY <1>5 DEF Issued
<1>6. ASSUME NEW t \in IssuedSets, Replaced(s, t)
      PROVE  s \in given' /\ sessions[s] # Nil
  BY <1>6, NilApart DEF Replaced
<1>7. QED
  BY <1>2, <1>3, <1>4, <1>5, <1>6, Zenon DEF Leased

-----------------------------------------------------------------------------
(* The calls.                                                              *)

CallAsBefore(c) ==
  /\ place'[c] = place[c] /\ sessionId'[c] = sessionId[c] /\ metadata'[c] = metadata[c]
  /\ had'[c] = had[c] /\ identity'[c] = identity[c] /\ renewed'[c] = renewed[c]

CallFacts(c) ==
  /\ had[c] => sessionId[c] \in given /\ identity[c] /\ metadata[c] # Nil
  /\ place[c] = "idle" => /\ sessionId[c] = Nil /\ metadata[c] = Nil
                          /\ ~had[c] /\ ~identity[c] /\ ~renewed[c]

LEMMA FactsParts == HadTypes /\ NothingLeft <=> \A c \in Calls : CallFacts(c)
BY Zenon DEF HadTypes, NothingLeft, CallFacts

LEMMA FactsStay ==
  ASSUME NEW c \in Calls, CallFacts(c), CallAsBefore(c), given \subseteq given'
  PROVE  CallFacts(c)'
BY Zenon DEF CallFacts, CallAsBefore

CallsTyped ==
  CallTypes' /\ FlagTypes' /\ \A c \in Calls : CallFacts(c)'

(* A call that begins.                                                     *)
LEMMA BeginKeeps ==
  ASSUME SessionTypeOK, NothingLeft, given \subseteq given',
         NEW c \in Calls, NEW s \in Ids \cup {Nil},
         Restore(c, s) \/ Discard(c, s) \/ BeginUnknown(c, s)
  PROVE  CallsTyped /\ \A d \in Calls \ {c} : CallAsBefore(d)
<1>0. CallTypes /\ FlagTypes /\ StoreTypes /\ \A d \in Calls : CallFacts(d)
  BY SessionTypeParts, FactsParts
<1>1. Enter(c, s) /\ count' = count /\ renewed' = renewed /\ latest' = latest /\ crossed' = crossed
  BY Zenon DEF Restore, Discard, BeginUnknown, history
<1>2. /\ ~had[c] /\ ~identity[c] /\ ~renewed[c] /\ metadata[c] = Nil
      /\ place' \in [Calls -> {"idle", "below"}]
      /\ sessionId' \in [Calls -> Ids \cup {Nil}]
      /\ place'[c] = "below" /\ sessionId'[c] = s
      /\ \A d \in Calls \ {c} :
           place'[d] = place[d] /\ sessionId'[d] = sessionId[d]
  BY <1>1, Entered
<1>3. CASE Discard(c, s) \/ BeginUnknown(c, s)
  <2>1. had' = had /\ identity' = identity /\ metadata' = metadata
    BY <1>3, Zenon DEF Discard, BeginUnknown
  <2>2. CallTypes' /\ FlagTypes'
    BY <1>0, <1>1, <1>2, <2>1, Zenon DEF CallTypes, FlagTypes
  <2>3. \A d \in Calls \ {c} : CallAsBefore(d)
    BY <1>1, <1>2, <2>1, Zenon DEF CallAsBefore
  <2>4. CallFacts(c)'
    BY <1>2, <2>1 DEF CallFacts
  <2>5. QED
    BY <1>0, <2>2, <2>3, <2>4, FactsStay, Zenon DEF CallsTyped
<1>4. CASE Restore(c, s)
  <2>1. Get(s) # Nil
    BY <1>4 DEF Restore
  <2>2. s \in given /\ Get(s) \in Records
    BY <1>0, <2>1, GetIs
  <2>3. Get(s).token \in IssuedSets
    BY <2>2, RecordHas
  <2>4. /\ had' \in [Calls -> BOOLEAN] /\ had'[c]
        /\ \A d \in Calls \ {c} : had'[d] = had[d]
    BY <1>0, <1>4, Zenon DEF Restore, FlagTypes
  <2>5. /\ identity' \in [Calls -> BOOLEAN] /\ identity'[c]
        /\ \A d \in Calls \ {c} : identity'[d] = identity[d]
    BY <1>0, <1>4, Zenon DEF Restore, FlagTypes
  <2>6. /\ metadata' \in [Calls -> IssuedSets \cup {Nil}] /\ metadata'[c] = Get(s).token
        /\ \A d \in Calls \ {c} : metadata'[d] = metadata[d]
    BY <1>0, <1>4, <2>3, Zenon DEF Restore, CallTypes
  <2>7. CallTypes' /\ FlagTypes'
    BY <1>0, <1>1, <1>2, <2>4, <2>5, <2>6, Zenon DEF CallTypes, FlagTypes
  <2>8. \A d \in Calls \ {c} : CallAsBefore(d)
    BY <1>1, <1>2, <2>4, <2>5, <2>6, Zenon DEF CallAsBefore
  <2>9. metadata'[c] # Nil /\ s \in given'
    BY <2>2, <2>3, <2>6, NilApart
  <2>10. CallFacts(c)'
    BY <1>2, <2>4, <2>5, <2>9 DEF CallFacts
  <2>11. QED
    BY <1>0, <2>7, <2>8, <2>10, FactsStay, Zenon DEF CallsTyped
<1>5. QED
  BY <1>3, <1>4

(* A call that is below.                                                   *)
LEMMA BelowKeeps ==
  ASSUME SessionTypeOK, NothingLeft, given \subseteq given',
         NEW c \in Calls, Identify(c) \/ Renew(c)
  PROVE  CallsTyped /\ \A d \in Calls \ {c} : CallAsBefore(d)
<1>0. CallTypes /\ FlagTypes /\ \A d \in Calls : CallFacts(d)
  BY SessionTypeParts, FactsParts
<1>1. /\ place[c] = "below" /\ place' = place /\ sessionId' = sessionId /\ had' = had
      /\ latest' = latest /\ crossed' = crossed
      /\ identity' = [identity EXCEPT ![c] = TRUE]
  BY Zenon DEF Identify, Renew, history
<1>2. /\ identity' \in [Calls -> BOOLEAN] /\ identity'[c]
      /\ \A d \in Calls \ {c} : identity'[d] = identity[d]
  BY <1>0, <1>1, Zenon DEF FlagTypes
<1>3. /\ renewed' \in [Calls -> BOOLEAN]
      /\ \A d \in Calls \ {c} : renewed'[d] = renewed[d]
  BY <1>0, Zenon DEF FlagTypes, Identify, Renew
<1>4. /\ count' \in 0..MaxIssued
      /\ metadata' \in [Calls -> IssuedSets \cup {Nil}]
      /\ \A d \in Calls \ {c} : metadata'[d] = metadata[d]
      /\ metadata'[c] = metadata[c] \/ metadata'[c] \in IssuedSets
  <2>1. CASE Identify(c)
    BY <1>0, <2>1, Zenon DEF Identify, CallTypes
  <2>2. CASE Renew(c)
    <3>1. count \in 0..MaxIssued /\ count < MaxIssued /\ count' = count + 1
      BY <1>0, <2>2 DEF CallTypes, Renew
    <3>2. count' \in 0..MaxIssued /\ count + 1 \in 1..MaxIssued
      BY <3>1, IssuedAssumption
    <3>3. PICK jwt \in BOOLEAN :
            metadata' = [metadata EXCEPT ![c] = [n |-> count + 1, jwt |-> jwt]]
      BY <2>2, Zenon DEF Renew
    <3>4. [n |-> count + 1, jwt |-> jwt] \in IssuedSets
      BY <3>2 DEF IssuedSets
    <3>5. QED
      BY <1>0, <3>2, <3>3, <3>4, Zenon DEF CallTypes
  <2>3. QED
    BY <2>1, <2>2
<1>5. CallTypes' /\ FlagTypes'
  BY <1>0, <1>1, <1>2, <1>3, <1>4, Zenon DEF CallTypes, FlagTypes
<1>6. \A d \in Calls \ {c} : CallAsBefore(d)
  BY <1>1, <1>2, <1>3, <1>4, Zenon DEF CallAsBefore
<1>7. CallFacts(c)'
  <2>1. place'[c] # "idle" /\ had'[c] = had[c] /\ sessionId'[c] = sessionId[c]
    BY <1>1
  <2>2. metadata[c] # Nil => metadata'[c] # Nil
    BY <1>4, NilApart, Zenon
  <2>3. had[c] => sessionId[c] \in given' /\ metadata[c] # Nil
    BY <1>0, Zenon DEF CallFacts
  <2>4. QED
    BY <1>2, <2>1, <2>2, <2>3, Zenon DEF CallFacts
<1>8. QED
  BY <1>0, <1>5, <1>6, <1>7, FactsStay, Zenon DEF CallsTyped

(* A call that ends.                                                       *)
LEMMA EndKeeps ==
  ASSUME SessionTypeOK, NothingLeft, given \subseteq given',
         NEW c \in Calls,
         Raise(c) \/ Unchanged(c) \/ Create(c) \/ Update(c) \/ TooLate(c)
  PROVE  CallsTyped /\ \A d \in Calls \ {c} : CallAsBefore(d)
<1>0. CallTypes /\ FlagTypes /\ StoreTypes /\ \A d \in Calls : CallFacts(d)
  BY SessionTypeParts, FactsParts
<1>1. GoBack(c) /\ count' = count
  BY Zenon DEF Raise, Unchanged, Create, Update, TooLate
<1>2. /\ place' \in [Calls -> {"idle", "below"}]
      /\ sessionId' \in [Calls -> Ids \cup {Nil}]
      /\ metadata' \in [Calls -> IssuedSets \cup {Nil}]
      /\ had' \in [Calls -> BOOLEAN]
      /\ identity' \in [Calls -> BOOLEAN]
      /\ renewed' \in [Calls -> BOOLEAN]
      /\ sessionId'[c] = Nil /\ metadata'[c] = Nil
      /\ ~had'[c] /\ ~identity'[c] /\ ~renewed'[c]
      /\ \A d \in Calls \ {c} : CallAsBefore(d)
  BY <1>1, GoneBack, Zenon DEF CallAsBefore
<1>3. /\ latest' \in [Ids -> IssuedSets \cup {Nil}]
      /\ crossed' \in [Ids -> BOOLEAN]
  <2>1. CASE Raise(c) \/ Unchanged(c) \/ TooLate(c)
    BY <1>0, <2>1, Zenon DEF Raise, Unchanged, TooLate, history, CallTypes, FlagTypes
  <2>2. CASE Create(c)
    <3>1. PICK s \in Ids : latest' = [latest EXCEPT ![s] = metadata[c]]
      BY <2>2, Zenon DEF Create
    <3>2. crossed' = crossed
      BY <2>2, Zenon DEF Create
    <3>3. QED
      BY <1>0, <3>1, <3>2, Zenon DEF CallTypes, FlagTypes
  <2>3. CASE Update(c)
    <3>1. latest' = latest \/ latest' = [latest EXCEPT ![sessionId[c]] = metadata[c]]
      BY <2>3, Zenon DEF Update
    <3>2. crossed' = [crossed EXCEPT ![sessionId[c]] =
                        crossed[sessionId[c]] \/ (renewed[c] /\ Others(c) # {})]
      BY <2>3, Zenon DEF Update
    <3>3. QED
      BY <1>0, <3>1, <3>2, Zenon DEF CallTypes, FlagTypes
  <2>4. QED
    BY <2>1, <2>2, <2>3
<1>4. CallTypes' /\ FlagTypes'
  BY <1>0, <1>1, <1>2, <1>3, Zenon DEF CallTypes, FlagTypes
<1>5. CallFacts(c)'
  BY <1>2, Zenon DEF CallFacts
<1>6. QED
  BY <1>0, <1>2, <1>4, <1>5, FactsStay, Zenon DEF CallsTyped

LEMMA SessionStep ==
  ASSUME SessionTypeOK, NothingLeft, [SessionNext]_sessionVars
  PROVE  SessionTypeOK' /\ NothingLeft'
<1>1. StoreTypes /\ CallTypes /\ FlagTypes /\ \A c \in Calls : CallFacts(c)
  BY SessionTypeParts, FactsParts
<1>2. /\ sessions' \in [Ids -> Records \cup {Nil}] /\ given' \subseteq Ids
      /\ \A s \in Ids : Leased(s)
  BY StoreStep
<1>3. StoreTypes' /\ given \subseteq given'
  <2>1. given \subseteq Ids
    BY <1>1 DEF StoreTypes
  <2>2. \A s \in Ids : /\ s \in given => s \in given'
                       /\ sessions'[s] # Nil => s \in given'
    BY <1>1, <1>2, LeaseKeeps
  <2>3. QED
    BY <1>2, <2>1, <2>2, Zenon DEF StoreTypes
<1>4. ASSUME UNCHANGED <<count, call, history>> PROVE CallsTyped
  <2>1. CallTypes' /\ FlagTypes' /\ \A c \in Calls : CallAsBefore(c)
    BY <1>1, <1>4, Zenon DEF call, history, CallTypes, FlagTypes, CallAsBefore
  <2>2. QED
    BY <1>1, <1>3, <2>1, FactsStay, Zenon DEF CallsTyped
<1>5. CallsTyped
  BY <1>3, <1>4, BeginKeeps, BelowKeeps, EndKeeps, Zenon
  DEF SessionNext, sessionVars, Age
<1>6. HadTypes' /\ NothingLeft'
  BY <1>5, Zenon DEF CallsTyped, HadTypes, NothingLeft, CallFacts
<1>7. SessionTypeOK'
  BY <1>3, <1>5, <1>6, Zenon
  DEF CallsTyped, SessionTypeOK, StoreTypes, CallTypes, FlagTypes, HadTypes
<1>8. QED
  BY <1>6, <1>7

LEMMA SessionInitTypes == SessionInit => SessionTypeOK /\ NothingLeft
<1> SUFFICES ASSUME SessionInit PROVE SessionTypeOK /\ NothingLeft
  OBVIOUS
<1>1. StoreTypes
  BY Zenon DEF SessionInit, StoreTypes
<1>2. CallTypes
  <2>1. 0 \in 0..MaxIssued
    BY IssuedAssumption
  <2>2. QED
    BY <2>1, Zenon DEF SessionInit, CallTypes
<1>3. FlagTypes /\ HadTypes /\ NothingLeft
  BY Zenon DEF SessionInit, FlagTypes, HadTypes, NothingLeft
<1>4. QED
  BY <1>1, <1>2, <1>3, SessionTypeParts

(* The store holds sessions under the IDs that it has given out, and a call*)
(* that was restored has such an ID, an identity and a token set until it  *)
(* ends (SessionMiddleware.__call__, InMemorySessionStore).                *)
THEOREM SessionTypeInvariant == SessionSpec => [](SessionTypeOK /\ NothingLeft)
BY SessionInitTypes, SessionStep, PTL DEF SessionSpec

-----------------------------------------------------------------------------
(* A store of leases.                                                      *)

(* What a step does to a session, a lease allows.                          *)
LEMMA LeaseStep ==
  ASSUME StoreTypes, StoreTypes', NEW s \in Ids, Leased(s)
  PROVE  Lease!Issue(s) \/ Lease!Replace(s) \/ Lease!Age(s) \/ Lease!End(s) \/ Lease!Rest(s)
<1>0. /\ sessions[s] \in Records \cup {Nil} /\ (sessions[s] # Nil => s \in given)
      /\ sessions'[s] \in Records \cup {Nil} /\ (sessions'[s] # Nil => s \in given')
  BY DEF StoreTypes
<1>1. CASE Same(s)
  BY <1>0, <1>1, Zenon DEF Same, Lease!Rest
<1>2. CASE Aged(s)
  <2>1. /\ sessions[s] # Nil /\ sessions'[s] # Nil
        /\ sessions'[s].age = sessions[s].age + 1
        /\ sessions'[s].token = sessions[s].token
    <3>1. sessions[s] \in Records /\ sessions'[s] = [sessions[s] EXCEPT !.age = @ + 1]
      BY <1>2 DEF Aged
    <3>2. /\ [sessions[s] EXCEPT !.age = @ + 1].age = sessions[s].age + 1
          /\ [sessions[s] EXCEPT !.age = @ + 1].token = sessions[s].token
      BY <3>1 DEF Records
    <3>3. sessions[s].age \in 0..Ttl
      BY <1>2, <3>1, RecordHas, LeaseAssumption DEF Aged
    <3>4. [sessions[s] EXCEPT !.age = @ + 1] \in Records
      BY <3>1, <3>3, LeaseAssumption DEF Records
    <3>5. QED
      BY <3>1, <3>2, <3>4, NilApart
  <2>2. QED
    BY <1>0, <1>2, <2>1 DEF Aged, Lease!Age
<1>3. CASE Ended(s)
  BY <1>0, <1>3, NilApart DEF Ended, Lease!End
<1>4. ASSUME NEW t \in IssuedSets, Issued(s, t) PROVE Lease!Issue(s)
  <2>1. sessions'[s] # Nil /\ sessions'[s].age = 0 /\ sessions'[s].token = t
    BY <1>4, NewRecord, NilApart DEF Issued
  <2>2. QED
    BY <1>4, <2>1 DEF Issued, Lease!Issue
<1>5. ASSUME NEW t \in IssuedSets, Replaced(s, t) PROVE Lease!Replace(s)
  <2>1. /\ sessions[s] # Nil /\ sessions'[s] # Nil
        /\ sessions'[s].age = sessions[s].age /\ sessions'[s].token = t
    <3>1. sessions[s] \in Records /\ sessions'[s] = [sessions[s] EXCEPT !.token = t]
      BY <1>5 DEF Replaced
    <3>2. /\ [sessions[s] EXCEPT !.token = t] \in Records
          /\ [sessions[s] EXCEPT !.token = t].token = t
          /\ [sessions[s] EXCEPT !.token = t].age = sessions[s].age
      BY <3>1 DEF Records
    <3>3. QED
      BY <3>1, <3>2, NilApart
  <2>2. QED
    BY <1>5, <2>1 DEF Replaced, Lease!Replace
<1>6. QED
  BY <1>1, <1>2, <1>3, <1>4, <1>5, Zenon DEF Leased

(* Whatever calls overlap and whatever comes back with them, no session is *)
(* revived, none has its time set back, and none whose time is over gets a *)
(* token set: what InMemorySessionStore does, SessionLease allows.         *)
THEOREM SessionsAreLeases == SessionSpec => Leases
<1>1. SessionInit => Lease!Init
  BY Zenon DEF SessionInit, Lease!Init
<1>2. SessionTypeOK /\ SessionTypeOK' /\ [SessionNext]_sessionVars
        => [Lease!Next]_Lease!vars
  <2>1. SUFFICES ASSUME SessionTypeOK, SessionTypeOK', [SessionNext]_sessionVars
                 PROVE  Lease!Next
    BY Zenon
  <2>2. StoreTypes /\ StoreTypes'
    BY <2>1, Zenon DEF SessionTypeOK, StoreTypes
  <2>3. \A s \in Ids : Leased(s)
    BY <2>1, StoreStep
  <2>4. QED
    BY <2>2, <2>3, LeaseStep, Zenon DEF Lease!Next
<1>3. QED
  BY <1>1, <1>2, SessionTypeInvariant, PTL DEF SessionSpec, Leases, Lease!Spec

-----------------------------------------------------------------------------
(* Which token set a session holds.                                        *)

LatestInv == HasTheLatest /\ LatestKept

LEMMA QuietKeepsToken ==
  ASSUME NEW s \in Ids, Quiet(s), sessions'[s] # Nil
  PROVE  sessions[s] # Nil /\ sessions'[s].token = sessions[s].token
<1>1. CASE Same(s)
  BY <1>1, Zenon DEF Same
<1>2. CASE Aged(s)
  <2>1. sessions[s] \in Records /\ sessions'[s] = [sessions[s] EXCEPT !.age = @ + 1]
    BY <1>2 DEF Aged
  <2>2. [sessions[s] EXCEPT !.age = @ + 1].token = sessions[s].token
    BY <2>1 DEF Records
  <2>3. QED
    BY <2>1, <2>2, NilApart
<1>3. QED
  BY <1>1, <1>2 DEF Quiet, Ended

(* What a call has, if it is one of which HasTheLatest says something: it  *)
(* was there before, or it has just been restored.                         *)
LEMMA WhoHas ==
  ASSUME SessionTypeOK, NothingLeft, [SessionNext]_sessionVars,
         NEW d \in Calls, had'[d], ~renewed'[d]
  PROVE  \/ CallAsBefore(d)
         \/ \E s \in Ids : /\ sessionId'[d] = s /\ metadata'[d] = sessions[s].token
                           /\ sessions' = sessions /\ sessions[s] # Nil
<1>0. /\ SessionTypeOK' /\ given \subseteq given'
      /\ StoreTypes /\ StoreTypes' /\ CallTypes /\ FlagTypes
  <2>1. SessionTypeOK'
    BY SessionStep
  <2>2. StoreTypes /\ StoreTypes' /\ CallTypes /\ FlagTypes
    BY <2>1, Zenon DEF SessionTypeOK, StoreTypes, CallTypes, FlagTypes
  <2>3. \A s \in Ids : s \in given => s \in given'
    BY <2>2, StoreStep, LeaseKeeps
  <2>4. QED
    BY <2>1, <2>2, <2>3 DEF StoreTypes
<1>1. ASSUME UNCHANGED call PROVE CallAsBefore(d)
  BY <1>1, Zenon DEF call, CallAsBefore
<1>2. ASSUME NEW c \in Calls \ {d}, NEW s \in Ids \cup {Nil},
             \/ Restore(c, s) \/ Discard(c, s) \/ BeginUnknown(c, s)
             \/ Identify(c) \/ Renew(c)
             \/ Raise(c) \/ Unchanged(c) \/ Create(c) \/ Update(c) \/ TooLate(c)
      PROVE  CallAsBefore(d)
  BY <1>0, <1>2, BeginKeeps, BelowKeeps, EndKeeps, Zenon
<1>3. ASSUME NEW s \in Ids \cup {Nil}, Restore(d, s)
      PROVE  /\ s \in Ids /\ sessionId'[d] = s /\ metadata'[d] = sessions[s].token
             /\ sessions' = sessions /\ sessions[s] # Nil
  <2>1. /\ Enter(d, s) /\ Get(s) # Nil /\ sessions' = sessions
        /\ metadata' = [metadata EXCEPT ![d] = Get(s).token]
    BY <1>3, Zenon DEF Restore, store
  <2>2. s \in Ids /\ Get(s) = sessions[s]
    BY <1>0, <2>1, GetIs
  <2>3. sessionId'[d] = s
    BY <2>1, Entered
  <2>4. metadata'[d] = Get(s).token
    BY <1>0, <2>1, Zenon DEF CallTypes
  <2>5. QED
    BY <2>1, <2>2, <2>3, <2>4, Zenon
<1>4. ASSUME NEW s \in Ids \cup {Nil}, Discard(d, s) \/ BeginUnknown(d, s)
      PROVE  FALSE
  <2>1. Enter(d, s) /\ had' = had
    BY <1>4, Zenon DEF Discard, BeginUnknown
  <2>2. ~had[d]
    BY <2>1, Entered
  <2>3. QED
    BY <2>1, <2>2, Zenon
<1>5. ASSUME Identify(d) PROVE FALSE
  <2>1. ~identity[d] /\ had' = had
    BY <1>5, Zenon DEF Identify
  <2>2. QED
    BY <2>1, SessionTypeParts, Zenon DEF HadTypes
<1>6. ASSUME Renew(d) PROVE FALSE
  BY <1>0, <1>6, Zenon DEF Renew, FlagTypes
<1>7. ASSUME GoBack(d) PROVE FALSE
  BY <1>0, <1>7, Zenon DEF GoBack, FlagTypes
<1>8. ASSUME NEW c \in Calls, NEW s \in Ids \cup {Nil},
             \/ Restore(c, s) \/ Discard(c, s) \/ BeginUnknown(c, s)
             \/ Identify(c) \/ Renew(c)
             \/ Raise(c) \/ Unchanged(c) \/ Create(c) \/ Update(c) \/ TooLate(c)
      PROVE  \/ CallAsBefore(d)
             \/ \E i \in Ids : /\ sessionId'[d] = i /\ metadata'[d] = sessions[i].token
                               /\ sessions' = sessions /\ sessions[i] # Nil
  <2>1. CASE c # d
    BY <1>2, <1>8, <2>1, Zenon
  <2>2. CASE c = d
    <3>1. Restore(d, s)
      BY <1>4, <1>5, <1>6, <1>7, <1>8, <2>2, Zenon
      DEF Raise, Unchanged, Create, Update, TooLate
    <3>2. QED
      BY <1>3, <3>1, Zenon
  <2>3. QED
    BY <2>1, <2>2
<1>9. QED
  <2>1. Age => UNCHANGED call
    BY Zenon DEF Age
  <2>2. UNCHANGED sessionVars => UNCHANGED call
    BY Zenon DEF sessionVars
  <2>3. QED
    BY <1>1, <1>8, <2>1, <2>2, Zenon DEF SessionNext

LEMMA LatestStep ==
  ASSUME SessionTypeOK, NothingLeft, LatestInv, [SessionNext]_sessionVars
  PROVE  LatestInv'
<1>0. /\ SessionTypeOK' /\ NothingLeft'
      /\ given \subseteq Ids
      /\ \A d \in Calls : had[d] => sessionId[d] \in given
  BY SessionStep, SessionTypeParts DEF HadTypes, StoreTypes
<1>1. HasTheLatest /\ LatestKept
  BY DEF LatestInv
<1> DEFINE Good(d, s) ==
      sessions'[s] # Nil /\ ~crossed'[s] => metadata[d] = sessions'[s].token
(* What is left to show of HasTheLatest: of a call that has gone on.       *)
<1>2. ASSUME \A d \in Calls : had[d] /\ ~renewed[d] /\ CallAsBefore(d) => Good(d, sessionId[d])
      PROVE  HasTheLatest'
  <2>1. SUFFICES ASSUME NEW d \in Calls, had'[d], ~renewed'[d],
                        sessions'[sessionId'[d]] # Nil, ~crossed'[sessionId'[d]]
                 PROVE  metadata'[d] = sessions'[sessionId'[d]].token
    BY Zenon DEF HasTheLatest
  <2>2. CASE CallAsBefore(d)
    BY <1>2, <2>1, <2>2, Zenon DEF CallAsBefore
  <2>3. CASE ~CallAsBefore(d)
    BY <2>1, <2>3, WhoHas, Zenon
  <2>4. QED
    BY <2>2, <2>3
<1>3. CASE ~ \E c \in Calls : Create(c) \/ Update(c)
  <2>1. /\ latest' = latest /\ crossed' = crossed
        /\ \A s \in Ids : sessions'[s] # Nil =>
             sessions[s] # Nil /\ sessions'[s].token = sessions[s].token
    BY <1>3, QuietStep, QuietKeepsToken
  <2>2. LatestKept'
    BY <1>1, <2>1, Zenon DEF LatestKept
  <2>3. \A d \in Calls : had[d] /\ ~renewed[d] => Good(d, sessionId[d])
    BY <1>0, <1>1, <2>1, Zenon DEF HasTheLatest
  <2>4. QED
    BY <1>2, <2>2, <2>3, Zenon DEF LatestInv
<1>4. ASSUME NEW c \in Calls, Create(c) PROVE LatestInv'
  <2>1. PICK s \in Ids : /\ Issued(s, metadata[c])
                         /\ latest' = [latest EXCEPT ![s] = metadata[c]]
                         /\ \A i \in Ids \ {s} : Same(i)
    BY <1>4, CreateStep
  <2>2. crossed' = crossed
    BY <1>4, CreateStep
  <2>3. s \notin given /\ sessions'[s].token = metadata[c]
    BY <2>1 DEF Issued
  <2>4. latest'[s] = metadata[c] /\ \A i \in Ids \ {s} : latest'[i] = latest[i]
    BY <2>1 DEF SessionTypeOK
  <2>5. LatestKept'
    <3>1. SUFFICES ASSUME NEW i \in Ids, sessions'[i] # Nil, ~crossed'[i]
                   PROVE  sessions'[i].token = latest'[i]
      BY Zenon DEF LatestKept
    <3>2. CASE i = s
      BY <2>3, <2>4, <3>2, Zenon
    <3>3. CASE i # s
      BY <1>1, <2>1, <2>2, <2>4, <3>1, <3>3, Zenon DEF Same, LatestKept
    <3>4. QED
      BY <3>2, <3>3
  <2>6. ASSUME NEW d \in Calls, had[d], ~renewed[d] PROVE Good(d, sessionId[d])
    <3>1. sessionId[d] \in Ids \ {s}
      BY <1>0, <2>3, <2>6, Zenon
    <3>2. sessions'[sessionId[d]] = sessions[sessionId[d]]
      BY <2>1, <3>1, Zenon DEF Same
    <3>3. QED
      BY <1>1, <2>2, <2>6, <3>2, Zenon DEF HasTheLatest
  <2>7. QED
    BY <1>2, <2>5, <2>6, Zenon DEF LatestInv
<1>5. ASSUME NEW c \in Calls, Update(c) PROVE LatestInv'
  <2> DEFINE s == sessionId[c]
  <2>1. /\ s \in Ids /\ sessions[s] \in Records
        /\ sessions'[s].token = metadata[c]
        /\ \A i \in Ids \ {s} : Same(i)
    BY <1>5, UpdateStep, Zenon
  <2>2. /\ had[c] /\ had'[c] = FALSE
        /\ latest' = IF renewed[c] THEN [latest EXCEPT ![s] = metadata[c]] ELSE latest
        /\ crossed' = [crossed EXCEPT ![s] = crossed[s] \/ (renewed[c] /\ Others(c) # {})]
    <3>1. FlagTypes
      BY SessionTypeParts
    <3>2. QED
      BY <1>5, <3>1, Zenon DEF Update, GoBack, FlagTypes
  <2>3. /\ crossed'[s] <=> crossed[s] \/ (renewed[c] /\ Others(c) # {})
        /\ \A i \in Ids \ {s} : crossed'[i] = crossed[i]
    BY <2>1, <2>2, SessionTypeParts, Zenon DEF FlagTypes
  <2>4. /\ latest'[s] = IF renewed[c] THEN metadata[c] ELSE latest[s]
        /\ \A i \in Ids \ {s} : latest'[i] = latest[i]
    BY <2>1, <2>2, SessionTypeParts, Zenon DEF CallTypes
  <2>5. sessions[s] # Nil
    BY <2>1, NilApart
  <2>6. ~renewed[c] /\ ~crossed[s] => metadata[c] = sessions[s].token
    BY <1>1, <2>2, <2>5, Zenon DEF HasTheLatest
  <2>7. LatestKept'
    <3>1. SUFFICES ASSUME NEW i \in Ids, sessions'[i] # Nil, ~crossed'[i]
                   PROVE  sessions'[i].token = latest'[i]
      BY Zenon DEF LatestKept
    <3>2. CASE i = s /\ renewed[c]
      BY <2>1, <2>4, <3>2, Zenon
    <3>3. CASE i = s /\ ~renewed[c]
      <4>1. metadata[c] = sessions[s].token /\ ~crossed[s]
        BY <2>3, <2>6, <3>1, <3>3, Zenon
      <4>2. QED
        BY <1>1, <2>1, <2>4, <2>5, <3>3, <4>1, Zenon DEF LatestKept
    <3>4. CASE i # s
      BY <1>1, <2>1, <2>3, <2>4, <3>1, <3>4, Zenon DEF Same, LatestKept
    <3>5. QED
      BY <3>2, <3>3, <3>4, Zenon
  <2>8. ASSUME NEW d \in Calls, had[d], ~renewed[d], CallAsBefore(d)
        PROVE  Good(d, sessionId[d])
    <3>1. CASE sessionId[d] # s
      <4>1. sessionId[d] \in Ids \ {s}
        BY <1>0, <2>8, <3>1, Zenon
      <4>2. /\ sessions'[sessionId[d]] = sessions[sessionId[d]]
            /\ crossed'[sessionId[d]] = crossed[sessionId[d]]
        BY <2>1, <2>3, <4>1, Zenon DEF Same
      <4>3. QED
        BY <1>1, <2>8, <4>2, Zenon DEF HasTheLatest
    <3>2. CASE sessionId[d] = s
      <4>1. d # c
        BY <2>2, <2>8, Zenon DEF CallAsBefore
      <4>2. d \in Others(c)
        BY <2>8, <3>2, <4>1, Zenon DEF Others
      <4>3. ~crossed'[s] => ~renewed[c] /\ ~crossed[s]
        BY <2>3, <4>2, Zenon
      <4>4. ~crossed[s] => metadata[d] = sessions[s].token
        BY <1>1, <2>5, <2>8, <3>2, Zenon DEF HasTheLatest
      <4>5. QED
        BY <2>1, <2>6, <3>2, <4>3, <4>4, Zenon
    <3>3. QED
      BY <3>1, <3>2
  <2>9. QED
    BY <1>2, <2>7, <2>8, Zenon DEF LatestInv
<1>6. QED
  BY <1>3, <1>4, <1>5, Zenon

(* A session holds the token set of the last call that renewed it, unless  *)
(* renewals of one session crossed each other                              *)
(* (SessionMiddleware._post_request).                                      *)
THEOREM SessionsKeepTheLatest == SessionSpec => []LatestKept
<1>1. SessionInit => LatestInv
  BY Zenon DEF SessionInit, LatestInv, HasTheLatest, LatestKept
<1>2. SessionTypeOK /\ NothingLeft /\ LatestInv /\ [SessionNext]_sessionVars => LatestInv'
  BY LatestStep
<1>3. LatestInv => LatestKept
  BY DEF LatestInv
<1>4. QED
  BY <1>1, <1>2, <1>3, SessionTypeInvariant, PTL DEF SessionSpec
=============================================================================
