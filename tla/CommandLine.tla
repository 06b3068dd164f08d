---------------------------- MODULE CommandLine ----------------------------
(***************************************************************************)
(* cli/__init__.py: the commands a user runs in a shell, each a process    *)
(* that loads the configuration, works on the stored token set and tells   *)
(* by its exit code how it went, beside others.  They work on the entry    *)
(* "default" of the token storage; that of a server is named for the host  *)
(* of its issuer, so that servers are not concerned.  An access to the     *)
(* storage is one step here (TokenStorage takes it apart), and what is     *)
(* printed can be printed.                                                 *)
(***************************************************************************)
EXTENDS Naturals

CONSTANTS
  Shells,    \* the shells in which commands are run
  MaxLogins, \* bound: how many token sets are got at logins
  NoEntry    \* no token set

ASSUME LoginsAssumption == MaxLogins \in Nat

Commands == {"run", "login", "logout", "whoami", "doctor", "config validate"}

(* A token set by its number; its claims can be read, in the access or the *)
(* ID token, or not.  (Claims that can be are an object.)                  *)
TokenSets == [n : 1..MaxLogins, readable : BOOLEAN]

ASSUME NoEntryAssumption == NoEntry \notin TokenSets

VARIABLES
  entry,   \* what is stored
  fresh,   \* it has not expired
  logins,  \* token sets got so far
  command, \* what runs in each shell; or, once it has exited, what ran
  at,      \* where it is
  code,    \* the exit code of the last command; 2 if it was interrupted
  held,    \* the token set that the command has got or read
  aged,    \* it had expired when it was read
  checked, \* doctor: its checks so far have passed
  before,  \* (history) the entry when the command began
  alone    \* (history) no other process has changed it since then

shellVars == <<command, at, code, held, aged, checked, before, alone>>
commandVars == <<entry, fresh, logins, shellVars>>

CommandTypeOK ==
  /\ entry \in TokenSets \cup {NoEntry}
  /\ fresh \in BOOLEAN
  /\ logins \in 0..MaxLogins
  /\ command \in [Shells -> Commands]
  /\ at \in [Shells -> {"idle", "begun", "got", "stored", "read"}]
  /\ code \in [Shells -> 0..2]
  /\ held \in [Shells -> TokenSets \cup {NoEntry}]
  /\ aged \in [Shells -> BOOLEAN]
  /\ checked \in [Shells -> BOOLEAN]
  /\ before \in [Shells -> TokenSets \cup {NoEntry}]
  /\ alone \in [Shells -> BOOLEAN]

CommandInit ==
  /\ entry = NoEntry
  /\ fresh = FALSE
  /\ logins = 0
  /\ command = [s \in Shells |-> "whoami"]
  /\ at = [s \in Shells |-> "idle"]
  /\ code = [s \in Shells |-> 2]
  /\ held = [s \in Shells |-> NoEntry]
  /\ aged = [s \in Shells |-> FALSE]
  /\ checked = [s \in Shells |-> FALSE]
  /\ before = [s \in Shells |-> NoEntry]
  /\ alone = [s \in Shells |-> FALSE]

-----------------------------------------------------------------------------
Running(s, commands, step) == at[s] = step /\ command[s] \in commands

Begin(s) ==
  /\ at[s] = "idle"
  /\ \E c \in Commands : command' = [command EXCEPT ![s] = c]
  /\ at' = [at EXCEPT ![s] = "begun"]
  /\ held' = [held EXCEPT ![s] = NoEntry]
  /\ aged' = [aged EXCEPT ![s] = FALSE]
  /\ checked' = [checked EXCEPT ![s] = TRUE]
  /\ before' = [before EXCEPT ![s] = entry]
  /\ alone' = [alone EXCEPT ![s] = TRUE]
  /\ UNCHANGED <<entry, fresh, logins, code>>

Exit(s, with) ==
  /\ at' = [at EXCEPT ![s] = "idle"]
  /\ code' = [code EXCEPT ![s] = with]
  /\ UNCHANGED <<entry, fresh, logins, command, held, aged, checked, before, alone>>

(* Writes the entry, or removes it.                                        *)
Change(s, token) ==
  /\ entry' = token
  /\ fresh' = (token # NoEntry)
  /\ alone' = [o \in Shells |-> alone[o] /\ o = s]
  /\ at' = [at EXCEPT ![s] = "stored"]
  /\ UNCHANGED <<logins, command, code, held, aged, checked, before>>

(* run: the server has stopped, or could not start or go on.               *)
Serves(s) == Running(s, {"run"}, "begun") /\ \E with \in {0, 1} : Exit(s, with)

(* config validate: valid, with warnings perhaps, or not.                  *)
Validates(s) == Running(s, {"config validate"}, "begun") /\ \E with \in {0, 1} : Exit(s, with)

-----------------------------------------------------------------------------
(* login, logout.                                                          *)

LoginGets(s) ==
  /\ Running(s, {"login"}, "begun") /\ logins < MaxLogins
  /\ logins' = logins + 1
  /\ \E r \in BOOLEAN : held' = [held EXCEPT ![s] = [n |-> logins + 1, readable |-> r]]
  /\ at' = [at EXCEPT ![s] = "got"]
  /\ UNCHANGED <<entry, fresh, command, code, aged, checked, before, alone>>

LoginStores(s) == Running(s, {"login"}, "got") /\ Change(s, held[s])

(* The disk is full, or the process is killed, once the file is open.      *)
StoreBreaks(s) ==
  /\ Running(s, {"login"}, "got")
  /\ entry' = NoEntry /\ fresh' = FALSE
  /\ alone' = [o \in Shells |-> alone[o] /\ o = s]
  /\ at' = [at EXCEPT ![s] = "idle"]
  /\ \E with \in {1, 2} : code' = [code EXCEPT ![s] = with]
  /\ UNCHANGED <<logins, command, held, aged, checked, before>>

LogoutDeletes(s) == Running(s, {"logout"}, "begun") /\ Change(s, NoEntry)

(* Mutant: a token set whose email cannot be told is taken for an error.   *)
FailsLate(s) ==
  /\ \/ Running(s, {"login", "logout"}, "begun") \/ Running(s, {"login"}, "got")
     \/ Running(s, {"login"}, "stored") /\ ~held[s].readable
  /\ Exit(s, 1)

(* No valid configuration, no auth section, no provider, no browser, no    *)
(* code, no token; or the storage raises.                                  *)
Fails(s) ==
  /\ Running(s, {"login", "logout"}, "begun") \/ Running(s, {"login"}, "got")
  /\ Exit(s, 1)

(* What login prints is an email, or "unknown".                            *)
Succeeds(s) == Running(s, {"login", "logout"}, "stored") /\ Exit(s, 0)

-----------------------------------------------------------------------------
(* whoami, doctor.                                                         *)

(* The configuration is invalid, or the provider cannot be reached.        *)
CheckFails(s) ==
  /\ Running(s, {"doctor"}, "begun") /\ checked[s]
  /\ checked' = [checked EXCEPT ![s] = FALSE]
  /\ UNCHANGED <<entry, fresh, logins, command, at, code, held, aged, before, alone>>

Retrieves(s) ==
  /\ Running(s, {"whoami", "doctor"}, "begun")
  /\ held' = [held EXCEPT ![s] = entry]
  /\ aged' = [aged EXCEPT ![s] = entry # NoEntry /\ ~fresh]
  /\ at' = [at EXCEPT ![s] = "read"]
  /\ UNCHANGED <<entry, fresh, logins, command, code, checked, before, alone>>

(* The storage raises.                                                     *)
RetrieveFails(s) == Running(s, {"whoami", "doctor"}, "begun") /\ Exit(s, 1)

(* Whether the token set has expired is nothing to whoami.                 *)
Tells(s) ==
  /\ Running(s, {"whoami"}, "read")
  /\ Exit(s, IF held[s] # NoEntry /\ held[s].readable THEN 0 ELSE 1)

Diagnoses(s) ==
  /\ Running(s, {"doctor"}, "read")
  /\ Exit(s, IF checked[s] /\ ~aged[s] THEN 0 ELSE 1)

(* Control-C, for which click exits with 1 too, or the end of the process. *)
Killed(s) == at[s] # "idle" /\ Exit(s, 2)

-----------------------------------------------------------------------------
Expire == fresh' = FALSE /\ UNCHANGED <<entry, logins, shellVars>>

CommandNext ==
  \/ \E s \in Shells :
       \/ Begin(s) \/ Serves(s) \/ Validates(s)
       \/ LoginGets(s) \/ LoginStores(s) \/ StoreBreaks(s) \/ LogoutDeletes(s)
       \/ Fails(s) \/ Succeeds(s)
       \/ CheckFails(s) \/ Retrieves(s) \/ RetrieveFails(s) \/ Tells(s) \/ Diagnoses(s)
       \/ Killed(s)
  \/ Expire

CommandSpec == CommandInit /\ [][CommandNext]_commandVars

-----------------------------------------------------------------------------
(* Properties.                                                             *)

(* The exit code of a command that no other interferes with is true.  One  *)
(* that fails leaves what was stored, or at worst nothing: never another   *)
(* token set.  A login or logout that succeeds has done what it says;      *)
(* whoami and doctor speak of the token set that is there.  (A command     *)
(* that is interrupted may have done its work or not.)                     *)
ExitsTrue ==
  \A s \in Shells : at[s] = "idle" /\ alone[s] =>
    /\ code[s] = 1 => entry \in {before[s], NoEntry}
    /\ code[s] = 0 =>
         CASE command[s] = "login" -> entry # NoEntry /\ entry = held[s]
           [] command[s] = "logout" -> entry = NoEntry
           [] command[s] = "whoami" -> entry # NoEntry /\ entry.readable
           [] command[s] = "doctor" -> entry = held[s] /\ ~aged[s]
           [] OTHER -> entry = before[s]
=============================================================================
