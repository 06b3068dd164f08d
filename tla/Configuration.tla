--------------------------- MODULE Configuration ---------------------------
(***************************************************************************)
(* The configuration of a server: the file that is loaded and watched, and *)
(* the secrets that it refers to.  The loader leaves references as they    *)
(* are, and the application has them resolved, so the two share no state.  *)
(***************************************************************************)
EXTENDS ConfigWatcher, SecretResolver

ConfigurationSpec == Spec /\ SecretSpec

ConfigurationTypeOK == TypeOK /\ SecretTypeOK
=============================================================================
