------------------------------- MODULE Config -------------------------------
(***************************************************************************)
(* load_config (src/src/core/config.py).  The settings library resolves    *)
(* defaults, .env and environment, whatever the case of a name; then the   *)
(* code puts the values of configs/config.yaml over those it takes for     *)
(* defaults, for which it reads .env a second time, in its own way.        *)
(*                                                                         *)
(* A value is known by the source it comes from.  A source is a function   *)
(* from the fields to how it spells them: "NAME", "name", "export NAME"    *)
(* (in .env only), or None if it does not give the field.                  *)
(***************************************************************************)
CONSTANTS
  Fields,   \* the attributes of Settings
  Unknown,  \* keys of the YAML file that are no fields
  None

KeysAssumption == Fields \cap Unknown = {} /\ None \notin {"NAME", "name", "export NAME"}

VARIABLES
  environ, dotenv,  \* the environment and .env
  yaml,             \* keys of the YAML file; none if it cannot be read
  pc,               \* "new", "merge" or "loaded"
  left,             \* keys of the YAML file that are still to be handled
  settings          \* the source each field has its value from

sources == <<environ, dotenv, yaml>>
vars == <<sources, pc, left, settings>>

Init ==
  /\ environ \in [Fields -> {None, "NAME", "name"}]
  /\ dotenv \in [Fields -> {None, "NAME", "name", "export NAME"}]
  /\ yaml \in SUBSET (Fields \cup Unknown)
  /\ pc = "new"
  /\ left = yaml
  /\ settings = [f \in Fields |-> "default"]

(* Settings(_env_file=env_path) *)
Resolve ==
  /\ pc = "new"
  /\ pc' = "merge"
  /\ settings' = [f \in Fields |-> IF environ[f] # None THEN "environment"
                                   ELSE IF dotenv[f] # None THEN ".env" ELSE "default"]
  /\ UNCHANGED <<sources, left>>

(* Mutant of SetElsewhere: .env is not looked at again. *)
SetInEnvironment(k) == environ[k] = "NAME"

(* key.upper() is in os.environ or among the keys of .env. *)
SetElsewhere(k) == environ[k] = "NAME" \/ dotenv[k] = "NAME"

Merge(k) ==
  /\ pc = "merge"
  /\ k \in left
  /\ left' = left \ {k}
  /\ settings' = IF k \in Fields /\ ~SetElsewhere(k) THEN [settings EXCEPT ![k] = "yaml"]
                                                     ELSE settings
  /\ UNCHANGED <<sources, pc>>

Return ==
  /\ pc = "merge"
  /\ left = {}
  /\ pc' = "loaded"
  /\ UNCHANGED <<sources, left, settings>>

(* The settings are kept for good. *)
Loaded == pc = "loaded" /\ UNCHANGED vars

Next == Loaded \/ Resolve \/ Return \/ \E k \in Fields \cup Unknown : Merge(k)

Spec == Init /\ [][Next]_vars

-----------------------------------------------------------------------------
(* The order the module's comment promises: the last source that gives f. *)
Wanted(f) ==
  CASE environ[f] # None -> "environment"
    [] environ[f] = None /\ dotenv[f] # None -> ".env"
    [] environ[f] = None /\ dotenv[f] = None /\ f \in yaml -> "yaml"
    [] OTHER -> "default"

(* The two passes over .env and environment agree, and every field has the *)
(* value of the last source that gives it, if that source and the ones     *)
(* after it spell the field in capitals.                                   *)
LastCapitalWins ==
  pc = "loaded" =>
    \A f \in Fields : (environ[f] = "NAME" \/ (environ[f] = None /\ dotenv[f] \in {"NAME", None})) =>
                         settings[f] = Wanted(f)
=============================================================================
