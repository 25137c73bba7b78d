------------------------------ MODULE Manifests ------------------------------
(***************************************************************************)
(* The processed-date manifests of src/procurement/manifests.py: one small *)
(* JSON document per layer and key (a date, or a date and a notice type)   *)
(* that records the hash of the script that built the key and the hashes   *)
(* of the stages it depends on.                                            *)
(*                                                                         *)
(* A hash is a SHA-256 over source files, so equal hashes stand for equal  *)
(* code: a hash is a value drawn from Hashes, and the dependency mapping a *)
(* value drawn from Deps.  completed_at is left out, nothing reads it.     *)
(***************************************************************************)
CONSTANTS
  Hashes,     \* the script hashes a manifest can hold
  Deps,       \* the dependency_hashes mappings a manifest can hold
  NoManifest  \* what read_json returns for a key never written (None)

Manifest == [script : Hashes, deps : Deps] \cup {NoManifest}

\* write_processed_manifest overwrites the document in place.
WriteProcessedManifest(store, key, script, deps) ==
  [store EXCEPT ![key] = [script |-> script, deps |-> deps]]

\* is_already_processed when the caller passes dependency_hashes.
IsAlreadyProcessed(m, script, deps) ==
  /\ m # NoManifest
  /\ m.script = script
  /\ m.deps = deps

\* is_already_processed when it does not: only the script counts.
IsScriptProcessed(m, script) ==
  /\ m # NoManifest
  /\ m.script = script
=============================================================================
