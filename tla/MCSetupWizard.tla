--------------------------- MODULE MCSetupWizard ---------------------------
(* Instances of SetupWizard for TLC. *)
EXTENDS SetupWizard, TLC

(* The other two files are created, written and read in the same way. *)
MCShared == {"clients.json"}

Interchangeable == Permutations(Browsers) \cup Permutations(Handlers)
=============================================================================
