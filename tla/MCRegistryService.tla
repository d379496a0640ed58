------------------------- MODULE MCRegistryService -------------------------
(* Instances of RegistryService for TLC.                                   *)
EXTENDS RegistryService, TLC

CONSTANTS ha1, ha2, empty, plain, extended

(* Both processes run the same code.                                       *)
SameVersion == [h \in Procs |-> {empty, plain}]

(* ha2 runs an older version that does not know the schema of `extended'.  *)
MixedVersions ==
  [h \in Procs |-> IF h = ha1 THEN {empty, extended} ELSE {empty}]

(* Workers run the same code, and so do processes of the same version.     *)
Symmetry == Permutations(Workers) \cup Permutations(Procs)
=============================================================================
