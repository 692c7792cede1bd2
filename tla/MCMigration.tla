----------------------------- MODULE MCMigration -----------------------------
(* Instances of Migration for TLC. *)
EXTENDS Migration, TLC

\* The properties are about what happens until a run is no longer regular, and say
\* nothing once the user has deleted all he could upload.
OneDisturbance ==
    /\ Regular /\ faults + crashes <= 1
    /\ \E o \in Objects : o \in owned \/ url[o] # "used"

Symmetry == Permutations(Jobs)
=============================================================================
