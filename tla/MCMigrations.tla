----------------------------- MODULE MCMigrations -----------------------------
(***************************************************************************)
(* Model checking of Migrations.                                           *)
(***************************************************************************)
EXTENDS MigrationsSafety

CONSTANTS m, s1, s

ThreeKinds  == [p \in {m, s1, s} |-> CASE p = m  -> "migrate"
                                       [] p = s1 -> "serve --migrate" [] OTHER -> "serve"]
TwoKinds    == [p \in {m, s} |-> IF p = m THEN "serve --migrate" ELSE "serve"]

FairSpec == Spec /\ Fairness
=============================================================================
