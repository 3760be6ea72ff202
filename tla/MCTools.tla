------------------------------- MODULE MCTools -------------------------------
(* Processes and names of migrations are interchangeable.                    *)
EXTENDS Migrate, TLC

Symmetric == Permutations(Names) \cup Permutations(Migrators)
=============================================================================
