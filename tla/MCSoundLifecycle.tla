-------------------------- MODULE MCSoundLifecycle --------------------------
(***************************************************************************)
(* Small instances of SoundLifecycle.  One interface that is refused and   *)
(* tries again has two implementations in turn; two interfaces make two    *)
(* implementations meet in the lists and in the jobs.  The symmetry is     *)
(* used by the run that checks only invariants.                            *)
(***************************************************************************)
EXTENDS SoundLifecycle, TLC

Symmetry == Permutations(Impls) \cup Permutations(Sounds)

=============================================================================
