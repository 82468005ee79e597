-------------------------- MODULE MCVolumeLifecycle --------------------------
(* Small instances of VolumeLifecycle for TLC. *)
EXTENDS VolumeLifecycle, TLC

\* Goroutines and handlers are interchangeable.
Symmetry == Permutations(Workers) \cup Permutations(Callers)

=============================================================================
