-------------------------- MODULE MCSessionLifecycle --------------------------
(* Instances of SessionLifecycle for TLC.                                  *)
EXTENDS SessionLifecycle, TLC

\* No definition looks into the identifiers of sessions and commands.
Symmetry == Permutations(Sessions) \cup Permutations(Commands)
===============================================================================
