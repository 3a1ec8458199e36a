----------------------------- MODULE MCRecovery -----------------------------
EXTENDS OutboundRecovery, TLC
MCSym == Permutations(Findings) \cup Permutations(Clerks)
=============================================================================
