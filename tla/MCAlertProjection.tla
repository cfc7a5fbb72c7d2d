-------------------------- MODULE MCAlertProjection --------------------------
\* One ingredient and its two consumers, for TLC.
EXTENDS AlertProjection, TLC

Symmetry == Permutations(Keys)
=============================================================================
