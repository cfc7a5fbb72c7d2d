-------------------------- MODULE MCSalesProjection --------------------------
\* A restaurant's orders and their analytics, for TLC.
EXTENDS SalesProjection, TLC

\* Orders of one date add up as those of one order do; what can go wrong is to
\* take from one date what was given to another.
DatesDiffer == \A o, p \in Orders : o # p => created[o] # created[p]

DatedInit == SalesInit /\ DatesDiffer

DatedSpec == DatedInit /\ [][SalesNext]_salesVars

Symmetry == Permutations(Orders \ LegacyOrders) \cup Permutations(OrderKeys)
              \cup Permutations(Days) \cup Permutations(Ingredients)
=============================================================================
