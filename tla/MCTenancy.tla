----------------------------- MODULE MCTenancy -----------------------------
EXTENDS Tenancy, TLC

CONSTANTS u1, u2, o1, o2, r1, r2, x1, x2

TwoUsers == {u1, u2}
TwoOrgs == {o1, o2}
TwoRestaurants == {r1, r2}
TwoTxs == {x1, x2}
OldRestaurant == {r1}

Symmetry == Permutations({u1, u2}) \cup Permutations({x1, x2})
=============================================================================
