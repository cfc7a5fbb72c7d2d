--------------------------- MODULE MCAuthSessions ---------------------------
EXTENDS AuthSessions, TLC

CONSTANTS t1, t2, c1, c2

TwoTabs == {t1, t2}
TwoCalls == {c1, c2}

Symmetry == Permutations({t1, t2}) \cup Permutations({c1, c2})
=============================================================================
