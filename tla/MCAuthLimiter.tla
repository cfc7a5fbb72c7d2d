--------------------------- MODULE MCAuthLimiter ---------------------------
EXTENDS AuthLimiter, TLC

CONSTANTS r1, r2, pair1, pair2, ip

TwoRequests == {r1, r2}
AllBuckets == {pair1, pair2, ip}

\* Two requests from one address, for two accounts.
PairAndAddress == r1 :> {pair1, ip} @@ r2 :> {pair2, ip}

LimitsOfOne == pair1 :> 1 @@ pair2 :> 1 @@ ip :> 1
=============================================================================
