-------------------------- MODULE MCRefreshTokens --------------------------
EXTENDS RefreshTokens, TLC

CONSTANTS u1, u2, t1, t2, t3, t4, r1, r2, r3

TwoUsers      == {u1, u2}
OneUser       == {u1}
ThreeTokens   == {t1, t2, t3}
FourTokens    == {t1, t2, t3, t4}
TwoRequests   == {r1, r2}
ThreeRequests == {r1, r2, r3}

Symmetry == Permutations(Users) \cup Permutations(Tokens) \cup Permutations(Requests)
=============================================================================
