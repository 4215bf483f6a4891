---------------------------- MODULE MC_KeyManager ----------------------------
EXTENDS KeyManager

CONSTANTS k1, k2, p1, p2, v1, v2

MCKeyIds == {k1, k2}
MCPasswords == {p1, p2}
MCValues == {v1, v2}
=============================================================================
