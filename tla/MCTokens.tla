----------------------------- MODULE MCTokens ------------------------------
(* Small instances of Tokens: interchangeable requests, token rows, sessions *)
(* and accounts.                                                             *)
EXTENDS Tokens, TLC
CONSTANTS p1, p2, s1, s2, a1, a2, t1, t2, t3, m1, none

Infinite == {Forever}
(* paired tokens never expire, minted ones do *)
Short == {1}
Symmetry == Permutations(Procs) \cup Permutations(Tokens) \cup Permutations(Sessions)
            \cup Permutations(Accounts)
=============================================================================
