------------------------- MODULE MCAnchorStoreSqlite -------------------------
(***************************************************************************)
(* Model-checking instance of AnchorStoreSqlite.                           *)
(***************************************************************************)
EXTENDS AnchorStoreSqlite, TLC

CONSTANTS t1, t2, s1, s2, u1, u2, u3

MCThread == {t1, t2}
MCSession == {s1, s2}
MCTurn == {u1, u2, u3}

Symmetry == Permutations(MCThread) \cup Permutations(MCSession)
            \cup Permutations(MCTurn)
=============================================================================
