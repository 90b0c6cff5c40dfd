---------------------------- MODULE MCAskDispatch ----------------------------
(***************************************************************************)
(* Model-checking instance of AskDispatch.                                 *)
(***************************************************************************)
EXTENDS AskDispatch, TLC

CONSTANTS w1, w2, s1, s2, u1, u2, u3, x1

MCWorker == {w1, w2}
MCSession == {s1, s2}
MCTurn == {u1, u2, u3}
MCSource == {x1}

Symmetry == Permutations(MCWorker) \cup Permutations(MCSession) \cup Permutations(MCTurn)
=============================================================================
