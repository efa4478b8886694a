------------------------- MODULE MC_QueueOwnership -------------------------
(* Two objects of each class, so that every move and swap has a partner,   *)
(* and enough storage for all rings built and refreshed by moves.          *)
EXTENDS QueueOwnership, TLC

CONSTANTS r1, r2, w1, w2, c1, c2, s1, s2, s3, s4, s5

MCRObjs == {r1, r2}
MCWObjs == {w1, w2}
MCCObjs == {c1, c2}
MCStorage == {s1, s2, s3, s4, s5}

(* Objects of one class are interchangeable; so are storage blocks, but    *)
(* their 720 permutations cost TLC more than the states they save.         *)
Symmetry ==
  Permutations(MCRObjs) \cup Permutations(MCWObjs) \cup Permutations(MCCObjs)
====
