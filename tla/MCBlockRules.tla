---------------------------- MODULE MCBlockRules ----------------------------
(* A short branch with small amounts: the schedule climbs, is capped and falls. *)
EXTENDS BlockRules

GapValues == {-4, 1, 40}
StakeValues == {-2, 9}

Sums[h \in 0..MaxBlocks] == IF h = 0 THEN 0 ELSE Sums[h - 1] + FullSubsidy(h)
=============================================================================
