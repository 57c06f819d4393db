---------------------------- MODULE MCTokenTabs ----------------------------
(* Instances of TokenTabs for TLC.                                          *)
EXTENDS TokenTabs, TLC

CONSTANTS a, b

TabSymmetry == Permutations(Tabs)
=============================================================================
