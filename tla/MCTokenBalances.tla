-------------------------- MODULE MCTokenBalances --------------------------
(* The constants of TokenBalances are given in the configuration. Nothing   *)
(* tells the two holders of tokens apart.                                   *)
EXTENDS TokenBalances
CONSTANTS alice, bob

Holders == Permutations({alice, bob})
=============================================================================
