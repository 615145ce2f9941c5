-------------------------------- MODULE MCVault --------------------------------
(* Model checking instance of Vault: two texts, two counter values and two  *)
(* seconds, so that the counter wraps and is reset by restarts.             *)
EXTENDS Vault, TLC
CONSTANTS old, new
MCContents == {old, new}
Texts == Permutations(MCContents)
================================================================================
