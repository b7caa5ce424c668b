-------------------------- MODULE MCWalletSpending --------------------------
(***************************************************************************)
(* Small instances of WalletSpending: one user, whose key starts with two  *)
(* coins, and a stranger with another.                                     *)
(***************************************************************************)
EXTENDS WalletSpending

CONSTANTS Shawn, Andrew

MCGenesis == <<OwnedCoin(Shawn, 2), OwnedCoin(Shawn, 1), OwnedCoin(Andrew, 1)>>
\* An amount that takes two coins, none, nothing, and two that overflow.
MCAmounts == {<<1, 2>>, <<>>, <<0>>, <<3, 3>>}
=============================================================================
