---------------------------- MODULE MCWalletSync ----------------------------
(***************************************************************************)
(* Two branches off the genesis block, one of them longer:                 *)
(*                                                                         *)
(*     g --- a1 --- a2                                                     *)
(*      \--- b1 --- b2 --- b3                                              *)
(*                                                                         *)
(* The genesis coin is spent on both, in different blocks; change is       *)
(* created and spent within one block.                                     *)
(***************************************************************************)
EXTENDS WalletSync

MCBlock == {"g", "a1", "a2", "b1", "b2", "b3"}

MCParent == [b \in Block \ {"g"} |->
    CASE b \in {"a1", "b1"} -> "g"
      [] b = "a2"           -> "a1"
      [] b = "b2"           -> "b1"
      [] b = "b3"           -> "b2"]

\* Blocks open with a timestamp, save b2, whose author had to drop it.  "pay"
\* makes change and "merge" spends it; "gift" comes from a stranger.
MCTxs == [b \in Block |->
    CASE b = "g"  -> <<"time_g", "coin">>
      [] b = "a1" -> <<"time_a1", "pay", "merge">>
      [] b = "a2" -> <<"time_a2", "gift">>
      [] b = "b1" -> <<"time_b1", "gift">>
      [] b = "b2" -> <<"pay">>
      [] b = "b3" -> <<"time_b3", "merge">>]

MCTime == {"time_g", "time_a1", "time_a2", "time_b1", "time_b3"}
MCTx == MCTime \cup {"coin", "pay", "merge", "gift"}
\* One output per transaction, and a second, foreign one for "pay".
MCRef == MCTx \cup {"paid"}

MCInputs == [t \in Tx |->
    CASE t = "pay"   -> <<"coin">>
      [] t = "merge" -> <<"pay">>
      [] OTHER       -> <<>>]

MCOutputs == [t \in Tx |-> IF t = "pay" THEN <<"pay", "paid">> ELSE <<t>>]

MCCoins == {"coin", "pay", "merge", "gift"}

=============================================================================
