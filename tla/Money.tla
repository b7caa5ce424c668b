------------------------------- MODULE Money -------------------------------
(***************************************************************************)
(* The money piece (wardrobe/money): fungible coins that are spent and     *)
(* minted.  Values are machine integers up to MaxValue, u128::MAX in the   *)
(* code, and every addition is checked.                                    *)
(***************************************************************************)
EXTENDS Typing

CONSTANT MaxValue
ASSUME MoneyAssumption == MaxValue \in Nat

Coin(value) == [type |-> "Coin", value |-> value]

\* The sum of the values of the first i coins.
SumTo(coins) ==
    LET sum[i \in 0 .. Len(coins)] == IF i = 0 THEN 0 ELSE sum[i - 1] + coins[i].value
    IN  sum
Total(coins) == SumTo(coins)[Len(coins)]

\* Adding up with checked_add.
AddsUp(coins) == \A i \in 1 .. Len(coins) : SumTo(coins)[i] <= MaxValue

NoZeroCoin(coins) == \A i \in 1 .. Len(coins) : coins[i].value > 0

\* Mutant: additions wrap around.
SpendWrapping(inputs, evicted, outputs) ==
    /\ evicted = <<>> /\ inputs # <<>>
    /\ ExtractAll(inputs, "Coin") /\ ExtractAll(outputs, "Coin") /\ NoZeroCoin(outputs)
    /\ Total(outputs) % (MaxValue + 1) <= Total(inputs) % (MaxValue + 1)

Spend(inputs, evicted, outputs) ==
    /\ evicted = <<>>
    /\ inputs # <<>>
    /\ ExtractAll(inputs, "Coin") /\ AddsUp(inputs)
    /\ ExtractAll(outputs, "Coin") /\ NoZeroCoin(outputs) /\ AddsUp(outputs)
    /\ Total(outputs) <= Total(inputs)

\* Mutant: the values of minted coins are not looked at.
MintAny(inputs, evicted, outputs) ==
    /\ evicted = <<>> /\ inputs = <<>> /\ outputs # <<>>
    /\ ExtractAll(outputs, "Coin")

Mint(inputs, evicted, outputs) ==
    /\ evicted = <<>>
    /\ inputs = <<>>
    /\ outputs # <<>>
    /\ ExtractAll(outputs, "Coin") /\ NoZeroCoin(outputs)
=============================================================================
