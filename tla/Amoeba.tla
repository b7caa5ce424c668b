------------------------------- MODULE Amoeba -------------------------------
(***************************************************************************)
(* The amoeba piece (wardrobe/amoeba): creation, mitosis and death.        *)
(***************************************************************************)
EXTENDS Typing

AmoebaDetails(generation) == [type |-> "Amoeba", generation |-> generation]

\* Mutant: only the first daughter is looked at.
MitosisFirst(inputs, evicted, outputs) ==
    /\ evicted = <<>>
    /\ Len(inputs) = 1 /\ ExtractAll(inputs, "Amoeba")
    /\ Len(outputs) = 2 /\ ExtractAll(outputs, "Amoeba")
    /\ outputs[1].generation = inputs[1].generation + 1

Mitosis(inputs, evicted, outputs) ==
    /\ evicted = <<>>
    /\ Len(inputs) = 1 /\ ExtractAll(inputs, "Amoeba")
    /\ Len(outputs) = 2 /\ ExtractAll(outputs, "Amoeba")
    /\ \A i \in 1 .. 2 : outputs[i].generation = inputs[1].generation + 1

\* Mutant: whatever is given in dies.
DeathAny(inputs, evicted, outputs) ==
    /\ evicted = <<>> /\ Len(inputs) = 1 /\ outputs = <<>>

Death(inputs, evicted, outputs) ==
    /\ evicted = <<>>
    /\ Len(inputs) = 1 /\ ExtractAll(inputs, "Amoeba")
    /\ outputs = <<>>

Creation(inputs, evicted, outputs) ==
    /\ evicted = <<>>
    /\ Len(outputs) = 1 /\ ExtractAll(outputs, "Amoeba")
    /\ outputs[1].generation = 0
    /\ inputs = <<>>
=============================================================================
