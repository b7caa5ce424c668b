-------------------------------- MODULE Poe --------------------------------
(***************************************************************************)
(* The proof of existence piece (wardrobe/poe): claims that become valid   *)
(* at a height, their revocation, and disputes that evict later claims.    *)
(***************************************************************************)
EXTENDS Typing

ClaimData(claim, effective_height) ==
    [type |-> "Claim", claim |-> claim, effective_height |-> effective_height]

\* Mutant: a claim may be effective in the past.
ClaimBackdated(inputs, evicted, outputs, height) ==
    inputs = <<>> /\ evicted = <<>> /\ ExtractAll(outputs, "Claim")

Claim(inputs, evicted, outputs, height) ==
    /\ inputs = <<>> /\ evicted = <<>>
    /\ ExtractAll(outputs, "Claim")
    /\ \A i \in 1 .. Len(outputs) : outputs[i].effective_height >= height

Revoke(inputs, evicted, outputs) ==
    /\ evicted = <<>> /\ outputs = <<>>
    /\ ExtractAll(inputs, "Claim")

Dispute(inputs, evicted, peeks, outputs) ==
    /\ inputs = <<>> /\ outputs = <<>>
    /\ peeks # <<>> /\ Extracts(peeks[1], "Claim")
    /\ ExtractAll(evicted, "Claim")
    /\ \A i \in 1 .. Len(evicted) :
           /\ peeks[1].claim = evicted[i].claim
           /\ peeks[1].effective_height < evicted[i].effective_height
=============================================================================
