--------------------------- MODULE RuntimeUpgrade ---------------------------
(***************************************************************************)
(* The runtime upgrade piece (wardrobe/runtime_upgrade): an output with    *)
(* the hash of the runtime is exchanged for one with the hash of the next, *)
(* and the check writes the next runtime to the :code key as its last act. *)
(* A runtime stands for its hash.                                          *)
(***************************************************************************)
EXTENDS Typing

RuntimeRef(wasm) == [type |-> "RuntimeRef", wasm |-> wasm]

\* Mutant: the output is not compared with the new runtime.
UpgradeAnyOutput(inputs, evicted, outputs, full_wasm, code) ==
    /\ evicted = <<>>
    /\ Len(inputs) = 1 /\ ExtractAll(inputs, "RuntimeRef") /\ inputs[1].wasm = code
    /\ Len(outputs) = 1 /\ ExtractAll(outputs, "RuntimeRef")

Upgrade(inputs, evicted, outputs, full_wasm, code) ==
    /\ evicted = <<>>
    /\ Len(inputs) = 1 /\ ExtractAll(inputs, "RuntimeRef")
    /\ inputs[1].wasm = code
    /\ Len(outputs) = 1 /\ ExtractAll(outputs, "RuntimeRef")
    /\ outputs[1].wasm = full_wasm
=============================================================================
