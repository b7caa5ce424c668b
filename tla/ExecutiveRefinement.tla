------------------------- MODULE ExecutiveRefinement -------------------------
(***************************************************************************)
(* Executive implements Ledger.  The branches are the imported blocks; the *)
(* working copy is the overlay of the task.  Closing a block that was      *)
(* built here forgets the copy: the block becomes a branch when it is      *)
(* executed.                                                               *)
(***************************************************************************)
EXTENDS Executive

\* None stands for "no working copy" too, so it is not one.
ASSUME WorkingAssumption ==
    None \notin [utxos : [OutputRef -> Output \cup {None}], height : Nat]

InputRefs(h) == RefsOf(Body[h].inputs)

CreatedOutputs(h) == [ref \in OutputRefs(h) |-> Body[h].outputs[ref.index + 1]]

\* Every input that names the output evicts it or satisfies its verifier.
UnlockedBy(h, ref, output, height) ==
    \A i \in DOMAIN Body[h].inputs :
        Body[h].inputs[i].output_ref = ref =>
            \/ Body[h].inputs[i].redeemer = Eviction
            \/ Verify(output.verifier, Stripped(h), height, Body[h].inputs[i].redeemer)

Branches == [n \in DOMAIN tree |-> [utxos |-> tree[n].storage.db.utxos,
                                    height |-> tree[n].storage.db.height]]

Working == IF task = "idle" THEN None
           ELSE [utxos |-> storage.db.utxos, height |-> storage.db.height]

Abstract == INSTANCE Ledger WITH
    Genesis <- GenesisStorage.db.utxos,
    Inputs <- InputRefs, Peeks <- PeekRefs, Outputs <- CreatedOutputs, Unlocks <- UnlockedBy,
    branches <- Branches, working <- Working

(* Every step of authoring, pool and import is a step of the ledger: blocks *)
(* sit one height above their parent, a transaction takes effect as a      *)
(* whole, and nothing else touches the outputs of any branch.              *)
ImplementsLedger == Abstract!Spec

=============================================================================
