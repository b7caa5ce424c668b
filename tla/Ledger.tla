------------------------------- MODULE Ledger -------------------------------
(***************************************************************************)
(* What Executive promises, without pool, errors, roots, transient keys or *)
(* a builder: a ledger of unspent outputs with branches.  A working copy   *)
(* is forked off a branch one height up, transactions apply to it one at a *)
(* time and completely or not at all, and it becomes a branch or is        *)
(* forgotten.                                                              *)
(***************************************************************************)
EXTENDS Naturals, Sequences

CONSTANTS
    Hash,               \* transactions
    OutputRef,          \* names of outputs
    None,               \* an output that does not exist
    Genesis,            \* the unspent outputs of the genesis block
    Inputs(_),          \* the outputs a transaction consumes
    Peeks(_),           \* the outputs a transaction reads
    Outputs(_),         \* the outputs a transaction creates, by name
    Unlocks(_, _, _, _) \* (h, ref, output, height): h may consume the output

VARIABLES
    branches,  \* the unspent outputs and the height of every block
    working    \* the copy being worked on, or None

vars == <<branches, working>>

Present(utxos) == {ref \in OutputRef : utxos[ref] # None}

Init ==
    /\ branches = <<[utxos |-> Genesis, height |-> 0]>>
    /\ working = None

Fork(b) ==
    /\ working = None
    /\ working' = [utxos |-> branches[b].utxos, height |-> branches[b].height + 1]
    /\ UNCHANGED branches

\* Everything consumed or read is there, everything created is not, and every
\* consumed output is unlocked at the height of the working copy.
Apply(h) ==
    /\ working # None
    /\ Inputs(h) \cup Peeks(h) \subseteq Present(working.utxos)
    /\ DOMAIN Outputs(h) \cap Present(working.utxos) = {}
    /\ \A ref \in Inputs(h) : Unlocks(h, ref, working.utxos[ref], working.height)
    /\ working' = [utxos |-> [ref \in OutputRef |->
                                 IF ref \in DOMAIN Outputs(h) THEN Outputs(h)[ref]
                                 ELSE IF ref \in Inputs(h) THEN None
                                 ELSE working.utxos[ref]],
                   height |-> working.height]
    /\ UNCHANGED branches

Commit ==
    /\ working # None
    /\ branches' = Append(branches, working)
    /\ working' = None

Forget ==
    /\ working # None
    /\ working' = None
    /\ UNCHANGED branches

Next ==
    \/ \E b \in DOMAIN branches : Fork(b)
    \/ \E h \in Hash : Apply(h)
    \/ Commit
    \/ Forget

Spec == Init /\ [][Next]_vars

=============================================================================
