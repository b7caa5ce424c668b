----------------------------- MODULE Inherents -----------------------------
(***************************************************************************)
(* Inherents as the executive, the InherentAdapter and the aggregate       *)
(* constraint checkers handle them.  A transaction has a field kind, the   *)
(* leaf of the aggregation its checker belongs to.                         *)
(*                                                                         *)
(* An aggregate constraint checker is the sequence of its leaves in the    *)
(* order of the variants; a variant that is itself an aggregate, such as   *)
(* the Inner of a parachain's checker, contributes its leaves in place,    *)
(* because it is called, like any other variant, with the transactions     *)
(* that belong to it.                                                      *)
(***************************************************************************)
EXTENDS Integers, Sequences, Functions

OfKind(txs, kind) ==
    LET chosen[n \in 0 .. Len(txs)] ==
            IF n = 0 THEN <<>>
            ELSE IF txs[n].kind = kind THEN Append(chosen[n - 1], txs[n]) ELSE chosen[n - 1]
    IN  chosen[Len(txs)]

\* The inherents at the beginning of a block; kinds are those of inherents.
OpeningInherents(extrinsics, kinds) ==
    LET last == {n \in 0 .. Len(extrinsics) :
                    \A i \in 1 .. n : extrinsics[i].kind \in kinds}
    IN  SubSeq(extrinsics, 1, CHOOSE n \in last : \A k \in last : k <= n)

\* execute_block refuses an inherent behind a transaction that is none.
InherentsComeFirst(extrinsics, kinds) ==
    \A i, j \in 1 .. Len(extrinsics) :
        i < j /\ extrinsics[j].kind \in kinds => extrinsics[i].kind \in kinds

\* InherentAdapter::create_inherents panics unless the parent block had exactly
\* one inherent of the kind.
CreatePanics(leaves, previous, kinds) ==
    \E i \in 1 .. Len(leaves) :
        leaves[i] \in kinds /\ Len(OfKind(previous, leaves[i])) # 1

\* The hooks every simple constraint checker is supplied with: no inherents.
SimpleCreate == <<>>
SimpleCheck(inherents) == inherents = <<>>

\* One inherent of every inherent kind, created[p] for the previous one p.
CreateInherents(leaves, previous, kinds, created) ==
    LET Leaf(kind) == IF kind \in kinds
                      THEN <<created[OfKind(previous, kind)[1]]>>
                      ELSE SimpleCreate
        all[n \in 0 .. Len(leaves)] == IF n = 0 THEN <<>> ELSE all[n - 1] \o Leaf(leaves[n])
    IN  all[Len(leaves)]

\* Mutant: the hook is asked about each inherent, however many there are.
LeafCheckEach(kind, inherents, kinds, passed) ==
    IF kind \in kinds
    THEN \A i \in 1 .. Len(inherents) : inherents[i] \in passed
    ELSE SimpleCheck(inherents)

\* InherentAdapter::check_inherents: no error is put into the result.  The hook of
\* the kind is content with the inherents in passed.
LeafCheck(kind, inherents, kinds, passed) ==
    IF kind \in kinds
    THEN Len(inherents) = 1 /\ inherents[1] \in passed
    ELSE SimpleCheck(inherents)

\* The aggregate goes through the leaves and stops at the first fatal error.
CheckInherents(leaves, inherents, kinds, passed) ==
    \A i \in 1 .. Len(leaves) :
        LeafCheck(leaves[i], OfKind(inherents, leaves[i]), kinds, passed)
=============================================================================
