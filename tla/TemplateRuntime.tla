--------------------------- MODULE TemplateRuntime ---------------------------
(***************************************************************************)
(* The pieces of the template runtime over one UTXO set: every transaction *)
(* names one constraint checker of OuterConstraintChecker, which alone     *)
(* decides over its inputs, evicted inputs, peeks and outputs.             *)
(*                                                                         *)
(* Every redeemer is accepted, so what holds here holds whatever verifiers *)
(* guard the outputs.  An output listed under two redeemers is no          *)
(* duplicate to the executive: the checker sees its data twice.  The       *)
(* timestamp inherent, the remaining variant, has the Timestamp module.    *)
(***************************************************************************)
EXTENDS Money, Kitties, Amoeba, Poe, RuntimeUpgrade, FiniteSets, FiniteSetsExt

CONSTANTS
    Chains,             \* genesis blocks, with the checkers in use and bounds: the
                        \* payloads of the genesis outputs, a set of variants of
                        \* OuterConstraintChecker, transactions and blocks
    Offers(_, _, _),    \* outputs proposed for a checker, its inputs and the height
    GenesisCode,        \* the runtime at the genesis block
    Wasm,               \* runtimes
    Redeemers,          \* redeemers: signatures, say, no two of which are the same
    MaxTxs,             \* bound: transactions on any chain
    MaxInputs,          \* bound: inputs of a transaction
    MaxOutputs          \* bound: outputs of a transaction

VARIABLES
    chain,      \* the chain of this behaviour
    utxos,      \* the UTXO set: payloads by output reference
    code,       \* the :code key
    height,     \* the height of the block being executed
    txs,        \* number of transactions applied, the hash of the next one
    last,       \* the checker of the last transaction applied
    doubled     \* whether that transaction listed an output twice

vars == <<chain, utxos, code, height, txs, last, doubled>>

OutputRef == (0 .. MaxTxs) \X (1 .. MaxOutputs)
NoChecker == "none"
Eviction == "eviction"

Checkers ==
    {"Spend", "Mint", "FreeKitty", "AmoebaMitosis", "AmoebaDeath", "AmoebaCreation",
     "PoeClaim", "PoeRevoke", "PoeDispute", "RuntimeUpgrade"}

OfType(set, type) == {r \in DOMAIN set : Extracts(set[r], type)}

\* What decodes as a type has numbers of their width.
Decodes(data) ==
    /\ Extracts(data, "Coin") => data.value \in 0 .. MaxValue
    /\ Extracts(data, "Kitty") =>
           data.free_breedings \in Nat /\ data.num_breedings \in 0 .. MaxBreedings
    /\ Extracts(data, "Amoeba") => data.generation \in Nat
    /\ Extracts(data, "Claim") => data.effective_height \in Nat

WellFormed(payloads) ==
    Len(payloads) \in 0 .. MaxOutputs /\ \A i \in 1 .. Len(payloads) : Decodes(payloads[i])

Bred(dna) == Len(dna) = 4

\* The genesis block has no coins of zero, kitties of different DNA that were minted,
\* amoebas of generation zero, and at most one reference to the runtime, its own.
GenesisOK(genesis) ==
    /\ WellFormed(genesis)
    /\ \A i \in 1 .. Len(genesis) :
           /\ Extracts(genesis[i], "Coin") => genesis[i].value > 0
           /\ Extracts(genesis[i], "Kitty") =>
                  genesis[i].free_breedings <= NUM_FREE_BREEDINGS /\ ~Bred(genesis[i].dna)
           /\ Extracts(genesis[i], "Amoeba") => genesis[i].generation = 0
           /\ Extracts(genesis[i], "RuntimeRef") => genesis[i].wasm = GenesisCode
    /\ \A i, j \in 1 .. Len(genesis) : i # j =>
           /\ Extracts(genesis[i], "Kitty") /\ Extracts(genesis[j], "Kitty")
                  => genesis[i].dna # genesis[j].dna
           /\ ~(Extracts(genesis[i], "RuntimeRef") /\ Extracts(genesis[j], "RuntimeRef"))

ASSUME TemplateRuntimeAssumption ==
    /\ {MaxBreedings, MaxTxs, MaxInputs, MaxOutputs} \subseteq Nat /\ GenesisCode \in Wasm
    /\ Eviction \notin Redeemers
    /\ \A c \in Chains :
           /\ c.checkers \subseteq Checkers /\ c.txs \in 0 .. MaxTxs /\ c.blocks \in Nat \ {0}
           /\ GenesisOK(c.genesis)

TypeOK ==
    /\ DOMAIN utxos \subseteq OutputRef
    /\ \A r \in OfType(utxos, "Coin") : utxos[r].value \in 1 .. MaxValue
    /\ \A r \in OfType(utxos, "Kitty") :
           utxos[r].free_breedings \in 0 .. 2 /\ utxos[r].num_breedings \in 0 .. MaxBreedings
    /\ code \in Wasm
    /\ height \in 1 .. chain.blocks /\ txs \in 0 .. MaxTxs
    /\ last \in chain.checkers \cup {NoChecker} /\ doubled \in BOOLEAN

Outputs(tx, payloads) == [r \in {tx} \X (1 .. Len(payloads)) |-> payloads[r[2]]]

Init ==
    /\ chain \in Chains
    /\ utxos = Outputs(0, chain.genesis)
    /\ code = GenesisCode
    /\ height = 1
    /\ txs = 0
    /\ last = NoChecker /\ doubled = FALSE

\* The generated check of OuterConstraintChecker.
OuterCheck(checker, inputs, evicted, peeks, outputs, full_wasm) ==
    CASE checker = "Spend"          -> Spend(inputs, evicted, outputs)
      [] checker = "Mint"           -> Mint(inputs, evicted, outputs)
      [] checker = "FreeKitty"      -> FreeKitty(inputs, evicted, outputs)
      [] checker = "AmoebaMitosis"  -> Mitosis(inputs, evicted, outputs)
      [] checker = "AmoebaDeath"    -> Death(inputs, evicted, outputs)
      [] checker = "AmoebaCreation" -> Creation(inputs, evicted, outputs)
      [] checker = "PoeClaim"       -> Claim(inputs, evicted, outputs, height)
      [] checker = "PoeRevoke"      -> Revoke(inputs, evicted, outputs)
      [] checker = "PoeDispute"     -> Dispute(inputs, evicted, peeks, outputs)
      [] checker = "RuntimeUpgrade" -> Upgrade(inputs, evicted, outputs, full_wasm, code)

Data(refs) == [i \in 1 .. Len(refs) |-> utxos[refs[i]]]
Distinct(list) == \A i, j \in 1 .. Len(list) : i # j => list[i] # list[j]

\* Inputs: an output reference and how it is redeemed.
Input(ref, redeemer) == [output_ref |-> ref, redeemer |-> redeemer]
Redeemed == {Input(r, redeemer) : r \in DOMAIN utxos, redeemer \in Redeemers}
Evicts(refs) == [i \in 1 .. Len(refs) |-> Input(refs[i], Eviction)]
Refs(inputs) == [i \in 1 .. Len(inputs) |-> inputs[i].output_ref]

\* validate_tuxedo_transaction and update_storage; the check of a runtime
\* upgrade has written :code by then.  Inputs are compared whole, redeemers
\* included, as they are encoded.
ApplyTransaction(checker, redeemed, evicted, peeks, outputs, full_wasm) ==
    LET inputs == Refs(redeemed)
    IN
    /\ Distinct(redeemed \o Evicts(evicted)) /\ WellFormed(outputs)
    /\ OuterCheck(checker, Data(inputs), Data(evicted), Data(peeks), outputs, full_wasm)
    /\ code' = IF checker = "RuntimeUpgrade" THEN full_wasm ELSE code
    /\ txs' = txs + 1
    /\ last' = checker /\ doubled' = ~Distinct(inputs \o evicted)
    /\ utxos' = LET gone == {inputs[i] : i \in 1 .. Len(inputs)}
                            \cup {evicted[i] : i \in 1 .. Len(evicted)}
                    new  == Outputs(txs + 1, outputs)
                IN  [r \in (DOMAIN utxos \ gone) \cup DOMAIN new |->
                        IF r \in DOMAIN new THEN new[r] ELSE utxos[r]]
    /\ UNCHANGED <<chain, height>>

\* Peeks matter to PoeDispute alone, and only the first.
Transact(checker) ==
    /\ txs < chain.txs
    /\ \E redeemed \in UNION {[1 .. n -> Redeemed] : n \in 0 .. MaxInputs},
          evicted \in {<<>>} \cup {<<r>> : r \in DOMAIN utxos},
          peeks   \in IF checker = "PoeDispute"
                      THEN {<<>>} \cup {<<r>> : r \in DOMAIN utxos} ELSE {<<>>},
          full_wasm \in IF checker = "RuntimeUpgrade" THEN Wasm ELSE {code} :
           \E outputs \in Offers(checker, Data(Refs(redeemed)), height) :
               ApplyTransaction(checker, redeemed, evicted, peeks, outputs, full_wasm)

\* open_block of the next block.
NewBlock ==
    /\ height < chain.blocks
    /\ height' = height + 1
    /\ last' = NoChecker /\ doubled' = FALSE
    /\ UNCHANGED <<chain, utxos, code, txs>>

Next == NewBlock \/ \E checker \in chain.checkers : Transact(checker)

Spec == Init /\ [][Next]_vars

-----------------------------------------------------------------------------
(* Properties.                                                             *)

Supply(set) == MapThenSumSet(LAMBDA r : set[r].value, OfType(set, "Coin"))

\* Only minting brings money into the world, as long as no transaction lists an
\* output twice: no spend, however its values add up at the width of a coin, and
\* no other piece makes the sum of all coins larger.
SupplyGrowsByMint ==
    [][last' # "Mint" /\ ~doubled' => Supply(utxos') <= Supply(utxos)]_vars

Dnas(set) == {set[r].dna : r \in OfType(set, "Kitty")}

\* Kitties have unique DNA, linkable back to a mom and a dad that are still
\* there with it.
FamilyTree ==
    /\ \A r, s \in OfType(utxos, "Kitty") : r # s => utxos[r].dna # utxos[s].dna
    /\ \A dna \in Dnas(utxos) : Bred(dna) => {dna[1], dna[2]} \subseteq Dnas(utxos)

\* Powers of two.
Worth ==
    LET worth[n \in 0 .. MaxTxs] == IF n = 0 THEN 1 ELSE 2 * worth[n - 1]
    IN  worth
Mass(set) ==
    MapThenSumSet(LAMBDA r : Worth[MaxTxs - set[r].generation], OfType(set, "Amoeba"))

\* Amoebas of generation g are each worth a 2^g-th of a created one: only
\* creation adds to the sum, so a created amoeba never has more than 2^g
\* descendants of generation g at a time.
MassGrowsByCreation == [][last' # "AmoebaCreation" => Mass(utxos') <= Mass(utxos)]_vars

Rivals(set, r) == {s \in OfType(set, "Claim") : set[s].claim = set[r].claim}
Established(set, h, r) ==
    /\ r \in OfType(set, "Claim") /\ set[r].effective_height <= h
    /\ \A s \in Rivals(set, r) : set[r].effective_height <= set[s].effective_height

\* The oldest claim of a hash that is in effect stays the oldest, whoever
\* claims the hash later, and no dispute removes it: it is there until it is
\* revoked.
OldestClaimKept ==
    [][\A r \in DOMAIN utxos : Established(utxos, height, r)
        => IF r \in DOMAIN utxos' THEN Established(utxos', height', r)
                                  ELSE last' = "PoeRevoke"]_vars

\* The one reference to the runtime that the genesis block gave out, if it did, is
\* always to the code in storage.
CodeIsReferenced ==
    /\ Cardinality(OfType(utxos, "RuntimeRef")) <= 1
    /\ \A r \in OfType(utxos, "RuntimeRef") : utxos[r].wasm = code

Piece(type) ==
    CASE type = "Coin"       -> {"Spend", "Mint"}
      [] type = "Kitty"      -> {"FreeKitty"}
      [] type = "Amoeba"     -> {"AmoebaMitosis", "AmoebaDeath", "AmoebaCreation"}
      [] type = "Claim"      -> {"PoeClaim", "PoeRevoke", "PoeDispute"}
      [] type = "RuntimeRef" -> {"RuntimeUpgrade"}

\* The pieces of an aggregation keep apart: data of a type enters and leaves
\* the UTXO set only by a checker of the piece that defines the type.
PiecesKeepApart ==
    [][\A r \in DOMAIN utxos \cup DOMAIN utxos' :
        \/ r \in DOMAIN utxos \cap DOMAIN utxos' /\ utxos'[r] = utxos[r]
        \/ last' \in Piece(IF r \in DOMAIN utxos THEN utxos[r].type ELSE utxos'[r].type)]_vars
=============================================================================
