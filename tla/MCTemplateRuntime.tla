------------------------- MODULE MCTemplateRuntime -------------------------
(***************************************************************************)
(* Small instances of TemplateRuntime.  Offers has, for every checker, the *)
(* outputs that it asks for and some that it has to refuse.                *)
(***************************************************************************)
EXTENDS TemplateRuntime

Seqs(S, lo, hi) == UNION {[1 .. n -> S] : n \in lo .. hi}

Coins == {Coin(v) : v \in 0 .. MaxValue}
Claims(h) == {ClaimData("doc", e) : e \in {h - 1, h, h + 1}}

Parents(old) ==
    {Kitty(old.sex, ready, old.free_breedings - 1, dna, old.num_breedings + 1) :
        ready \in BOOLEAN, dna \in {old.dna, <<"other">>}}
Families(mom, dad) ==
    UNION {{<<m, d, Kitty(sex, TRUE, 2, dna, 0)>> :
                sex \in {"Mom", "Dad"}, dna \in {m.dna, ChildDna(m, d)}} :
            m \in Parents(mom), d \in Parents(dad)}

\* The family of parents that may not breed.
After(old) == Kitty(old.sex, FALSE, old.free_breedings - 1, old.dna, old.num_breedings + 1)
Misfits(mom, dad) ==
    {<<After(mom), After(dad), Kitty("Mom", TRUE, 2, ChildDna(After(mom), After(dad)), 0)>>}

Fits(inputs, n, type) == Len(inputs) = n /\ ExtractAll(inputs, type)

MCOffers(checker, inputs, h) ==
    CASE checker = "Spend"          -> Seqs(Coins, 0, 2)
      [] checker = "Mint"           -> Seqs(Coins, 0, 1)
      [] checker = "FreeKitty"      -> IF ~Fits(inputs, 2, "Kitty") THEN {}
                                       ELSE IF can_breed(inputs[1], inputs[2])
                                            THEN Families(inputs[1], inputs[2])
                                            ELSE Misfits(inputs[1], inputs[2])
      [] checker = "AmoebaMitosis"  -> Seqs({AmoebaDetails(g) : g \in 0 .. 2}, 2, 2)
      [] checker = "AmoebaDeath"    -> {<<>>, <<AmoebaDetails(0)>>}
      [] checker = "AmoebaCreation" -> Seqs({AmoebaDetails(0), AmoebaDetails(1)}, 0, 1)
      [] checker = "PoeClaim"       -> Seqs(Claims(h), 0, 1)
      [] checker = "PoeRevoke"      -> {<<>>}
      [] checker = "PoeDispute"     -> {<<>>}
      [] checker = "RuntimeUpgrade" -> {<<RuntimeRef(w)>> : w \in Wasm}

Chain(genesis, checkers, n, blocks) ==
    [genesis |-> genesis, checkers |-> checkers, txs |-> n, blocks |-> blocks]

\* Genesis blocks of the template runtime with smaller coins: one about money, one
\* about kitties and amoebas, one about claims and one with everything.
MCChains ==
    {Chain(<<Coin(MaxValue), Coin(MaxValue - 1), RuntimeRef(GenesisCode), AmoebaDetails(0)>>,
           {"Spend", "Mint", "RuntimeUpgrade", "AmoebaDeath"}, 3, 1),
     Chain(<<MintedKitty("Mom", "mother"), MintedKitty("Dad", "father"),
             MintedKitty("Mom", "aunt"), MintedKitty("Dad", "uncle")>>,
           {"FreeKitty", "AmoebaMitosis", "AmoebaDeath", "AmoebaCreation"}, 4, 1),
     Chain(<<>>, {"PoeClaim", "PoeRevoke", "PoeDispute"}, 5, 3),
     Chain(<<Coin(1), MintedKitty("Mom", "mother"), MintedKitty("Dad", "father"),
             AmoebaDetails(0), ClaimData("doc", 0), RuntimeRef(GenesisCode)>>,
           {"Spend", "Mint", "FreeKitty", "AmoebaMitosis", "AmoebaDeath", "AmoebaCreation",
            "PoeClaim", "PoeRevoke", "PoeDispute", "RuntimeUpgrade"}, 2, 2)}
=============================================================================
