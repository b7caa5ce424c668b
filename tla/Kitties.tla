------------------------------ MODULE Kitties ------------------------------
(***************************************************************************)
(* The kitties piece (wardrobe/kitties): free breeding.  A kitty is a mom  *)
(* or a dad, ready or not; its DNA is the hash of its parents' DNA and of  *)
(* their numbers of breedings, taken to be injective.                      *)
(***************************************************************************)
EXTENDS Typing

CONSTANT MaxBreedings       \* u128::MAX in the code
NUM_FREE_BREEDINGS == 2

Kitty(sex, ready, free, dna, num) ==
    [type |-> "Kitty", sex |-> sex, ready |-> ready, free_breedings |-> free,
     dna |-> dna, num_breedings |-> num]

\* KittyData::mint: a kitty of the genesis block.
MintedKitty(sex, preimage) == Kitty(sex, TRUE, 2, <<preimage>>, 3)

ChildDna(mom, dad) == <<mom.dna, dad.dna, mom.num_breedings, dad.num_breedings>>

CanBreedAs(kitty, sex) ==
    /\ kitty.sex = sex
    /\ kitty.ready
    /\ kitty.num_breedings + 1 <= MaxBreedings

can_breed(mom, dad) ==
    /\ CanBreedAs(mom, "Mom")
    /\ CanBreedAs(dad, "Dad")
    /\ mom.free_breedings # 0 /\ dad.free_breedings # 0

\* Mutant: the parents' DNA may change.
NewParentAnyDna(old, new, sex) ==
    /\ new.sex = sex /\ ~new.ready
    /\ new.free_breedings = old.free_breedings - 1
    /\ new.num_breedings = old.num_breedings + 1

\* check_new_mom and check_new_dad.
NewParent(old, new, sex) ==
    /\ new.sex = sex
    /\ ~new.ready
    /\ new.free_breedings = old.free_breedings - 1
    /\ new.num_breedings = old.num_breedings + 1
    /\ new.dna = old.dna

check_child(mom, dad, child) ==
    /\ child.dna = ChildDna(mom, dad)
    /\ child.free_breedings = NUM_FREE_BREEDINGS
    /\ child.num_breedings = 0
    /\ child.ready

check_new_family(mom, dad, family) ==
    /\ NewParent(mom, family[1], "Mom")
    /\ NewParent(dad, family[2], "Dad")
    /\ check_child(family[1], family[2], family[3])

FreeKitty(inputs, evicted, outputs) ==
    /\ evicted = <<>>
    /\ Len(inputs) = 2 /\ ExtractAll(inputs, "Kitty")
    /\ can_breed(inputs[1], inputs[2])
    /\ Len(outputs) = 3 /\ ExtractAll(outputs, "Kitty")
    /\ check_new_family(inputs[1], inputs[2], outputs)
=============================================================================
