--------------------------- MODULE WalletSpending ---------------------------
(***************************************************************************)
(* The wallet's commands (wallet/src/main.rs): keys, minting and spending  *)
(* (money.rs, keystore.rs), against a node that goes on while a command    *)
(* runs and serves other wallets with the same keys.                       *)
(*                                                                         *)
(* A run of the wallet synchronises, here in one step, and carries out one *)
(* command.  How the database follows forks is the matter of WalletSync.   *)
(* An output reference is the number of its transaction in the history of  *)
(* the chain and an index, and so fixes owner and amount.  The wallet adds *)
(* u128 amounts without a check: here they wrap around, as in a release    *)
(* build; a debug build panics, which ends the run like an error.          *)
(***************************************************************************)
EXTENDS Money, FiniteSets, Functions

LOCAL INSTANCE SequencesExt

CONSTANTS
    Key,            \* sr25519 keys
    DevKey,         \* the key of the development phrase
    InitialKeys,    \* keys in the keystore when the database is created
    Genesis,        \* the coins of the genesis block, a sequence
    Amounts,        \* sequences of output amounts users ask for
    MintAmounts,    \* amounts they mint
    MaxNamed,       \* bound: inputs they name for a spend
    MaxTxs,         \* bound: transactions in the history
    MaxRuns,        \* bound: runs of the wallet
    MaxElsewhere    \* bound: size of the pool that others still add to

VARIABLES
    history,        \* the transactions of the chain
    pool,           \* transactions in the node's pool
    data,           \* the directory in use: keystore, the keys that were never
                    \* absent from it, UNSPENT table and how much of the
                    \* history the database has seen
    aside,          \* the directory at the base path during a --dev run
    phase,          \* "idle", "ready", "chosen", "signed"
    tx,             \* the spend that is being put together
    sent,           \* the spend that the last run sent, and the node's verdict
    runs            \* number of runs begun

vars == <<history, pool, data, aside, phase, tx, sent, runs>>

Data(keys, always, unspent, synced) ==
    [keys |-> keys, always |-> always, unspent |-> unspent, synced |-> synced]
NewData(keys) == Data(keys, keys, {}, 0)
NoData == NewData({})
Temporary == aside # NoData

OwnedCoin(owner, value) == [type |-> "Coin", value |-> value, owner |-> owner]
NewTx(inputs, outputs) == [inputs |-> inputs, outputs |-> outputs]
NoTx == NewTx(<<>>, <<>>)
Sent(t, verdict) == [tx |-> t, verdict |-> verdict]
NotSent == Sent(NoTx, "none")

CoinAt(ref) == history[ref[1]].outputs[ref[2]]
Coins(refs) == [i \in 1 .. Len(refs) |-> CoinAt(refs[i])]
Value(refs) == Total(Coins(refs))
Worth(set) == Value(SetToSeq(set))
Sum(amounts) == Total([i \in 1 .. Len(amounts) |-> Coin(amounts[i])])
\* A sum as the wallet has it.
Wrapped(sum) == sum % (MaxValue + 1)

\* The references that transaction n of the history creates.
Created(n) == {n} \X (1 .. Len(history[n].outputs))
Consumed(n) == Range(history[n].inputs)
\* The UTXO set after the first n transactions.
Live(n) == (UNION {Created(i) : i \in 1 .. n}) \ (UNION {Consumed(i) : i \in 1 .. n})
NodeStorage == Live(Len(history))

ASSUME WalletSpendingAssumption ==
    /\ DevKey \in Key /\ InitialKeys \subseteq Key /\ InitialKeys # {}
    /\ Genesis \in Seq([type : {"Coin"}, value : 1 .. MaxValue, owner : Key])
    /\ Amounts \subseteq Seq(0 .. MaxValue) /\ MintAmounts \subseteq 0 .. MaxValue
    /\ MaxNamed \in Nat /\ MaxTxs \in Nat /\ MaxRuns \in Nat /\ MaxElsewhere \in Nat

Init ==
    /\ history = <<NewTx(<<>>, Genesis)>>
    /\ pool = {}
    /\ data = NewData(InitialKeys) /\ aside = NoData
    /\ phase = "idle" /\ tx = NoTx /\ sent = NotSent /\ runs = 0

-----------------------------------------------------------------------------
(* A run begins.                                                           *)

\* keystore_filter: outputs owned by a key in the keystore.
Tracked(keys, n) == {ref \in Created(n) : CoinAt(ref).owner \in keys}

\* Mutant: the inputs of what is new are kept.
SyncedKeepingSpent(d, n) ==
    LET new == d.synced + 1 .. n
    IN  Data(d.keys, d.always, d.unspent \cup UNION {Tracked(d.keys, i) : i \in new}, n)

\* Mutant: the first new block is skipped.
SyncedOneLate(d, n) ==
    LET new == d.synced + 2 .. n
    IN  Data(d.keys, d.always, (d.unspent \cup UNION {Tracked(d.keys, i) : i \in new})
                                   \ UNION {Consumed(i) : i \in new}, n)

\* apply_transaction for the transactions up to n that are new.
Synced(d, n) ==
    LET new == d.synced + 1 .. n
    IN  Data(d.keys, d.always, (d.unspent \cup UNION {Tracked(d.keys, i) : i \in new})
                                   \ UNION {Consumed(i) : i \in new}, n)

\* With --no-sync a run works on what was synchronised before, which in a new
\* database is the genesis block; otherwise it first catches up with the node.
Heights(d) == {Len(history), IF d.synced = 0 THEN 1 ELSE d.synced}

Start ==
    /\ phase = "idle" /\ runs < MaxRuns
    /\ \E n \in Heights(data) : data' = Synced(data, n)
    /\ phase' = "ready" /\ runs' = runs + 1 /\ sent' = NotSent
    /\ UNCHANGED <<history, pool, aside, tx>>

\* With --dev: a new directory, with the development key in its keystore.
StartDev ==
    /\ phase = "idle" /\ runs < MaxRuns
    /\ \E n \in Heights(NoData) : data' = Synced(NewData({DevKey}), n)
    /\ aside' = data
    /\ phase' = "ready" /\ runs' = runs + 1 /\ sent' = NotSent
    /\ UNCHANGED <<history, pool, tx>>

-----------------------------------------------------------------------------
(* Commands.                                                               *)

\* The end of a run that leaves d in its directory.  A temporary directory is
\* removed, or left unused when the command returned an error.
End(d) ==
    /\ phase' = "idle" /\ tx' = NoTx
    /\ data' = IF Temporary THEN aside ELSE d
    /\ aside' = NoData
    /\ UNCHANGED <<history, runs>>

\* insert_key and generate_key.
InsertKey(k) ==
    /\ phase = "ready"
    /\ End([data EXCEPT !.keys = @ \cup {k}])
    /\ UNCHANGED <<pool, sent>>

\* remove_key deletes the file of the key; the development key has none.
RemoveKey(k) ==
    /\ phase = "ready" /\ k \in data.keys
    /\ Temporary => k # DevKey
    /\ End([data EXCEPT !.keys = @ \ {k}, !.always = @ \ {k}])
    /\ UNCHANGED <<pool, sent>>

\* Transactions without inputs that say the same have the same hash.
PreExistingOutput(t) ==
    \E n \in 1 .. Len(history) : history[n] = t /\ Created(n) \cap NodeStorage # {}

\* The node refuses a coin of no value, and one that is there already.
MintCoins(owner, amount) ==
    LET t == NewTx(<<>>, <<OwnedCoin(owner, amount)>>)
    IN  /\ phase = "ready"
        /\ pool' = IF Mint(<<>>, <<>>, t.outputs) /\ ~PreExistingOutput(t)
                   THEN pool \cup {t} ELSE pool
        /\ End(data) /\ UNCHANGED sent

\* show-balance, show-all-outputs, show-keys and no command at all.
Show == phase = "ready" /\ End(data) /\ UNCHANGED <<pool, sent>>

\* get_balances
Balance(owner) == Wrapped(Worth({ref \in data.unspent : CoinAt(ref).owner = owner}))

\* The coins of the table in some order, the hashes', until they add up to the
\* target; no sequence when they never do.
get_arbitrary_unspent_set(target) ==
    {keepers \in UNION {[1 .. n -> data.unspent] : n \in 0 .. Cardinality(data.unspent)} :
        /\ IsInjective(keepers)
        /\ \A n \in 0 .. Len(keepers) :
               Wrapped(Value(SubSeq(keepers, 1, n))) >= target <=> n = Len(keepers)}

\* What spend_coins_helper takes as inputs: the ones named by the user, then
\* others until the outputs are covered.  Both may hold the same coin.
AllInputRefs(manual, target) ==
    LET named == Wrapped(Value(manual))
    IN  IF named >= target
        THEN {manual}
        ELSE {manual \o more : more \in get_arbitrary_unspent_set(target - named)}

ChooseInputs(manual, recipient, amounts) ==
    /\ phase = "ready"
    /\ \A i \in 1 .. Len(manual) : manual[i] \in data.unspent
    /\ \E refs \in AllInputRefs(manual, Wrapped(Sum(amounts))) :
           tx' = NewTx(refs, [i \in 1 .. Len(amounts) |-> OwnedCoin(recipient, amounts[i])])
    /\ phase' = "chosen"
    /\ UNCHANGED <<history, pool, data, aside, sent, runs>>

\* Mutant: inputs without a key are signed with any.
SignableAny(ref) == ref \in NodeStorage

\* get_coin_from_storage and sign_with.
Signable(ref) == ref \in NodeStorage /\ CoinAt(ref).owner \in data.keys

\* Every input is fetched from the node and signed by its owner.  A coin that is
\* there for the last request was there for the ones before, so they are one step.
Sign ==
    /\ phase = "chosen"
    /\ \A ref \in Range(tx.inputs) : Signable(ref)
    /\ phase' = "signed"
    /\ UNCHANGED <<history, pool, data, aside, tx, sent, runs>>

\* A command that cannot go on returns an error: not enough value in the database,
\* an input gone from the node, a missing key, a reference that is not known.  Sums
\* that overflow end a debug build.
Fail ==
    /\ \/ phase = "ready"
       \/ phase = "chosen" /\ \E ref \in Range(tx.inputs) : ~Signable(ref)
    /\ End(data) /\ UNCHANGED <<pool, sent>>

\* The inputs with the redeemers in place.  Signatures are randomised: no two of one
\* key are the same, also of the same transaction.
Signed(refs) ==
    [i \in 1 .. Len(refs) |->
        [output_ref |-> refs[i], redeemer |-> [signer |-> CoinAt(refs[i]).owner, nonce |-> i]]]

\* Only a key in the keystore makes a signature that its owner's verifier accepts.
Verify(input) ==
    /\ input.redeemer.signer = CoinAt(input.output_ref).owner
    /\ input.redeemer.signer \in data.keys

\* What validate_tuxedo_transaction makes of the spend: "invalid" is an error of its,
\* and a transaction whose inputs are missing is only held back.
Verdict ==
    LET inputs == Signed(tx.inputs)
        present == {i \in 1 .. Len(inputs) : inputs[i].output_ref \in NodeStorage}
    IN  IF ~IsInjective(inputs) \/ \E i \in present : ~Verify(inputs[i]) THEN "invalid"
        ELSE IF present # 1 .. Len(inputs) THEN "missing inputs"
        ELSE IF ~Spend(Coins(tx.inputs), <<>>, tx.outputs) THEN "invalid"
        ELSE "accepted"

\* The node's answer is logged; the command succeeds either way.
Submit ==
    /\ phase = "signed"
    /\ sent' = Sent(tx, Verdict)
    /\ pool' = IF Verdict = "accepted" THEN pool \cup {tx} ELSE pool
    /\ End(data)

-----------------------------------------------------------------------------
(* The node.                                                               *)

\* A block takes a transaction from the pool and drops what it conflicts with.
Include(t) ==
    /\ Len(history) < MaxTxs
    /\ Range(t.inputs) \subseteq NodeStorage /\ ~PreExistingOutput(t)
    /\ history' = Append(history, t)
    /\ pool' = {p \in pool \ {t} : Range(p.inputs) \cap Range(t.inputs) = {}}
    /\ UNCHANGED <<data, aside, phase, tx, sent, runs>>

\* Another wallet that has the owner's key moves a coin.
SpentElsewhere(ref) ==
    /\ Cardinality(pool) < MaxElsewhere
    /\ pool' = pool \cup {NewTx(<<ref>>, <<CoinAt(ref)>>)}
    /\ UNCHANGED <<history, data, aside, phase, tx, sent, runs>>

Next ==
    \/ Start \/ StartDev \/ Show \/ Sign \/ Fail \/ Submit
    \/ \E k \in Key : InsertKey(k) \/ RemoveKey(k)
    \/ \E k \in Key, amount \in MintAmounts : MintCoins(k, amount)
    \/ \E manual \in UNION {[1 .. n -> data.unspent] : n \in 0 .. MaxNamed},
          recipient \in Key, amounts \in Amounts : ChooseInputs(manual, recipient, amounts)
    \/ \E t \in pool : Include(t)
    \/ \E ref \in NodeStorage : SpentElsewhere(ref)

Spec == Init /\ [][Next]_vars

-----------------------------------------------------------------------------
(* Properties.                                                             *)

\* A spend is refused only for the amounts themselves: one is zero, none was asked
\* for, or they or the inputs add up to more than fits.  Whatever was synchronised,
\* minted, named, removed from the keystore or moved by another wallet in between, the
\* inputs that arrive are signed by their owners and worth the outputs, which the help
\* text of --output-amount (cli.rs:148) says the wallet does not see to.
SpendsAreValid ==
    sent.verdict = "invalid"
    => \/ sent.tx.inputs = <<>> \/ ~NoZeroCoin(sent.tx.outputs)
       \/ ~AddsUp(sent.tx.outputs) \/ ~AddsUp(Coins(sent.tx.inputs))

\* The database knows no coin that was already spent in the part of the chain it
\* has seen.
TracksSpendable == \A d \in {data, aside} : d.unspent \subseteq Live(d.synced)

\* A run that has caught up with the node knows every coin of the keys that were in
\* its keystore all the time: ShowBalance is what they own, as far as a u128 can say,
\* and a spend fails for want of value only if they do not have it.  Coins of a key
\* that was inserted later stay unknown where they were synchronised over before.
BalanceIsOwned ==
    phase = "ready" /\ data.synced = Len(history)
    => \A k \in data.always :
           Balance(k) = Wrapped(Worth({ref \in NodeStorage : CoinAt(ref).owner = k}))
=============================================================================
