------------------------ MODULE WalletSpendingProofs ------------------------
(***************************************************************************)
(* What the wallet's database knows of the chain, for any keys, any        *)
(* genesis, any amounts and any number of runs.                            *)
(***************************************************************************)
EXTENDS WalletSpending, TLAPS

Ref == Nat \X Nat
OwnedCoins == [type : {"Coin"}, value : Nat, owner : Key]
Tx == [inputs : Seq(Ref), outputs : Seq(OwnedCoins)]
Directory == [keys : SUBSET Key, always : SUBSET Key, unspent : SUBSET Ref, synced : Nat]

\* A transaction consumes what an earlier one created.
HistoryInv ==
    /\ history \in Seq(Tx)
    /\ \A n \in 1 .. Len(history) : \A ref \in Consumed(n) : ref[1] \in 1 .. n - 1

\* A database has just the spendable outputs of the part of the chain it has seen,
\* and of the keys that were always there it has all of them.
Knows(d) ==
    /\ d \in Directory /\ d.always \subseteq d.keys
    /\ d.synced \in 0 .. Len(history)
    /\ d.unspent \subseteq Live(d.synced)
    /\ \A ref \in Live(d.synced) : CoinAt(ref).owner \in d.always => ref \in d.unspent

SpendingInv ==
    /\ HistoryInv /\ Len(history) > 0
    /\ pool \subseteq Tx /\ tx \in Tx
    /\ Knows(data) /\ Knows(aside)

-----------------------------------------------------------------------------
(* The chain.                                                              *)

(* What is live was created and not consumed.                              *)
LEMMA LiveIs ==
    ASSUME NEW n, NEW ref
    PROVE  ref \in Live(n) <=> /\ \E i \in 1 .. n : ref \in Created(i)
                               /\ \A i \in 1 .. n : ref \notin Consumed(i)
<1> DEFINE C == {Created(i) : i \in 1 .. n}
           D == {Consumed(i) : i \in 1 .. n}
<1>1. ref \in UNION C <=> \E i \in 1 .. n : ref \in Created(i)
  BY Zenon
<1>2. ref \in UNION D <=> \E i \in 1 .. n : ref \in Consumed(i)
  BY Zenon
<1> QED BY <1>1, <1>2, Zenon DEF Live

(* An output is at an index of the transaction its reference names.        *)
LEMMA CreatedIs ==
    ASSUME HistoryInv, NEW n \in 1 .. Len(history), NEW ref \in Created(n)
    PROVE  /\ ref \in Ref /\ ref[1] = n
           /\ CoinAt(ref) \in OwnedCoins
<1>1. history[n] \in Tx
  BY DEF HistoryInv
<1>2. PICK os : os = history[n].outputs
  OBVIOUS
<1>3. os \in Seq(OwnedCoins)
  BY <1>1, <1>2 DEF Tx
<1>4. PICK i \in 1 .. Len(os) : ref = <<n, i>>
  BY <1>2 DEF Created
<1>5. n \in Nat /\ i \in Nat /\ Len(os) \in Nat
  BY <1>3 DEF HistoryInv
<1>6. os[i] \in OwnedCoins
  BY <1>3, <1>4
<1> QED BY <1>2, <1>4, <1>5, <1>6 DEF CoinAt, Ref

(* A block adds a transaction and leaves what there was.                   *)
LEMMA HistoryGrows ==
    ASSUME HistoryInv, NEW t \in Tx, history' = Append(history, t)
    PROVE  /\ Len(history) \in Nat /\ Len(history') = Len(history) + 1
           /\ history' \in Seq(Tx)
           /\ history'[Len(history) + 1] = t
           /\ \A i \in 1 .. Len(history) : /\ history'[i] = history[i]
                                           /\ Created(i)' = Created(i)
                                           /\ Consumed(i)' = Consumed(i)
<1>1. /\ Len(history) \in Nat /\ Len(history') = Len(history) + 1
      /\ history' \in Seq(Tx)
      /\ history'[Len(history) + 1] = t
      /\ \A i \in 1 .. Len(history) : history'[i] = history[i]
  BY DEF HistoryInv
<1> QED BY <1>1, Zenon DEF Created, Consumed

(* A database that knew its part of the chain still does.                  *)
LEMMA KnowsGrows ==
    ASSUME HistoryInv, NEW t \in Tx, history' = Append(history, t), NEW d, Knows(d)
    PROVE  Knows(d)'
<1>1. /\ Len(history) \in Nat /\ Len(history') = Len(history) + 1
      /\ \A i \in 1 .. Len(history) : /\ history'[i] = history[i]
                                      /\ Created(i)' = Created(i)
                                      /\ Consumed(i)' = Consumed(i)
  BY HistoryGrows
<1>2. d.synced \in 0 .. Len(history) /\ d.synced \in 0 .. Len(history')
  BY <1>1 DEF Knows
<1>3. \A i \in 1 .. d.synced : i \in 1 .. Len(history)
  BY <1>1, <1>2
<1>4. Live(d.synced)' = Live(d.synced)
  <2>1. {Created(i)' : i \in 1 .. d.synced} = {Created(i) : i \in 1 .. d.synced}
    BY <1>1, <1>3, Zenon
  <2>2. {Consumed(i)' : i \in 1 .. d.synced} = {Consumed(i) : i \in 1 .. d.synced}
    BY <1>1, <1>3, Zenon
  <2> QED BY <2>1, <2>2, Zenon DEF Live
<1>5. ASSUME NEW ref \in Live(d.synced) PROVE CoinAt(ref)' = CoinAt(ref)
  <2>1. PICK i \in 1 .. d.synced : ref \in Created(i)
    BY <1>5, LiveIs, Zenon
  <2>2. ref[1] \in 1 .. Len(history)
    BY <1>3, <2>1, CreatedIs
  <2> QED BY <1>1, <2>2, Zenon DEF CoinAt
<1> QED BY <1>2, <1>4, <1>5, Zenon DEF Knows

(* So does one when there is no new transaction.                           *)
LEMMA KnowsStays ==
    ASSUME history' = history, NEW d, Knows(d)
    PROVE  Knows(d)'
<1>1. Live(d.synced)' = Live(d.synced) /\ \A ref : CoinAt(ref)' = CoinAt(ref)
  BY Zenon DEF Live, Created, Consumed, CoinAt
<1> QED BY <1>1, Zenon DEF Knows

(* Synchronising up to n makes the part up to n known: what is new of a    *)
(* key in the keystore is tracked, unless a new transaction consumes it,   *)
(* and no earlier one can.                                                 *)
LEMMA SyncedKnows ==
    ASSUME HistoryInv, NEW d, Knows(d), NEW n \in d.synced .. Len(history)
    PROVE  Knows(Synced(d, n))
<1> DEFINE new == d.synced + 1 .. n
           e == Synced(d, n)
<1>1. /\ Len(history) \in Nat /\ d.synced \in Nat /\ n \in Nat /\ d.synced <= n
      /\ n \in 0 .. Len(history) /\ d.synced \in 0 .. Len(history)
  BY DEF HistoryInv, Knows
<1>2. /\ \A i \in 1 .. n : i \in 1 .. Len(history) /\ (i \in 1 .. d.synced \/ i \in new)
      /\ \A i \in new : i \in 1 .. n /\ i \notin 1 .. d.synced
      /\ \A i \in 1 .. d.synced : i \in 1 .. n
  BY <1>1
<1>3. /\ e.keys = d.keys /\ e.always = d.always /\ e.synced = n
      /\ e.unspent = (d.unspent \cup UNION {Tracked(d.keys, i) : i \in new})
                        \ UNION {Consumed(i) : i \in new}
      /\ e = [keys |-> e.keys, always |-> e.always, unspent |-> e.unspent, synced |-> e.synced]
  BY DEF Synced, Data
<1>4. ASSUME NEW ref
      PROVE  ref \in e.unspent <=> /\ \/ ref \in d.unspent
                                      \/ \E i \in new : ref \in Tracked(d.keys, i)
                                   /\ \A i \in new : ref \notin Consumed(i)
  <2>1. ref \in UNION {Tracked(d.keys, i) : i \in new} <=> \E i \in new : ref \in Tracked(d.keys, i)
    BY Zenon
  <2>2. ref \in UNION {Consumed(i) : i \in new} <=> \E i \in new : ref \in Consumed(i)
    BY Zenon
  <2> QED BY <1>3, <2>1, <2>2, Zenon
<1> HIDE DEF e, new
<1>5. ASSUME NEW ref \in e.unspent PROVE ref \in Live(n) /\ ref \in Ref
  <2>1. CASE ref \in d.unspent
    <3>1. ref \in Live(d.synced) /\ ref \in Ref
      BY <2>1 DEF Knows, Directory
    <3>2. PICK i \in 1 .. d.synced : ref \in Created(i)
      BY <3>1, LiveIs, Zenon
    <3>3. \A j \in 1 .. d.synced : ref \notin Consumed(j)
      BY <3>1, LiveIs, Zenon
    <3>4. \A j \in 1 .. n : ref \notin Consumed(j)
      BY <1>2, <1>4, <1>5, <3>3, Zenon
    <3> QED BY <1>2, <3>1, <3>2, <3>4, LiveIs, Zenon
  <2>2. ASSUME NEW i \in new, ref \in Tracked(d.keys, i) PROVE ref \in Live(n) /\ ref \in Ref
    <3>1. ref \in Created(i) /\ i \in 1 .. Len(history) /\ i \in 1 .. n
      BY <1>2, <2>2 DEF Tracked
    <3>2. ref \in Ref /\ ref[1] = i
      BY <3>1, CreatedIs
    <3>3. ASSUME NEW j \in 1 .. d.synced PROVE ref \notin Consumed(j)
      <4>1. j \in 1 .. Len(history) /\ j < i
        BY <1>1, <2>2 DEF new
      <4> QED BY <3>1, <3>2, <4>1 DEF HistoryInv
    <3>4. \A j \in 1 .. n : ref \notin Consumed(j)
      BY <1>2, <1>4, <1>5, <3>3, Zenon
    <3> QED BY <3>1, <3>2, <3>4, LiveIs, Zenon
  <2> QED BY <1>4, <1>5, <2>1, <2>2, Zenon
<1>6. ASSUME NEW ref \in Live(n), CoinAt(ref).owner \in d.always PROVE ref \in e.unspent
  <2>1. \A j \in 1 .. n : ref \notin Consumed(j)
    BY LiveIs, Zenon
  <2>2. PICK i \in 1 .. n : ref \in Created(i)
    BY LiveIs, Zenon
  <2>3. CASE i \in 1 .. d.synced
    <3>1. ref \in Live(d.synced)
      BY <1>2, <2>1, <2>2, <2>3, LiveIs, Zenon
    <3>2. ref \in d.unspent
      BY <1>6, <3>1 DEF Knows
    <3> QED BY <1>2, <1>4, <2>1, <3>2, Zenon
  <2>4. CASE i \in new
    <3>1. ref \in Tracked(d.keys, i)
      BY <1>6, <2>2 DEF Tracked, Knows
    <3> QED BY <1>2, <1>4, <2>1, <2>4, <3>1, Zenon
  <2> QED BY <1>2, <2>3, <2>4, Zenon
<1>7. e \in Directory
  <2>1. d.keys \in SUBSET Key /\ d.always \in SUBSET Key
    BY DEF Knows, Directory
  <2>2. e.unspent \in SUBSET Ref
    BY <1>5
  <2> QED BY <1>1, <1>3, <2>1, <2>2 DEF Directory
<1>8. d.always \subseteq d.keys
  BY DEF Knows
<1> QED BY <1>1, <1>3, <1>5, <1>6, <1>7, <1>8 DEF Knows, e

(* A new directory knows the empty part of the chain.                      *)
LEMMA NewKnows ==
    ASSUME HistoryInv, NEW keys \in SUBSET Key
    PROVE  Knows(NewData(keys))
<1> DEFINE d == NewData(keys)
<1>1. /\ d.keys = keys /\ d.always = keys /\ d.unspent = {} /\ d.synced = 0 /\ d \in Directory
  BY DEF NewData, Data, Directory
<1>2. 1 .. 0 = {} /\ 0 \in 0 .. Len(history)
  BY DEF HistoryInv
<1>3. \A ref : ref \notin Live(0)
  BY <1>2, LiveIs, Zenon
<1> QED BY <1>1, <1>2, <1>3, Zenon DEF Knows

(* What a command leaves in its directory when it ends.                    *)
LEMMA EndKnows ==
    ASSUME SpendingInv, NEW d, Knows(d), End(d), pool' \subseteq Tx
    PROVE  SpendingInv'
<1>1. Knows(NoData) /\ Knows(aside)
  BY NewKnows DEF SpendingInv, NoData
<1>2. Knows(data') /\ Knows(aside')
  BY <1>1, Zenon DEF End
<1>3. history' = history
  BY DEF End
<1>4. Knows(data)' /\ Knows(aside)'
  <2>1. PICK e : e = data'
    BY Zenon
  <2>2. PICK f : f = aside'
    BY Zenon
  <2>3. Knows(e)' /\ Knows(f)'
    BY <1>2, <1>3, <2>1, <2>2, KnowsStays
  <2> QED BY <2>1, <2>2, <2>3, Zenon DEF Knows, Live, Created, Consumed, CoinAt
<1>5. tx' \in Tx
  <2>1. <<>> \in Seq(Ref) /\ <<>> \in Seq(OwnedCoins)
    OBVIOUS
  <2> QED BY <2>1 DEF End, NoTx, NewTx, Tx
<1>6. HistoryInv' /\ Len(history') > 0
  BY <1>3 DEF SpendingInv, HistoryInv, Consumed
<1> QED BY <1>4, <1>5, <1>6 DEF SpendingInv

(* The heights that a run may synchronise to.                              *)
LEMMA HeightsReach ==
    ASSUME SpendingInv, NEW d, Knows(d), NEW n \in Heights(d)
    PROVE  n \in d.synced .. Len(history)
<1>1. Len(history) \in Nat /\ Len(history) > 0 /\ d.synced \in 0 .. Len(history)
  BY DEF SpendingInv, HistoryInv, Knows
<1> QED BY <1>1 DEF Heights

(* Coins created here have an owner, and what is chosen are references.    *)
LEMMA ChosenType ==
    ASSUME SpendingInv, NEW manual, NEW recipient \in Key, NEW amounts \in Amounts,
           manual \in UNION {[1 .. n -> data.unspent] : n \in 0 .. MaxNamed},
           ChooseInputs(manual, recipient, amounts)
    PROVE  tx' \in Tx
<1> DEFINE target == Wrapped(Sum(amounts))
           named == Wrapped(Value(manual))
           outputs == [i \in 1 .. Len(amounts) |-> OwnedCoin(recipient, amounts[i])]
<1>1. data.unspent \subseteq Ref
  BY DEF SpendingInv, Knows, Directory
<1>2. manual \in Seq(Ref)
  <2>1. PICK n \in 0 .. MaxNamed : manual \in [1 .. n -> data.unspent]
    BY Zenon
  <2>2. n \in Nat
    BY <2>1, WalletSpendingAssumption
  <2> QED BY <1>1, <2>1, <2>2
<1>3. PICK refs \in AllInputRefs(manual, target) : tx' = NewTx(refs, outputs)
  BY Zenon DEF ChooseInputs
<1>4. refs \in Seq(Ref)
  <2>1. CASE refs = manual
    BY <1>2, <2>1
  <2>2. ASSUME NEW more \in get_arbitrary_unspent_set(target - named), refs = manual \o more
        PROVE  refs \in Seq(Ref)
    <3>1. more \in UNION {[1 .. n -> data.unspent] : n \in 0 .. Cardinality(data.unspent)}
      BY <2>2, Zenon DEF get_arbitrary_unspent_set
    <3>2. PICK n \in 0 .. Cardinality(data.unspent) : more \in [1 .. n -> data.unspent]
      BY <3>1, Zenon
    <3>3. n \in Nat
      BY <3>2
    <3>4. more \in Seq(Ref)
      BY <1>1, <3>2, <3>3
    <3> QED BY <1>2, <2>2, <3>4
  <2>3. refs = manual \/ refs \in {manual \o more : more \in get_arbitrary_unspent_set(target - named)}
    BY <1>3, Zenon DEF AllInputRefs
  <2> QED BY <2>1, <2>2, <2>3, Zenon
<1>5. outputs \in Seq(OwnedCoins)
  <2>1. amounts \in Seq(0 .. MaxValue)
    BY WalletSpendingAssumption
  <2>2. \A i \in 1 .. Len(amounts) : amounts[i] \in Nat
    BY <2>1, MoneyAssumption
  <2>3. \A i \in 1 .. Len(amounts) : OwnedCoin(recipient, amounts[i]) \in OwnedCoins
    BY <2>2 DEF OwnedCoin, OwnedCoins
  <2>4. Len(amounts) \in Nat
    BY <2>1
  <2> HIDE DEF outputs
  <2>5. outputs \in [1 .. Len(amounts) -> OwnedCoins]
    BY <2>3, Zenon DEF outputs
  <2> QED BY <2>4, <2>5
<1> HIDE DEF outputs
<1> QED BY <1>3, <1>4, <1>5 DEF NewTx, Tx

(* A block consumes what is live.                                          *)
LEMMA IncludeStep ==
    ASSUME SpendingInv, NEW t \in pool, Include(t)
    PROVE  SpendingInv'
<1>1. HistoryInv /\ t \in Tx /\ history' = Append(history, t)
  BY DEF SpendingInv, Include
<1>2. /\ Len(history) \in Nat /\ Len(history') = Len(history) + 1
      /\ history' \in Seq(Tx) /\ history'[Len(history) + 1] = t
      /\ \A i \in 1 .. Len(history) : Consumed(i)' = Consumed(i)
  BY <1>1, HistoryGrows, Zenon
<1>3. ASSUME NEW n, n = Len(history) + 1, NEW ref \in Consumed(n)' PROVE ref[1] \in 1 .. n - 1
  <2>1. ref \in Live(Len(history)) /\ n - 1 = Len(history)
    <3>1. history'[n].inputs = t.inputs /\ n - 1 = Len(history)
      BY <1>2, <1>3
    <3> QED BY <1>3, <3>1, Zenon DEF Consumed, Include, NodeStorage
  <2>2. PICK i \in 1 .. Len(history) : ref \in Created(i)
    BY <2>1, LiveIs, Zenon
  <2> QED BY <1>1, <2>1, <2>2, CreatedIs
<1>4. HistoryInv'
  <2>1. ASSUME NEW n \in 1 .. Len(history'), NEW ref \in Consumed(n)' PROVE ref[1] \in 1 .. n - 1
    <3>1. CASE n \in 1 .. Len(history)
      BY <1>1, <1>2, <2>1, <3>1 DEF HistoryInv
    <3>2. CASE n = Len(history) + 1
      BY <1>3, <2>1, <3>2
    <3>3. n \in 1 .. Len(history) \/ n = Len(history) + 1
      BY <1>2, <2>1
    <3> QED BY <3>1, <3>2, <3>3
  <2> QED BY <1>2, <2>1 DEF HistoryInv
<1>5. ASSUME NEW d, Knows(d) PROVE Knows(d)'
  BY <1>1, <1>5, KnowsGrows
<1>6. Knows(data)' /\ Knows(aside)'
  <2>1. PICK d : d = data
    OBVIOUS
  <2>2. PICK e : e = aside
    OBVIOUS
  <2>3. d = data' /\ e = aside'
    BY <2>1, <2>2 DEF Include
  <2>4. Knows(d)' /\ Knows(e)'
    BY <1>5, <2>1, <2>2 DEF SpendingInv
  <2> QED BY <2>3, <2>4, Zenon DEF Knows, Live, Created, Consumed, CoinAt
<1>7. pool' \subseteq Tx /\ tx' \in Tx
  BY DEF Include, SpendingInv
<1>8. Len(history') > 0
  BY <1>2
<1> QED BY <1>4, <1>6, <1>7, <1>8 DEF SpendingInv

-----------------------------------------------------------------------------
(* The invariant.                                                          *)

(* Nothing is known before the first run, and genesis consumes nothing.    *)
LEMMA SpendingInit == Init => SpendingInv
<1> SUFFICES ASSUME Init PROVE SpendingInv
  OBVIOUS
<1>1. <<>> \in Seq(Ref) /\ <<>> \in Seq(OwnedCoins) /\ Genesis \in Seq(OwnedCoins)
  <2> DEFINE S == [type : {"Coin"}, value : 1 .. MaxValue, owner : Key]
  <2>1. S \subseteq OwnedCoins
    BY DEF OwnedCoins
  <2>2. Genesis \in Seq(S)
    BY WalletSpendingAssumption
  <2> HIDE DEF S
  <2>3. \A i \in 1 .. Len(Genesis) : Genesis[i] \in OwnedCoins
    BY <2>1, <2>2
  <2>4. Genesis \in [1 .. Len(Genesis) -> OwnedCoins] /\ Len(Genesis) \in Nat
    BY <2>2, <2>3
  <2> QED BY <2>4
<1>2. NewTx(<<>>, Genesis) \in Tx /\ tx \in Tx
  BY <1>1 DEF Init, NoTx, NewTx, Tx
<1>3. history \in Seq(Tx) /\ Len(history) = 1 /\ history[1] = NewTx(<<>>, Genesis)
  BY <1>2 DEF Init
<1>4. ASSUME NEW n \in 1 .. Len(history) PROVE Consumed(n) = {}
  <2>1. history[n].inputs = <<>>
    BY <1>3, <1>4 DEF NewTx
  <2> QED BY <2>1 DEF Consumed, Range
<1>5. HistoryInv
  BY <1>3, <1>4 DEF HistoryInv
<1>6. Knows(data) /\ Knows(aside)
  BY <1>5, NewKnows, WalletSpendingAssumption DEF Init, NoData
<1> QED BY <1>2, <1>3, <1>5, <1>6 DEF Init, SpendingInv

(* Every run, command and block keeps it.                                  *)
LEMMA SpendingStep == SpendingInv /\ [Next]_vars => SpendingInv'
<1> SUFFICES ASSUME SpendingInv, [Next]_vars PROVE SpendingInv'
  OBVIOUS
<1>a. /\ HistoryInv /\ Len(history) > 0 /\ pool \subseteq Tx /\ tx \in Tx
      /\ Knows(data) /\ Knows(aside)
  BY DEF SpendingInv
<1>b. ASSUME history' = history, pool' \subseteq Tx, tx' \in Tx, Knows(data'), Knows(aside')
      PROVE  SpendingInv'
  <2>1. PICK e : e = data'
    BY Zenon
  <2>2. PICK f : f = aside'
    BY Zenon
  <2>3. Knows(e)' /\ Knows(f)'
    BY <1>b, <2>1, <2>2, KnowsStays
  <2>4. Knows(data)' /\ Knows(aside)'
    BY <2>1, <2>2, <2>3, Zenon DEF Knows, Live, Created, Consumed, CoinAt
  <2>5. HistoryInv' /\ Len(history') > 0
    BY <1>a, <1>b DEF HistoryInv, Consumed
  <2> QED BY <1>b, <2>4, <2>5 DEF SpendingInv
<1>1. CASE Start
  <2>1. PICK n \in Heights(data) : data' = Synced(data, n)
    BY <1>1, Zenon DEF Start
  <2>2. Knows(data')
    BY <1>a, <2>1, HeightsReach, SyncedKnows
  <2> QED BY <1>a, <1>b, <1>1, <2>2, Zenon DEF Start
<1>2. CASE StartDev
  <2>1. PICK n \in Heights(NoData) : data' = Synced(NewData({DevKey}), n)
    BY <1>2, Zenon DEF StartDev
  <2>2. Knows(NewData({DevKey}))
    BY <1>a, NewKnows, WalletSpendingAssumption
  <2>3. n \in Heights(NewData({DevKey}))
    BY <2>1 DEF Heights, NoData, NewData, Data
  <2>4. Knows(data')
    BY <1>a, <2>1, <2>2, <2>3, HeightsReach, SyncedKnows
  <2> QED BY <1>a, <1>b, <1>2, <2>4, Zenon DEF StartDev
<1>3. CASE Show
  BY <1>a, <1>3, EndKnows, Zenon DEF Show
<1>4. CASE Sign
  BY <1>a, <1>b, <1>4, Zenon DEF Sign
<1>5. CASE Fail
  BY <1>a, <1>5, EndKnows, Zenon DEF Fail
<1>6. CASE Submit
  <2>1. pool' \subseteq Tx
    BY <1>a, <1>6, Zenon DEF Submit
  <2> QED BY <1>a, <1>6, <2>1, EndKnows, Zenon DEF Submit
<1>7. ASSUME NEW k \in Key, InsertKey(k) PROVE SpendingInv'
  <2> DEFINE d == [data EXCEPT !.keys = @ \cup {k}]
  <2>1. /\ d \in Directory /\ d.keys = data.keys \cup {k} /\ d.always = data.always
        /\ d.unspent = data.unspent /\ d.synced = data.synced
    BY <1>a DEF Knows, Directory
  <2>2. End(d) /\ pool' = pool
    BY <1>7 DEF InsertKey
  <2> HIDE DEF d
  <2>3. Knows(d)
    BY <1>a, <2>1 DEF Knows
  <2> QED BY <1>a, <2>2, <2>3, EndKnows
<1>8. ASSUME NEW k \in Key, RemoveKey(k) PROVE SpendingInv'
  <2> DEFINE d == [data EXCEPT !.keys = @ \ {k}, !.always = @ \ {k}]
  <2>1. /\ d \in Directory /\ d.keys = data.keys \ {k} /\ d.always = data.always \ {k}
        /\ d.unspent = data.unspent /\ d.synced = data.synced
    BY <1>a DEF Knows, Directory
  <2>2. End(d) /\ pool' = pool
    BY <1>8 DEF RemoveKey
  <2> HIDE DEF d
  <2>3. Knows(d)
    BY <1>a, <2>1 DEF Knows
  <2> QED BY <1>a, <2>2, <2>3, EndKnows
<1>9. ASSUME NEW k \in Key, NEW amount \in MintAmounts, MintCoins(k, amount) PROVE SpendingInv'
  <2>0. amount \in Nat
    BY WalletSpendingAssumption, MoneyAssumption
  <2>1. OwnedCoin(k, amount) \in OwnedCoins
    BY <2>0 DEF OwnedCoin, OwnedCoins
  <2>2. <<OwnedCoin(k, amount)>> \in Seq(OwnedCoins) /\ <<>> \in Seq(Ref)
    BY <2>1
  <2>3. NewTx(<<>>, <<OwnedCoin(k, amount)>>) \in Tx
    BY <2>2 DEF NewTx, Tx
  <2>4. pool' \subseteq Tx /\ End(data)
    BY <1>a, <1>9, <2>3, Zenon DEF MintCoins
  <2> QED BY <1>a, <2>4, EndKnows
<1>10. ASSUME NEW manual \in UNION {[1 .. n -> data.unspent] : n \in 0 .. MaxNamed}, NEW recipient \in Key,
              NEW amounts \in Amounts, ChooseInputs(manual, recipient, amounts)
       PROVE  SpendingInv'
  <2>1. tx' \in Tx
    BY <1>10, ChosenType
  <2> QED BY <1>a, <1>b, <1>10, <2>1, Zenon DEF ChooseInputs
<1>11. ASSUME NEW t \in pool, Include(t) PROVE SpendingInv'
  BY <1>11, IncludeStep
<1>12. ASSUME NEW ref \in NodeStorage, SpentElsewhere(ref) PROVE SpendingInv'
  <2>1. PICK i \in 1 .. Len(history) : ref \in Created(i)
    BY <1>12, LiveIs, Zenon DEF NodeStorage
  <2>2. ref \in Ref /\ CoinAt(ref) \in OwnedCoins
    BY <1>a, <2>1, CreatedIs
  <2>3. <<ref>> \in Seq(Ref) /\ <<CoinAt(ref)>> \in Seq(OwnedCoins)
    BY <2>2
  <2>4. NewTx(<<ref>>, <<CoinAt(ref)>>) \in Tx
    BY <2>3 DEF NewTx, Tx
  <2>5. pool' \subseteq Tx
    BY <1>a, <1>12, <2>4, Zenon DEF SpentElsewhere
  <2> QED BY <1>a, <1>b, <1>12, <2>5, Zenon DEF SpentElsewhere
<1>13. CASE UNCHANGED vars
  BY <1>a, <1>b, <1>13, Zenon DEF vars
<1> QED BY <1>1, <1>2, <1>3, <1>4, <1>5, <1>6, <1>7, <1>8, <1>9, <1>10, <1>11, <1>12, <1>13, Zenon DEF Next

(* The invariant always holds.                                             *)
THEOREM SpendingCorrect == Spec => []SpendingInv
<1> QED BY SpendingInit, SpendingStep, PTL DEF Spec

(* For any keys, genesis and amounts, any number of runs, with and without *)
(* --no-sync and --dev, and any transactions of others in between: the     *)
(* UNSPENT table never holds an output that was spent in the part of the   *)
(* chain that the database has seen.                                       *)
THEOREM AlwaysTracksSpendable == Spec => []TracksSpendable
<1>1. SpendingInv => TracksSpendable
  BY Zenon DEF SpendingInv, Knows, TracksSpendable
<1> QED BY <1>1, SpendingCorrect, PTL

(* And after catching up with the node, what get_balances adds up for a    *)
(* key that was in the keystore all along are exactly its coins on chain.  *)
THEOREM BalanceIsAlwaysOwned == Spec => []BalanceIsOwned
<1>1. SpendingInv => BalanceIsOwned
  <2> SUFFICES ASSUME SpendingInv, data.synced = Len(history), NEW k \in data.always
               PROVE  Balance(k) = Wrapped(Worth({ref \in NodeStorage : CoinAt(ref).owner = k}))
    BY Zenon DEF BalanceIsOwned
  <2>1. {ref \in data.unspent : CoinAt(ref).owner = k} = {ref \in NodeStorage : CoinAt(ref).owner = k}
    BY DEF SpendingInv, Knows, NodeStorage
  <2> QED BY <2>1, Zenon DEF Balance
<1> QED BY <1>1, SpendingCorrect, PTL
=============================================================================
