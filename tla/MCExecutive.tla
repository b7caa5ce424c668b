----------------------------- MODULE MCExecutive -----------------------------
(***************************************************************************)
(* A small instance of Executive.  Genesis holds an inherent and a coin.   *)
(* The transactions conflict over the coin (spend, burn), depend on one    *)
(* another (claim on spend and ts), depend on the height (claim), recreate *)
(* an output (mint), and write storage from their checker (info, which     *)
(* like SetParachainInfo is an inherent that must bring news).             *)
(***************************************************************************)
EXTENDS ExecutiveRefinement

MCHash == {"ts", "info", "mint", "spend", "burn", "claim"}

\* The coin listed twice, under one and under two signatures of its owner.
MCTwiceHash == {"ts", "mint", "dup", "twice"}

Ref(h) == [tx_hash |-> h, index |-> 0]
In(h, redeemer) == [output_ref |-> Ref(h), redeemer |-> redeemer]
Out(payload, verifier) == [payload |-> payload, verifier |-> verifier]
Tx(inputs, peeks, outputs, checker) ==
    [inputs |-> inputs, peeks |-> peeks, outputs |-> outputs, checker |-> checker]

MCBody == [h \in Hash |->
    CASE h = "ts"      -> Tx(<<>>, <<>>, <<Out("time", "open")>>, "inherent")
      [] h = "info"    -> Tx(<<>>, <<Ref("ts")>>, <<>>, "info")
      [] h = "mint"    -> Tx(<<>>, <<>>, <<Out("coin", "sig")>>, "permit")
      [] h = "spend"   -> Tx(<<In("mint", "good")>>, <<>>, <<Out("coin", "late")>>, "permit")
      [] h = "burn"    -> Tx(<<In("mint", "evict")>>, <<>>, <<>>, "evict")
      [] h = "dup"     -> Tx(<<In("mint", "good"), In("mint", "good")>>, <<>>, <<>>, "permit")
      [] h = "twice"   -> Tx(<<In("mint", "good"), In("mint", "other")>>, <<>>,
                             <<Out("coin", "sig")>>, "permit")
      [] h = "claim"   -> Tx(<<In("spend", "good")>>, <<Ref("ts")>>, <<>>, "permit")]

\* "sig" takes any signature by its owner, "late" only from height 2 on.
MCVerify(verifier, stripped, height, redeemer) ==
    CASE verifier = "open" -> TRUE
      [] verifier = "sig"  -> redeemer \in {"good", "other"}
      [] verifier = "late" -> redeemer = "good" /\ height >= 2

\* "info" is refused once done, "evict" insists on an eviction, and the
\* others, being simple constraint checkers, refuse any.
MCCheck(checker, data, height, aux) ==
    CASE checker = "info"  -> aux = "old"
      [] checker = "evict" -> data.evicted # <<>>
      [] OTHER             -> data.evicted = <<>>

\* The news is written before it is known whether it is any.
MCCheckWrites(h, aux, ok) == IF MCBody[h].checker = "info" THEN "new" ELSE aux

MCIsInherent(checker) == checker \in {"inherent", "info"}

MCGenesis == <<"ts", "mint">>

=============================================================================
