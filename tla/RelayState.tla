----------------------------- MODULE RelayState -----------------------------
(***************************************************************************)
(* Reading the state of the relay chain from a proof                       *)
(* (tuxedo-parachain-core/src/relay_state_snapshot.rs).  The relay chain   *)
(* goes on, block by block; a collator supplies a proof of one of its      *)
(* states, with the nodes of some keys, and it is read against the storage *)
(* root of a relay parent.  Nothing calls these readers yet: the only use, *)
(* in validate_block, is commented out.                                    *)
(*                                                                         *)
(* A storage root determines the state and a proof holds only nodes of the *)
(* state it was made from: hashes do not collide.                          *)
(***************************************************************************)
EXTENDS Integers, Sequences, FiniteSets

LOCAL INSTANCE SequencesExt
LOCAL INSTANCE FiniteSetsExt

CONSTANTS
    Para,           \* numbers of the other parachains
    Self,           \* the number of this one
    MaxQueue,       \* bound: messages in the upward queue, and its limit
    MaxRelay        \* bound: relay chain blocks

VARIABLES
    relay,          \* states of the relay chain, one for each block
    asked,          \* relay parent, block the proof is of, keys it lacks
    snapshot        \* what was read

vars == <<relay, asked, snapshot>>

Absent == [kind |-> "absent"]
Garbled == [kind |-> "garbled"]         \* bytes of another type
Entry(v) == [kind |-> "value", value |-> v]

Ok(v) == [ok |-> TRUE, value |-> v]
Err(what) == [ok |-> FALSE, error |-> what]

\* The well-known keys.
Channel(sender, recipient) == <<"channel", sender, recipient>>
Key == {<<"config">>, <<"head">>, <<"slot">>, <<"go_ahead">>, <<"restriction">>, <<"dmq">>, <<"capacity">>,
        <<"queue">>, <<"ingress">>, <<"egress">>}
       \cup {Channel(p, Self) : p \in Para} \cup {Channel(Self, p) : p \in Para}

ASSUME RelayStateAssumption ==
    /\ Self \in Nat /\ Para \subseteq Nat \ {Self}
    /\ MaxQueue \in Nat /\ MaxRelay \in Nat

-----------------------------------------------------------------------------
(* Reading one entry.                                                      *)

\* RelayChainStateProof::new: the proof has to have the root of the relay parent.
New(parent, of, missing) ==
    IF parent # of THEN Err("RootMismatch")
    ELSE Ok([key \in Key \ missing |-> relay[parent][key]])

\* Absent stands for a missing fallback.
read_entry(backend, key, fallback) ==
    IF key \notin DOMAIN backend THEN Err("Proof")
    ELSE IF backend[key] = Garbled THEN Err("Decode")
    ELSE IF backend[key] # Absent THEN Ok(backend[key].value)
    ELSE IF fallback # Absent THEN Ok(fallback.value) ELSE Err("Absent")

\* Mutant: an entry that cannot be read is one that is not there.
read_optional_entryLenient(backend, key) ==
    LET entry == read_entry(backend, key, Absent)
    IN  IF entry.ok THEN Ok(Entry(entry.value)) ELSE Ok(Absent)

\* Absent stands for None.
read_optional_entry(backend, key) ==
    LET entry == read_entry(backend, key, Absent)
    IN  IF entry.ok THEN Ok(Entry(entry.value))
        ELSE IF entry.error = "Absent" THEN Ok(Absent) ELSE entry

read_abridged_host_configuration(backend) == read_entry(backend, <<"config">>, Absent)
read_included_para_head(backend) == read_entry(backend, <<"head">>, Absent)
read_slot(backend) == read_entry(backend, <<"slot">>, Absent)
read_upgrade_go_ahead_signal(backend) == read_optional_entry(backend, <<"go_ahead">>)
read_upgrade_restriction_signal(backend) == read_optional_entry(backend, <<"restriction">>)

-----------------------------------------------------------------------------
(* read_messaging_state_snapshot.                                          *)

saturating_sub(a, b) == IF a >= b THEN a - b ELSE 0

\* The remaining capacity, or what the size of the queue leaves of the limit.
ReadCapacity(backend, config) ==
    LET capacity == read_optional_entry(backend, <<"capacity">>)
        queue == read_entry(backend, <<"queue">>, Entry(0))
    IN  IF ~capacity.ok THEN capacity
        ELSE IF capacity.value # Absent THEN Ok(capacity.value.value)
        ELSE IF queue.ok THEN Ok(saturating_sub(config, queue.value)) ELSE queue

\* Mutant: the roles of sender and recipient are exchanged.
ReadChannelsSwapped(backend, index, ingress) ==
    LET channel(p) == IF ingress THEN Channel(Self, p) ELSE Channel(p, Self)
        read == [i \in 1 .. Len(index) |-> read_entry(backend, channel(index[i]), Absent)]
    IN  IF \A i \in 1 .. Len(index) : read[i].ok
        THEN Ok([i \in 1 .. Len(index) |-> <<index[i], read[i].value>>])
        ELSE read[Min({i \in 1 .. Len(index) : ~read[i].ok})]

\* The channels that an index names, in its order.
ReadChannels(backend, index, ingress) ==
    LET channel(p) == IF ingress THEN Channel(p, Self) ELSE Channel(Self, p)
        read == [i \in 1 .. Len(index) |-> read_entry(backend, channel(index[i]), Absent)]
    IN  IF \A i \in 1 .. Len(index) : read[i].ok
        THEN Ok([i \in 1 .. Len(index) |-> <<index[i], read[i].value>>])
        ELSE read[Min({i \in 1 .. Len(index) : ~read[i].ok})]

Index(backend, ingress) ==
    read_entry(backend, IF ingress THEN <<"ingress">> ELSE <<"egress">>, Entry(<<>>))

read_messaging_state_snapshot(backend, config) ==
    LET dmq == read_entry(backend, <<"dmq">>, Entry(0))
        capacity == ReadCapacity(backend, config)
        index(ingress) == Index(backend, ingress)
        channels(ingress) == ReadChannels(backend, index(ingress).value, ingress)
    IN  IF ~dmq.ok THEN dmq
        ELSE IF ~capacity.ok THEN capacity
        ELSE IF ~index(TRUE).ok THEN index(TRUE)
        ELSE IF ~index(FALSE).ok THEN index(FALSE)
        ELSE IF ~channels(TRUE).ok THEN channels(TRUE)
        ELSE IF ~channels(FALSE).ok THEN channels(FALSE)
        ELSE Ok([dmq_mqc_head |-> dmq.value, capacity |-> capacity.value,
                 ingress_channels |-> channels(TRUE).value,
                 egress_channels |-> channels(FALSE).value])

\* What a caller would read: the configuration, the snapshot that needs it, the rest.
ReadAll(backend) ==
    LET config == read_abridged_host_configuration(backend)
        messaging == read_messaging_state_snapshot(backend, config.value)
        head == read_included_para_head(backend)
        slot == read_slot(backend)
        signal == read_upgrade_go_ahead_signal(backend)
        restriction == read_upgrade_restriction_signal(backend)
    IN  IF ~config.ok THEN config
        ELSE IF ~messaging.ok THEN messaging
        ELSE IF ~head.ok THEN head
        ELSE IF ~slot.ok THEN slot
        ELSE IF ~signal.ok THEN signal
        ELSE IF ~restriction.ok THEN restriction
        ELSE Ok([messaging |-> messaging.value, head |-> head.value,
                 slot |-> slot.value, signal |-> signal.value,
                 restriction |-> restriction.value])

-----------------------------------------------------------------------------
(* The relay chain.                                                        *)

Init ==
    /\ relay = <<[key \in Key |->
                     IF key = <<"config">> THEN Entry(MaxQueue)
                     ELSE IF key \in {<<"head">>, <<"slot">>} THEN Entry(1) ELSE Absent]>>
    /\ asked = <<>>
    /\ snapshot = Err("nothing read")

Tip == relay[Len(relay)]
Get(state, key, default) == IF state[key] = Absent THEN default ELSE state[key].value

\* Every block has its slot; entries as given by changes are replaced.
Block(changes) ==
    /\ Len(relay) < MaxRelay
    /\ relay' = Append(relay, [key \in Key |->
                                  IF key \in DOMAIN changes THEN changes[key]
                                  ELSE IF key = <<"slot">> THEN Entry(Tip[key].value + 1)
                                  ELSE Tip[key]])
    /\ asked' = <<>> /\ snapshot' = Err("nothing read")

Set1(key, entry) == [k \in {key} |-> entry]

\* The paras with an open channel, to or from us.
Open(state, ingress) ==
    {p \in Para : state[IF ingress THEN Channel(p, Self) ELSE Channel(Self, p)] # Absent}

\* hrmp: a channel is opened or closed and the index, which is sorted, follows.
Hrmp(p, ingress) ==
    LET key == IF ingress THEN Channel(p, Self) ELSE Channel(Self, p)
        index == IF ingress THEN <<"ingress">> ELSE <<"egress">>
        others == Open(Tip, ingress) \ {p}
        opens == Tip[key] = Absent
    IN  Block([k \in {key, index} |->
                  IF k = key THEN IF opens THEN Entry(key) ELSE Absent
                  ELSE Entry(SetToSortSeq(IF opens THEN others \cup {p} ELSE others, <))])

\* A message to us, the upward queue, its limit, a verdict on an upgrade, a ban on
\* signalling one.
Downward == Block(Set1(<<"dmq">>, Entry(Get(Tip, <<"dmq">>, 0) + 1)))
Upward(n) == Block(Set1(<<"queue">>, Entry(n)))
Limit(n) == Block(Set1(<<"config">>, Entry(n)))
GoAhead == Block(Set1(<<"go_ahead">>, Entry("go ahead")))
RestrictUpgrade == Block(Set1(<<"restriction">>, Entry("present")))

\* A relay chain that has the remaining capacity, now or in another encoding.
Capacity(n) == Block(Set1(<<"capacity">>, Entry(n)))
Reencode == Block(Set1(<<"capacity">>, Garbled))

-----------------------------------------------------------------------------
\* The keys a proof lacks, two at most: reading stops at the first it needs.
Missing == {{}} \cup {{k, l} : k, l \in Key}

\* A candidate's proof is read, once.
Read(parent, of, missing) ==
    LET backend == New(parent, of, missing)
    IN  /\ asked' = <<parent, of, missing>>
        /\ snapshot' = IF backend.ok THEN ReadAll(backend.value) ELSE backend
        /\ UNCHANGED relay

Next ==
    \/ \E p \in Para, ingress \in BOOLEAN : Hrmp(p, ingress)
    \/ Downward \/ GoAhead \/ RestrictUpgrade \/ Reencode
    \/ \E n \in 0 .. MaxQueue : Upward(n) \/ Limit(n) \/ Capacity(n)
    \/ /\ asked = <<>>
       /\ \E parent, of \in 1 .. Len(relay), missing \in Missing : Read(parent, of, missing)

Spec == Init /\ [][Next]_vars

-----------------------------------------------------------------------------
(* Properties.                                                             *)

\* The channels of a relay chain block itself, by para.
ChannelsOf(state, ingress) ==
    LET ps == SetToSortSeq(Open(state, ingress), <)
    IN  [i \in 1 .. Len(ps) |->
            <<ps[i], IF ingress THEN Channel(ps[i], Self) ELSE Channel(Self, ps[i])>>]

\* Whatever a proof lacks and whichever block it is of, what is read from it is what
\* the relay parent's state says: an entry is absent only if it is absent there, the
\* remaining capacity is the relay chain's or what the queue leaves, and the channels
\* are the open ones in order of their paras.
SnapshotIsRelayParents ==
    snapshot.ok =>
        LET state == relay[asked[1]]
            queue == Get(state, <<"queue">>, 0)
            limit == state[<<"config">>].value
            got == snapshot.value
        IN  /\ got.slot = asked[1]
            /\ got.signal = state[<<"go_ahead">>]
            /\ got.restriction = state[<<"restriction">>]
            /\ got.messaging.dmq_mqc_head = Get(state, <<"dmq">>, 0)
            /\ state[<<"capacity">>] # Garbled
            /\ got.messaging.capacity =
                   IF state[<<"capacity">>] # Absent THEN state[<<"capacity">>].value
                   ELSE IF queue <= limit THEN limit - queue ELSE 0
            /\ got.messaging.ingress_channels = ChannelsOf(state, TRUE)
            /\ got.messaging.egress_channels = ChannelsOf(state, FALSE)

\* A proof of the relay parent that lacks nothing is read without an error, as long
\* as the relay chain keeps its encoding.
FullProofIsRead ==
    asked # <<>> /\ asked[1] = asked[2] /\ asked[3] = {}
    => snapshot.ok \/ relay[asked[1]][<<"capacity">>] = Garbled
=============================================================================
