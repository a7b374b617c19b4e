------------------------------- MODULE HostKeys -------------------------------
(***************************************************************************)
(* The keys of SSH servers are trusted on first use (known_hosts.go): each *)
(* dial of main.go is given the store that keeps them in the table         *)
(* ssh_known_hosts, one row per tenant, host, port and algorithm.  A link  *)
(* is one dial and the session it opens.  Dials run at once, and a host    *)
(* may answer two of them with different keys: it was replaced in between, *)
(* or two machines share the address.                                      *)
(***************************************************************************)
EXTENDS Naturals, FiniteSets

CONSTANTS Links,
          Hosts, LinkHost,  \* tenant, host and port; the one a link dials
          Algorithms, Keys, NoKey,
          MaxUnpins         \* bound: how often an operator deletes a row

ASSUME LinkHostAssumption == LinkHost \in [Links -> Hosts]
ASSUME NoKeyAssumption == NoKey \notin Keys

VARIABLES
    pins,       \* ssh_known_hosts.public_key, by host and algorithm
    unpins,     \* rows deleted so far
    stage,      \* what each link does next
    offered,    \* the algorithm and key its server presented
    trusted     \* history: keys accepted under each pin since its row was inserted

hostKeyVars == <<pins, unpins, offered, trusted>>

Slots == Hosts \X Algorithms
SlotOf(l) == <<LinkHost[l], offered[l].algorithm>>
NoOffer == [algorithm |-> CHOOSE a \in Algorithms : TRUE, key |-> NoKey]
Offer == [algorithm : Algorithms, key : Keys]

HostKeysInit ==
    /\ pins = [s \in Slots |-> NoKey] /\ unpins = 0
    /\ offered = [l \in Links |-> NoOffer]
    /\ trusted = [s \in Slots |-> {}]

Goto(l, s) == stage' = [stage EXCEPT ![l] = s]

Forget(l) == offered' = [offered EXCEPT ![l] = NoOffer]

\* The callback returns nil: the handshake goes on with the key it was shown.
Accept(l) ==
    /\ Goto(l, "admitted") /\ Forget(l)
    /\ trusted' = [trusted EXCEPT ![SlotOf(l)] = @ \cup {offered[l].key}]

Refuse(l) == Goto(l, "idle") /\ Forget(l) /\ UNCHANGED trusted

\* The connection is there and the server has presented a key.
Handshake(l) ==
    /\ stage[l] = "connect"
    /\ \E o \in Offer : offered' = [offered EXCEPT ![l] = o]
    /\ Goto(l, "check")
    /\ UNCHANGED <<pins, unpins, trusted>>

Check(l) ==
    /\ stage[l] = "check"
    /\ LET pin == pins[SlotOf(l)] IN
       \/ pin = NoKey /\ Goto(l, "add") /\ UNCHANGED <<offered, trusted>>
       \/ pin = offered[l].key /\ Accept(l)
       \/ pin \notin {NoKey, offered[l].key} /\ Refuse(l)
    /\ UNCHANGED <<pins, unpins>>

\* Mutated form: a conflict is taken for success, as MemKnownHostsStore.Add does.
AddQuietly(l) ==
    /\ stage[l] = "add"
    /\ pins' = [pins EXCEPT ![SlotOf(l)] = IF @ = NoKey THEN offered[l].key ELSE @]
    /\ Accept(l)
    /\ UNCHANGED unpins

\* INSERT ... ON CONFLICT DO NOTHING.
Add(l) ==
    /\ stage[l] = "add"
    /\ \/ /\ pins[SlotOf(l)] = NoKey
          /\ pins' = [pins EXCEPT ![SlotOf(l)] = offered[l].key]
          /\ Accept(l)
       \/ /\ pins[SlotOf(l)] # NoKey
          /\ Goto(l, "compare")
          /\ UNCHANGED <<pins, offered, trusted>>
    /\ UNCHANGED unpins

\* After a conflict the row is read again; it may have been deleted meanwhile.
CompareStored(l) ==
    /\ stage[l] = "compare"
    /\ IF pins[SlotOf(l)] = offered[l].key THEN Accept(l) ELSE Refuse(l)
    /\ UNCHANGED <<pins, unpins>>

\* The host is away or refuses the login, a statement fails, or the context ends.
DialFails(l) ==
    /\ stage[l] \in {"connect", "check", "add", "compare", "admitted"}
    /\ Refuse(l)
    /\ UNCHANGED <<pins, unpins>>

\* An operator deletes the row of a host whose key has rightly changed.
Unpin(s) ==
    /\ unpins < MaxUnpins /\ pins[s] # NoKey
    /\ pins' = [pins EXCEPT ![s] = NoKey] /\ unpins' = unpins + 1
    /\ trusted' = [trusted EXCEPT ![s] = {}]
    /\ UNCHANGED <<stage, offered>>

HostKeyStep(l) == Handshake(l) \/ Check(l) \/ Add(l) \/ CompareStored(l) \/ DialFails(l)

HostKeysTypeOK ==
    /\ pins \in [Slots -> Keys \cup {NoKey}] /\ unpins \in 0 .. MaxUnpins
    /\ offered \in [Links -> Offer \cup {NoOffer}]
    /\ trusted \in [Slots -> SUBSET Keys]

(***************************************************************************)
(* However dials and deletions interleave, the keys under which links were *)
(* admitted to a host are the one key that is pinned for it: two first     *)
(* connections at once never trust two keys, and none is trusted without   *)
(* its row (known_hosts.go, DBKnownHostsStore.Add, knownHostsCallback).    *)
(***************************************************************************)
TrustedKeysArePinned == \A s \in Slots : trusted[s] \subseteq {pins[s]}
===============================================================================
