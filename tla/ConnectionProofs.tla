---------------------------- MODULE ConnectionProofs ----------------------------
(***************************************************************************)
(* Theorems about the two kinds of connection the core has.                *)
(*                                                                         *)
(* To its devices (DeviceLink): types; the keys that SSH dials trust are   *)
(* pinned; the output a script collects answers its own command; browsers  *)
(* are sent whole frames.  The inductive invariant has a part for each of  *)
(* the composed modules, and a step of one leaves the parts of the others  *)
(* alone but for the stage of a link that dials.                           *)
(*                                                                         *)
(* From its remote pollers (PollerSessions): types; work is claimed and    *)
(* ended by registered pollers; a session is a lease from the last proof   *)
(* of the token; a message passes the replay check once.                   *)
(***************************************************************************)
EXTENDS DeviceLink, PollerSessions, TLAPS, FiniteSetTheorems

(***************************************************************************)
(* Host keys.  Only the steps of HostKeys touch the pins, so the argument  *)
(* is about them; of every other step it is enough to know that it does    *)
(* not put a link into the middle of the host-key check.                   *)
(***************************************************************************)

\* Where the callback has still to decide about the key it was shown.
Undecided == {"check", "add", "compare"}

\* A link in the middle of the check has been shown a real key.
ShownKeys == \A l \in Links : stage[l] \in Undecided => offered[l] \in Offer

PinsTypeOK ==
    /\ pins \in [Slots -> Keys \cup {NoKey}]
    /\ trusted \in [Slots -> SUBSET Keys]
    /\ DOMAIN stage = Links
    /\ DOMAIN offered = Links

KeysInv == PinsTypeOK /\ ShownKeys /\ TrustedKeysArePinned

LEMMA KeysInit == Init => KeysInv
  BY DEF Init, HostKeysInit, KeysInv, PinsTypeOK, ShownKeys, TrustedKeysArePinned, Undecided

\* The key a link is shown falls under a slot of its host.
LEMMA SlotsOfLinks ==
  ASSUME NEW l \in Links, offered[l] \in Offer
  PROVE  /\ SlotOf(l) \in Slots
         /\ offered[l].key \in Keys
         /\ offered[l].key # NoKey
  BY LinkHostAssumption, NoKeyAssumption DEF Offer, SlotOf, Slots

\* A key that is accepted while it is pinned stays the only one.
LEMMA AcceptKeeps ==
  ASSUME NEW l \in Links, KeysInv, offered[l] \in Offer, Accept(l),
         pins' \in [Slots -> Keys \cup {NoKey}],
         pins'[SlotOf(l)] = offered[l].key,
         pins[SlotOf(l)] \in {NoKey, offered[l].key},
         \A s \in Slots \ {SlotOf(l)} : pins'[s] = pins[s]
  PROVE  KeysInv'
<1> DEFINE s0 == SlotOf(l)
<1> DEFINE k == offered[l].key
<1>1. s0 \in Slots /\ k \in Keys
  BY SlotsOfLinks
<1>2. trusted' = [trusted EXCEPT ![s0] = @ \cup {k}]
  BY DEF Accept
<1>3. trusted[s0] \subseteq {k}
  BY <1>1, NoKeyAssumption DEF KeysInv, PinsTypeOK, TrustedKeysArePinned
<1>4. TrustedKeysArePinned'
  BY <1>1, <1>2, <1>3 DEF KeysInv, PinsTypeOK, TrustedKeysArePinned
<1>5. PinsTypeOK'
  <2>1. trusted' \in [Slots -> SUBSET Keys]
    <3> HIDE DEF s0, k
    <3>1. trusted \in [Slots -> SUBSET Keys]
      BY DEF KeysInv, PinsTypeOK
    <3>2. trusted[s0] \cup {k} \in SUBSET Keys
      BY <1>1, <3>1
    <3> QED
      BY <1>2, <3>1, <3>2
  <2>2. DOMAIN stage' = Links /\ DOMAIN offered' = Links
    BY DEF KeysInv, PinsTypeOK, Accept, Goto, Forget
  <2> QED
    BY <2>1, <2>2 DEF PinsTypeOK
<1>6. ShownKeys'
  BY DEF KeysInv, PinsTypeOK, ShownKeys, Accept, Goto, Forget, Undecided
<1> QED
  BY <1>4, <1>5, <1>6 DEF KeysInv

LEMMA RefuseKeeps ==
  ASSUME NEW l \in Links, KeysInv, Refuse(l), pins' = pins
  PROVE  KeysInv'
  BY DEF KeysInv, PinsTypeOK, ShownKeys, TrustedKeysArePinned, Refuse, Goto, Forget, Undecided

LEMMA HandshakeKeeps ==
  ASSUME NEW l \in Links, KeysInv, Handshake(l)
  PROVE  KeysInv'
<1>1. PICK o \in Offer : offered' = [offered EXCEPT ![l] = o]
  BY DEF Handshake
<1> QED
  BY <1>1 DEF KeysInv, PinsTypeOK, ShownKeys, TrustedKeysArePinned, Handshake, Goto, Undecided

LEMMA CheckKeeps ==
  ASSUME NEW l \in Links, KeysInv, Check(l)
  PROVE  KeysInv'
<1>1. offered[l] \in Offer
  BY DEF KeysInv, ShownKeys, Check, Undecided
<1>2. CASE pins[SlotOf(l)] = NoKey /\ Goto(l, "add") /\ UNCHANGED <<offered, trusted>>
  BY <1>1, <1>2 DEF KeysInv, PinsTypeOK, ShownKeys, TrustedKeysArePinned, Check, Goto, Undecided
<1>3. CASE pins[SlotOf(l)] = offered[l].key /\ Accept(l)
  BY <1>1, <1>3, AcceptKeeps DEF KeysInv, PinsTypeOK, Check
<1>4. CASE Refuse(l)
  BY <1>4, RefuseKeeps DEF Check
<1> QED
  BY <1>2, <1>3, <1>4 DEF Check

LEMMA AddKeeps ==
  ASSUME NEW l \in Links, KeysInv, Add(l)
  PROVE  KeysInv'
<1>1. offered[l] \in Offer
  BY DEF KeysInv, ShownKeys, Add, Undecided
<1>2. CASE /\ pins[SlotOf(l)] = NoKey
           /\ pins' = [pins EXCEPT ![SlotOf(l)] = offered[l].key]
           /\ Accept(l)
  <2>1. SlotOf(l) \in Slots /\ offered[l].key \in Keys
    BY <1>1, SlotsOfLinks
  <2> QED
    BY <1>1, <1>2, <2>1, AcceptKeeps DEF KeysInv, PinsTypeOK
<1>3. CASE Goto(l, "compare") /\ UNCHANGED <<pins, offered, trusted>>
  BY <1>1, <1>3 DEF KeysInv, PinsTypeOK, ShownKeys, TrustedKeysArePinned, Goto, Undecided
<1> QED
  BY <1>2, <1>3 DEF Add

LEMMA CompareKeeps ==
  ASSUME NEW l \in Links, KeysInv, CompareStored(l)
  PROVE  KeysInv'
<1>1. offered[l] \in Offer
  BY DEF KeysInv, ShownKeys, CompareStored, Undecided
<1>2. CASE pins[SlotOf(l)] = offered[l].key
  BY <1>1, <1>2, AcceptKeeps DEF KeysInv, PinsTypeOK, CompareStored
<1>3. CASE pins[SlotOf(l)] # offered[l].key
  BY <1>3, RefuseKeeps DEF CompareStored
<1> QED
  BY <1>2, <1>3

\* Deleting a row forgets what was trusted under it.
LEMMA UnpinKeeps ==
  ASSUME NEW s \in Slots, KeysInv, Unpin(s)
  PROVE  KeysInv'
  BY DEF KeysInv, PinsTypeOK, ShownKeys, TrustedKeysArePinned, Unpin

\* A step that leaves the pins alone, and all links but l, which it does not put
\* into the check.
Elsewhere(l) ==
    /\ UNCHANGED hostKeyVars
    /\ \/ UNCHANGED stage
       \/ \E s : s \notin Undecided /\ stage' = [stage EXCEPT ![l] = s]

LEMMA ElsewhereKeeps ==
  ASSUME KeysInv, NEW l \in Links, Elsewhere(l)
  PROVE  KeysInv' /\ \A k \in Links \ {l} : stage'[k] = stage[k]
  BY DEF KeysInv, PinsTypeOK, ShownKeys, TrustedKeysArePinned, Elsewhere, hostKeyVars

LEMMA ScriptsAreElsewhere ==
  ASSUME NEW l \in ScriptLinks, ScriptStep(l)
  PROVE  Elsewhere(l)
<1> l \in Links
  BY ScriptLinksAssumption
<1>1. CASE Dial(l) \/ Start(l)
  BY <1>1 DEF Dial, Start, Goto, Elsewhere, Undecided
<1>2. CASE Write(l)
  BY <1>2 DEF Write, Fail, Stop, NextCommand, Goto, Elsewhere, Undecided
<1>3. CASE LoopTop(l)
  BY <1>3 DEF LoopTop, Fail, Stop, NextCommand, Goto, Elsewhere, Undecided
<1>4. CASE Receive(l)
  BY <1>4 DEF Receive, Succeed, Stop, NextCommand, Goto, Elsewhere, Undecided
<1>5. CASE ReachEOF(l)
  BY <1>5 DEF ReachEOF, Succeed, Fail, Stop, NextCommand, Goto, Elsewhere, Undecided
<1>6. CASE GiveUp(l)
  BY <1>6 DEF GiveUp, Fail, Stop, NextCommand, Goto, Elsewhere, Undecided
<1>7. CASE StrayRead(l) \/ Say(l) \/ HangUp(l) \/ Expire(l) \/ Cancel(l)
  BY <1>7 DEF StrayRead, Say, HangUp, Expire, Cancel, Elsewhere
<1>8. CASE Rest(l)
  BY <1>8 DEF Rest, Goto, Elsewhere, Undecided
<1> QED
  BY <1>1, <1>2, <1>3, <1>4, <1>5, <1>6, <1>7, <1>8 DEF ScriptStep, ProgramStep

LEMMA TerminalsAreElsewhere ==
  ASSUME NEW t \in TerminalLinks, TerminalStep(t)
  PROVE  Elsewhere(t)
<1> t \in Links
  BY TerminalLinksAssumption
<1>1. CASE HandlerStep(t)
  BY <1>1 DEF HandlerStep, OpenTerminal, InsertRow, Type, Forward, Ping, BadFrame, Leave,
              AnswerHeader, AnswerPayload, AnswerFails, Save, Goto, Elsewhere, Undecided
<1>2. CASE CopierStep(t)
  BY <1>2 DEF CopierStep, CopierRead, CopierRecord, CopierHeader, CopierPayload, CopierFails,
              CopierBye, Elsewhere
<1>3. CASE BrowserGoes(t)
  BY <1>3 DEF BrowserGoes, Elsewhere
<1>4. CASE Clear(t)
  BY <1>4 DEF Clear, Goto, Elsewhere, Undecided
<1> QED
  BY <1>1, <1>2, <1>3, <1>4 DEF TerminalStep

LEMMA KeysNext == KeysInv /\ [Next]_vars => KeysInv'
<1> SUFFICES ASSUME KeysInv, [Next]_vars PROVE KeysInv'
  OBVIOUS
<1>1. ASSUME NEW l \in Links, HostKeyNext(l) PROVE KeysInv'
  <2>1. CASE Handshake(l) BY <2>1, HandshakeKeeps
  <2>2. CASE Check(l) BY <2>2, CheckKeeps
  <2>3. CASE Add(l) BY <2>3, AddKeeps
  <2>4. CASE CompareStored(l) BY <2>4, CompareKeeps
  <2>5. CASE DialFails(l) BY <2>5, RefuseKeeps DEF DialFails
  <2> QED
    BY <1>1, <2>1, <2>2, <2>3, <2>4, <2>5 DEF HostKeyNext, HostKeyStep
<1>2. ASSUME NEW s \in Slots, UnpinNext(s) PROVE KeysInv'
  BY <1>2, UnpinKeeps DEF UnpinNext
<1>3. ASSUME NEW l \in ScriptLinks, ScriptNext(l) PROVE KeysInv'
  BY <1>3, ScriptLinksAssumption, ScriptsAreElsewhere, ElsewhereKeeps DEF ScriptNext
<1>4. ASSUME NEW t \in TerminalLinks, TerminalNext(t) PROVE KeysInv'
  BY <1>4, TerminalLinksAssumption, TerminalsAreElsewhere, ElsewhereKeeps DEF TerminalNext
<1>5. CASE UNCHANGED vars
  BY <1>5 DEF vars, hostKeyVars, KeysInv, PinsTypeOK, ShownKeys, TrustedKeysArePinned
<1> QED
  BY <1>1, <1>2, <1>3, <1>4, <1>5 DEF Next

-------------------------------------------------------------------------------
(***************************************************************************)
(* Sessions that run a script.  A session is behind when it gave up a read *)
(* because its deadline had passed: from then on its loop fails before     *)
(* every read.  Otherwise it has read exactly the answers to its earlier   *)
(* requests and what it has in the buffer, unless the device is gone.      *)
(***************************************************************************)

Before == {"idle"} \cup DialStages

SessionTypes ==
    /\ stage \in [Links -> Before \cup SessionStages]
    /\ driver \in [ScriptLinks -> DriverNames]
    /\ turn \in [ScriptLinks -> Nat] /\ asked \in [ScriptLinks -> Nat]
    /\ said \in [ScriptLinks -> Nat] /\ read \in [ScriptLinks -> Nat]
    /\ strays \in [ScriptLinks -> Nat]
    /\ buffer \in [ScriptLinks -> SUBSET Nat]
    /\ hungUp \in [ScriptLinks -> BOOLEAN]
    /\ expired \in [ScriptLinks -> BOOLEAN] /\ cancelled \in [ScriptLinks -> BOOLEAN]
    /\ artifacts \in [ScriptLinks -> SUBSET [request : Nat, parts : SUBSET Nat]]

Fresh(l) ==
    /\ turn[l] = 0 /\ asked[l] = 0 /\ said[l] = 0 /\ read[l] = 0 /\ strays[l] = 0
    /\ buffer[l] = {} /\ artifacts[l] = {}
    /\ ~hungUp[l] /\ ~expired[l] /\ ~cancelled[l]

\* The numbers of a session, whether it is behind or not.
Counts(l) ==
    /\ read[l] <= said[l] /\ said[l] <= 2 * asked[l]
    /\ strays[l] <= asked[l] /\ buffer[l] \subseteq 1 .. read[l]
    /\ artifacts[l] \subseteq [request : 1 .. asked[l], parts : SUBSET (1 .. read[l])]
    /\ turn[l] <= Len(Script(l)) + 1 /\ asked[l] <= Len(Script(l)) + 1
    /\ stage[l] \in Before => Fresh(l)
    /\ stage[l] = "write" => 1 <= turn[l] /\ turn[l] <= Len(Script(l)) /\ asked[l] <= turn[l]
    /\ stage[l] \in {"top", "wait"} =>
           /\ turn[l] <= Len(Script(l)) /\ asked[l] <= turn[l] + 1
           /\ 1 <= asked[l] /\ strays[l] < asked[l]

Behind(l) == Transport(l) \in {"shell", "telnet"} /\ expired[l]

Own(n) == {2 * n - 1, 2 * n}

\* The device is gone, and nothing it sent is left to be read.
Exhausted(l) == hungUp[l] /\ read[l] = said[l]

AtWrite(l) == read[l] = 2 * asked[l] \/ Exhausted(l)

AtRead(l) ==
    \/ read[l] = 2 * asked[l] - 2 /\ buffer[l] = {}
    \/ read[l] = 2 * asked[l] - 1 /\ buffer[l] = {2 * asked[l] - 1}
    \/ Exhausted(l) /\ buffer[l] \subseteq Own(asked[l])

ArtifactOK(l, a) == a.parts \subseteq Own(a.request) /\ (hungUp[l] \/ a.parts = Own(a.request))

InStep(l) ==
    /\ \A a \in artifacts[l] : ArtifactOK(l, a)
    /\ stage[l] = "write" => Behind(l) \/ (strays[l] = 0 /\ AtWrite(l))
    /\ stage[l] = "top" => Behind(l) \/ (strays[l] = 0 /\ AtRead(l))
    /\ stage[l] = "wait" => strays[l] = 0 /\ AtRead(l)

SessionInv(l) == Counts(l) /\ (cancelled[l] \/ InStep(l))

SessionsInv == SessionTypes /\ \A l \in ScriptLinks : SessionInv(l)

\* What the scripts of all drivers have in common.
LEMMA ScriptLengths ==
  ASSUME NEW d \in DriverNames
  PROVE  Len(registry[d]) \in Nat \ {0}
<1>1. d \in {"cisco_ios", "cisco_nxos", "cisco_iosxr", "arista_eos", "junos_cli",
             "mikrotik_routeros", "nokia_sros", "bdcom_os", "vsol_os", "dbc_os", "generic_ssh",
             "generic_telnet", "fortios", "paloalto_panos", "huawei_vrp", "cisco_netconf",
             "junos_netconf", "restconf", "gnmi"}
  BY DriversAssumption DEF registry
<1>2. registry[d] \in {ciscoIOS, ciscoNXOS, ciscoIOSXR, aristaEOS, junosCLI, mikrotikROS, nokiaSROS,
                       bdcomOS, vsolOS, dbcOS, genericSSH, genericTelnet, fortiosDriver,
                       paloaltoPANOS, huaweiVRP, ciscoNetconf, junosNetconf, restconfDriver,
                       gnmiDriver}
  BY <1>1 DEF registry
<1>3. \A a, b, c, e : /\ Len(<<a>>) = 1 /\ Len(<<a, b>>) = 2 /\ Len(<<a, b, c>>) = 3
                     /\ Len(<<a, b, c, e>>) = 4
  OBVIOUS
<1> QED
  BY <1>2, <1>3
  DEF ciscoIOS, ciscoNXOS, ciscoIOSXR, aristaEOS, junosCLI, mikrotikROS, nokiaSROS, bdcomOS,
      vsolOS, dbcOS, genericSSH, genericTelnet, fortiosDriver, paloaltoPANOS, huaweiVRP,
      ciscoNetconf, junosNetconf, restconfDriver, gnmiDriver

\* Over NETCONF and HTTP, where a request may time out by itself, only the last
\* command of a script may fail.
LEMMA TimedScripts ==
  ASSUME NEW d \in DriverNames, sessionFactoryForDriver(d) \in {"netconf", "http"},
         NEW n \in Nat \ {0}, n < Len(registry[d])
  PROVE  registry[d][n] \in {"must", "show"}
<1>1. d \in {"cisco_netconf", "junos_netconf", "restconf", "gnmi"}
  BY DEF sessionFactoryForDriver
<1>2. registry[d] \in {<<"show">>, <<"show", "showMay">>}
  BY <1>1 DEF registry, ciscoNetconf, junosNetconf, restconfDriver, gnmiDriver
<1>3. Len(<<"show">>) = 1 /\ Len(<<"show", "showMay">>) = 2
  OBVIOUS
<1>4. CASE registry[d] = <<"show">>
  BY <1>3, <1>4
<1>5. CASE registry[d] = <<"show", "showMay">>
  <2>1. n = 1
    BY <1>3, <1>5
  <2> QED
    BY <1>5, <2>1
<1> QED
  BY <1>2, <1>4, <1>5

LEMMA SessionsInit == Init => SessionsInv
<1> SUFFICES ASSUME Init PROVE SessionsInv
  OBVIOUS
<1> USE DEF Init, DeviceSessionInit, Zero, Never
<1>1. SessionTypes
  BY ScriptLinksAssumption DEF SessionTypes, Before
<1>2. ASSUME NEW l \in ScriptLinks PROVE SessionInv(l)
  <2>1. stage[l] = "idle" /\ Fresh(l)
    BY <1>2, ScriptLinksAssumption DEF Fresh
  <2>2. Len(Script(l)) \in Nat
    BY <1>1, ScriptLengths DEF SessionTypes, Script
  <2> QED
    BY <2>1, <2>2 DEF SessionInv, Counts, InStep, Fresh
<1> QED
  BY <1>1, <1>2 DEF SessionsInv

\* What a step of link l leaves alone of the session of link k.
Kept(k) ==
    /\ stage'[k] = stage[k] /\ driver'[k] = driver[k] /\ turn'[k] = turn[k]
    /\ asked'[k] = asked[k] /\ said'[k] = said[k] /\ read'[k] = read[k]
    /\ strays'[k] = strays[k] /\ buffer'[k] = buffer[k] /\ hungUp'[k] = hungUp[k]
    /\ expired'[k] = expired[k] /\ cancelled'[k] = cancelled[k]
    /\ artifacts'[k] = artifacts[k]

LEMMA KeptKeeps ==
  ASSUME NEW k \in ScriptLinks, SessionInv(k), Kept(k)
  PROVE  SessionInv(k)'
  BY DEF SessionInv, Counts, Fresh, InStep, ArtifactOK, AtWrite, AtRead, Exhausted, Behind, Kept,
         Transport, Script

LEMMA OneSession ==
  ASSUME SessionsInv, SessionTypes', NEW l \in ScriptLinks, SessionInv(l)',
         \A k \in ScriptLinks \ {l} : Kept(k)
  PROVE  SessionsInv'
<1>1. ASSUME NEW k \in ScriptLinks PROVE SessionInv(k)'
  <2>1. CASE k = l BY <2>1
  <2>2. CASE k # l BY <2>2, KeptKeeps DEF SessionsInv
  <2> QED BY <2>1, <2>2
<1> QED
  BY <1>1 DEF SessionsInv

LEMMA ScriptTypes ==
  ASSUME SessionTypes, NEW l \in ScriptLinks
  PROVE  /\ l \in Links
         /\ Len(Script(l)) \in Nat \ {0}
         /\ Transport(l) \in {"netconf", "http"} =>
                \A n \in Nat \ {0} : n < Len(Script(l)) => Script(l)[n] \in {"must", "show"}
  BY ScriptLinksAssumption, ScriptLengths, TimedScripts DEF SessionTypes, Script, Transport

\* How the script goes on after a command: it ends, or writes the next one.
Ends(l) ==
    /\ stage' = [stage EXCEPT ![l] = "closed"]
    /\ \E n \in {turn[l], turn[l] + 1} : turn' = [turn EXCEPT ![l] = n]

Continues(l) ==
    /\ turn[l] < Len(Script(l))
    /\ stage' = [stage EXCEPT ![l] = "write"]
    /\ turn' = [turn EXCEPT ![l] = turn[l] + 1]

LEMMA NextCommandForm ==
  ASSUME SessionTypes, NEW l \in ScriptLinks, turn[l] <= Len(Script(l)), NextCommand(l)
  PROVE  Ends(l) \/ Continues(l)
<1>1. turn[l] \in Nat /\ Len(Script(l)) \in Nat
  BY ScriptTypes DEF SessionTypes
<1>2. CASE turn[l] = Len(Script(l))
  BY <1>2 DEF NextCommand, Goto, Ends
<1>3. CASE turn[l] # Len(Script(l))
  BY <1>1, <1>3 DEF NextCommand, Goto, Continues
<1> QED
  BY <1>2, <1>3

LEMMA StopForm ==
  ASSUME SessionTypes, NEW l \in ScriptLinks, Stop(l)
  PROVE  Ends(l)
  BY DEF SessionTypes, Stop, Goto, Ends

\* A session that may time out by itself does not go on after a failure.
LEMMA FailForm ==
  ASSUME SessionTypes, NEW l \in ScriptLinks, turn[l] <= Len(Script(l)), Fail(l)
  PROVE  /\ artifacts' = artifacts
         /\ \/ Ends(l)
            \/ Continues(l) /\ Transport(l) \notin {"netconf", "http"}
<1>1. artifacts' = artifacts
  BY DEF Fail
<1>2. CASE Stop(l)
  BY <1>1, <1>2, StopForm
<1>3. CASE NextCommand(l) /\ Transport(l) \notin {"netconf", "http"}
  BY <1>1, <1>3, NextCommandForm
<1>4. CASE NextCommand(l) /\ Transport(l) \in {"netconf", "http"}
  <2>1. CASE Ends(l)
    BY <1>1, <2>1
  <2>2. CASE Continues(l) /\ turn[l] = 0 /\ Fail(l)
    BY <1>1, <1>4, <2>2, StopForm DEF Fail
  <2>3. CASE Continues(l) /\ turn[l] # 0 /\ Fail(l)
    <3>1. turn[l] \in Nat \ {0} /\ turn[l] < Len(Script(l))
      BY <2>3 DEF Continues, SessionTypes
    <3>2. Script(l)[turn[l]] \in {"must", "show"}
      BY <1>4, <3>1, ScriptTypes
    <3> QED
      BY <1>1, <2>3, <3>2, StopForm DEF Fail
  <2> QED
    BY <1>4, <2>1, <2>2, <2>3, NextCommandForm
<1> QED
  BY <1>2, <1>3, <1>4 DEF Fail

LEMMA SucceedForm ==
  ASSUME SessionTypes, NEW l \in ScriptLinks, turn[l] <= Len(Script(l)), Succeed(l)
  PROVE  /\ artifacts' \in {artifacts, [artifacts EXCEPT ![l] = @ \cup {Collected(l)}]}
         /\ Ends(l) \/ Continues(l)
  BY StopForm, NextCommandForm DEF Succeed

-------------------------------------------------------------------------------

LEMMA GotoTypes ==
  ASSUME SessionTypes, NEW l \in Links, NEW s \in Before \cup SessionStages, Goto(l, s)
  PROVE  stage' \in [Links -> Before \cup SessionStages] /\ stage'[l] = s
  BY DEF Goto, SessionTypes

LEMMA FormTypes ==
  ASSUME SessionTypes, NEW l \in ScriptLinks, Ends(l) \/ Continues(l)
  PROVE  /\ stage' \in [Links -> Before \cup SessionStages]
         /\ turn' \in [ScriptLinks -> Nat]
<1>1. l \in Links /\ turn[l] \in Nat
  BY ScriptLinksAssumption DEF SessionTypes
<1>2. "closed" \in SessionStages /\ "write" \in SessionStages
  BY DEF SessionStages
<1>3. stage' \in [Links -> Before \cup SessionStages]
  BY <1>1, <1>2 DEF Ends, Continues, SessionTypes
<1>4. PICK n \in Nat : turn' = [turn EXCEPT ![l] = n]
  BY <1>1 DEF Ends, Continues
<1>5. turn' \in [ScriptLinks -> Nat]
  BY <1>4 DEF SessionTypes
<1> QED
  BY <1>3, <1>5

LEMMA DialSession ==
  ASSUME SessionsInv, NEW l \in ScriptLinks, Dial(l) PROVE SessionsInv'
<1>1. l \in Links
  BY ScriptLinksAssumption
<1>2. /\ stage' = [stage EXCEPT ![l] = stage'[l]] /\ stage'[l] \in {"connect", "admitted"}
      /\ stage[l] = "idle" /\ UNCHANGED sessionVars
  BY <1>1 DEF Dial, Goto, SessionsInv, SessionTypes
<1>3. SessionTypes'
  BY <1>1, <1>2 DEF SessionsInv, SessionTypes, Before, DialStages, sessionVars, streamVars, contextVars
<1>4. \A k \in ScriptLinks \ {l} : Kept(k)
  BY <1>1, <1>2, ScriptLinksAssumption
  DEF SessionsInv, SessionTypes, Kept, sessionVars, streamVars, contextVars
<1>5. SessionInv(l)'
  BY <1>1, <1>2
  DEF SessionsInv, SessionTypes, SessionInv, Counts, Fresh, InStep, Before, Transport, Script,
      sessionVars, streamVars, contextVars
<1> QED
  BY <1>3, <1>4, <1>5, OneSession DEF SessionsInv

LEMMA StartSession ==
  ASSUME SessionsInv, NEW l \in ScriptLinks, Start(l) PROVE SessionsInv'
<1> USE DEF sessionVars, streamVars, contextVars
<1>1. l \in Links /\ Len(Script(l)) \in Nat \ {0}
  BY ScriptTypes DEF SessionsInv
<1>2. Fresh(l) /\ stage[l] = "admitted"
  BY DEF Start, SessionsInv, SessionInv, Counts, Before, DialStages
<1>3. SessionTypes'
  <2>1. stage' \in [Links -> Before \cup SessionStages]
    BY <1>1, GotoTypes DEF Start, SessionsInv, SessionStages
  <2>2. asked' \in [ScriptLinks -> Nat] /\ turn' \in [ScriptLinks -> Nat]
    BY DEF Start, SessionsInv, SessionTypes
  <2> QED
    BY <2>1, <2>2 DEF Start, SessionsInv, SessionTypes
<1>4. \A k \in ScriptLinks \ {l} : Kept(k)
  BY <1>1, ScriptLinksAssumption DEF Start, Goto, SessionsInv, SessionTypes, Kept
<1>5. CASE Greets(l)
  <2>1. stage'[l] = "top" /\ asked'[l] = 1 /\ UNCHANGED <<turn, driver, said, read, strays, buffer, hungUp, contextVars, artifacts>>
    BY <1>1, <1>5 DEF Start, Goto, SessionsInv, SessionTypes
  <2>2. Counts(l)'
    BY <1>1, <1>2, <2>1 DEF Counts, Fresh, Before, DialStages, Script
  <2>3. InStep(l)'
    BY <1>2, <2>1 DEF InStep, Fresh, AtRead
  <2> QED
    BY <1>3, <1>4, <2>2, <2>3, OneSession DEF SessionInv
<1>6. CASE ~Greets(l)
  <2>1. stage'[l] = "write" /\ turn'[l] = 1 /\ UNCHANGED <<asked, driver, said, read, strays, buffer, hungUp, contextVars, artifacts>>
    BY <1>1, <1>6 DEF Start, Goto, SessionsInv, SessionTypes
  <2>2. Counts(l)'
    BY <1>1, <1>2, <2>1 DEF Counts, Fresh, Before, DialStages, Script
  <2>3. InStep(l)'
    BY <1>2, <2>1 DEF InStep, Fresh, AtWrite
  <2> QED
    BY <1>3, <1>4, <2>2, <2>3, OneSession DEF SessionInv
<1> QED
  BY <1>5, <1>6

LEMMA WriteSession ==
  ASSUME SessionsInv, NEW l \in ScriptLinks, Write(l) PROVE SessionsInv'
<1> USE DEF sessionVars, streamVars, contextVars
<1>1. l \in Links /\ Len(Script(l)) \in Nat \ {0}
  BY ScriptTypes DEF SessionsInv
<1>2. /\ SessionTypes /\ SessionInv(l) /\ Counts(l) /\ stage[l] = "write"
      /\ buffer' = [buffer EXCEPT ![l] = {}]
      /\ UNCHANGED <<driver, said, read, strays, hungUp, contextVars>>
  BY DEF Write, SessionsInv, SessionInv
<1>3. turn[l] <= Len(Script(l))
  BY <1>2 DEF Counts
<1>4. CASE Goto(l, "top") /\ asked' = [asked EXCEPT ![l] = @ + 1] /\ UNCHANGED <<turn, artifacts>>
  <2>1. SessionTypes'
    <3>1. stage' \in [Links -> Before \cup SessionStages]
      BY <1>1, <1>2, <1>4, GotoTypes DEF SessionStages
    <3>2. asked' \in [ScriptLinks -> Nat] /\ buffer' \in [ScriptLinks -> SUBSET Nat]
      BY <1>2, <1>4 DEF SessionTypes
    <3> QED
      BY <1>2, <1>4, <3>1, <3>2 DEF SessionTypes
  <2>2. \A k \in ScriptLinks \ {l} : Kept(k)
    BY <1>1, <1>2, <1>4, ScriptLinksAssumption DEF Goto, SessionTypes, Kept
  <2>3. /\ stage'[l] = "top" /\ asked'[l] = asked[l] + 1 /\ buffer'[l] = {}
        /\ asked[l] \in Nat /\ said[l] \in Nat /\ read[l] \in Nat /\ strays[l] \in Nat /\ turn[l] \in Nat
    BY <1>1, <1>2, <1>4 DEF Goto, SessionTypes
  <2>4. artifacts[l] \subseteq [request : 1 .. asked[l] + 1, parts : SUBSET (1 .. read[l])]
    BY <1>2, <2>3 DEF Counts
  <2>5. Counts(l)'
    BY <1>1, <1>2, <1>4, <2>3, <2>4, SMTT(30) DEF Counts, Before, DialStages, Script
  <2>6. cancelled[l] \/ InStep(l)'
    BY <1>2, <1>4, <2>3 DEF SessionInv, InStep, Behind, AtWrite, AtRead, Exhausted, ArtifactOK, Transport
  <2> QED
    BY <1>2, <2>1, <2>2, <2>5, <2>6, OneSession DEF SessionInv
<1>5. CASE hungUp[l] /\ Fail(l) /\ UNCHANGED asked
  <2>1. /\ artifacts' = artifacts
        /\ Ends(l) \/ Continues(l)
    BY <1>2, <1>3, <1>5, FailForm
  <2>2. SessionTypes'
    <3>1. buffer' \in [ScriptLinks -> SUBSET Nat]
      BY <1>2 DEF SessionTypes
    <3> QED
      BY <1>2, <1>5, <2>1, <3>1, FormTypes DEF SessionTypes
  <2>3. \A k \in ScriptLinks \ {l} : Kept(k)
    BY <1>1, <1>2, <1>5, <2>1, ScriptLinksAssumption DEF Ends, Continues, SessionTypes, Kept
  <2>4. /\ stage'[l] \in {"closed", "write"} /\ turn'[l] \in {turn[l], turn[l] + 1} /\ buffer'[l] = {}
        /\ stage'[l] = "write" => turn[l] < Len(Script(l)) /\ turn'[l] = turn[l] + 1
        /\ asked[l] \in Nat /\ said[l] \in Nat /\ read[l] \in Nat /\ strays[l] \in Nat /\ turn[l] \in Nat
    BY <1>1, <1>2, <2>1 DEF Ends, Continues, SessionTypes
  <2>5. Counts(l)'
    BY <1>1, <1>2, <1>5, <2>1, <2>4, SMTT(30) DEF Counts, Before, DialStages, Script
  <2>6. cancelled[l] \/ InStep(l)'
    BY <1>2, <1>5, <2>1, <2>4 DEF SessionInv, InStep, Behind, AtWrite, Exhausted, ArtifactOK, Transport
  <2> QED
    BY <1>2, <2>2, <2>3, <2>5, <2>6, OneSession DEF SessionInv
<1> QED
  BY <1>4, <1>5 DEF Write

\* What is known of the session of link l in every state.
LEMMA SessionFacts ==
  ASSUME SessionsInv, NEW l \in ScriptLinks
  PROVE  /\ l \in Links /\ Len(Script(l)) \in Nat \ {0}
         /\ SessionTypes /\ SessionInv(l) /\ Counts(l)
         /\ turn[l] \in Nat /\ asked[l] \in Nat /\ said[l] \in Nat /\ read[l] \in Nat
         /\ strays[l] \in Nat
  BY ScriptTypes DEF SessionsInv, SessionInv, SessionTypes

LEMMA FormValues ==
  ASSUME SessionTypes, NEW l \in ScriptLinks, Ends(l) \/ Continues(l)
  PROVE  /\ stage'[l] \in {"closed", "write"} /\ turn'[l] \in {turn[l], turn[l] + 1}
         /\ stage'[l] = "write" => turn[l] < Len(Script(l)) /\ turn'[l] = turn[l] + 1
         /\ stage'[l] = "write" => Continues(l)
         /\ \A k \in ScriptLinks \ {l} : stage'[k] = stage[k] /\ turn'[k] = turn[k]
  BY ScriptLinksAssumption DEF Ends, Continues, SessionTypes

\* A read that fails: the session ends, or writes its next command.
LEMMA FailSession ==
  ASSUME SessionsInv, NEW l \in ScriptLinks, stage[l] \in {"top", "wait"}, Fail(l),
         strays' \in [ScriptLinks -> Nat],
         \A k \in ScriptLinks \ {l} : strays'[k] = strays[k],
         strays'[l] <= strays[l] + 1,
         \/ Behind(l)
         \/ cancelled[l]
         \/ strays'[l] = 0 /\ Exhausted(l)
         \/ Transport(l) \in {"netconf", "http"},
         UNCHANGED <<driver, asked, said, read, buffer, hungUp, contextVars>>
  PROVE  SessionsInv'
<1> USE DEF contextVars
<1>1. /\ artifacts' = artifacts /\ turn[l] <= Len(Script(l))
      /\ Ends(l) \/ (Continues(l) /\ Transport(l) \notin {"netconf", "http"})
  BY SessionFacts, FailForm DEF Counts
<1>2. SessionTypes'
  BY <1>1, SessionFacts, FormTypes DEF SessionTypes
<1>3. \A k \in ScriptLinks \ {l} : Kept(k)
  BY <1>1, SessionFacts, FormValues DEF Kept
<1>4. /\ stage'[l] \in {"closed", "write"} /\ turn'[l] \in {turn[l], turn[l] + 1}
      /\ stage'[l] = "write" => turn[l] < Len(Script(l)) /\ turn'[l] = turn[l] + 1
      /\ stage'[l] = "write" => Transport(l) \notin {"netconf", "http"}
  BY <1>1, SessionFacts, FormValues DEF Ends, SessionTypes
<1>5. strays'[l] \in Nat /\ Script(l)' = Script(l)
  BY DEF Script
<1>6. Counts(l)'
  BY <1>1, <1>4, <1>5, SessionFacts, SMTT(30) DEF Counts, Before, DialStages
<1>7. cancelled[l] \/ InStep(l)'
  BY <1>1, <1>4, SessionFacts
  DEF SessionInv, InStep, Behind, AtWrite, Exhausted, ArtifactOK, Transport
<1> QED
  BY <1>2, <1>3, <1>6, <1>7, OneSession DEF SessionInv

LEMMA LoopTopSession ==
  ASSUME SessionsInv, NEW l \in ScriptLinks, LoopTop(l) PROVE SessionsInv'
<1> USE DEF streamVars, contextVars
<1>1. stage[l] = "top" /\ UNCHANGED <<driver, streamVars, hungUp, contextVars>>
  BY DEF LoopTop
<1>2. CASE PastDeadline(l) /\ Fail(l)
  <2>1. \/ Behind(l) \/ cancelled[l] \/ Transport(l) = "http"
    BY <1>2 DEF PastDeadline, Behind, Ended
  <2>2. strays' \in [ScriptLinks -> Nat] /\ strays'[l] <= strays[l] + 1
    BY <1>1, SessionFacts DEF SessionTypes
  <2>3. \A k \in ScriptLinks \ {l} : strays'[k] = strays[k]
    BY <1>1
  <2> QED
    BY <1>1, <1>2, <2>1, <2>2, <2>3, FailSession
<1>3. CASE ~PastDeadline(l) /\ Goto(l, "wait") /\ UNCHANGED <<turn, artifacts>>
  <2>1. stage' \in [Links -> Before \cup SessionStages] /\ stage'[l] = "wait"
    BY <1>3, SessionFacts, GotoTypes DEF SessionStages
  <2>2. SessionTypes'
    BY <1>1, <1>3, <2>1, SessionFacts DEF SessionTypes
  <2>3. \A k \in ScriptLinks \ {l} : Kept(k)
    BY <1>1, <1>3, SessionFacts DEF SessionTypes, Goto, Kept
  <2>4. Counts(l)'
    BY <1>1, <1>3, <2>1, SessionFacts DEF Counts, Before, DialStages, Script
  <2>5. cancelled[l] \/ ~Behind(l)
    BY <1>3 DEF PastDeadline, Behind, Ended
  <2>6. cancelled[l] \/ InStep(l)'
    BY <1>1, <1>3, <2>1, <2>5, SessionFacts DEF SessionInv, InStep, AtRead, Exhausted, ArtifactOK
  <2> QED
    BY <1>1, <2>2, <2>3, <2>4, <2>6, OneSession DEF SessionInv
<1> QED
  BY <1>2, <1>3 DEF LoopTop

LEMMA GiveUpSession ==
  ASSUME SessionsInv, NEW l \in ScriptLinks, GiveUp(l) PROVE SessionsInv'
<1> USE DEF contextVars
<1>1. strays' \in [ScriptLinks -> Nat] /\ \A k \in ScriptLinks \ {l} : strays'[k] = strays[k]
  BY DEF GiveUp, SessionsInv, SessionTypes
<1>2. strays'[l] <= strays[l] + 1
  BY SessionFacts DEF GiveUp, SessionTypes
<1>3. \/ Behind(l) \/ cancelled[l] \/ Transport(l) \in {"netconf", "http"}
  BY DEF GiveUp, MayGiveUp, Ended, Behind, Transport, sessionFactoryForDriver
<1> QED
  BY <1>1, <1>2, <1>3, FailSession DEF GiveUp

LEMMA SucceedSession ==
  ASSUME SessionsInv, NEW l \in ScriptLinks, stage[l] = "wait", Succeed(l),
         read' \in [ScriptLinks -> Nat], buffer' \in [ScriptLinks -> SUBSET Nat],
         \A k \in ScriptLinks \ {l} : read'[k] = read[k] /\ buffer'[k] = buffer[k],
         read[l] <= read'[l], read'[l] <= said[l], buffer'[l] \subseteq 1 .. read'[l],
         \/ cancelled[l]
         \/ /\ strays[l] = 0 /\ buffer'[l] \subseteq Own(asked[l])
            /\ \/ read'[l] = 2 * asked[l] /\ buffer'[l] = Own(asked[l])
               \/ hungUp[l] /\ read'[l] = said[l],
         UNCHANGED <<driver, asked, said, strays, hungUp, contextVars>>
  PROVE  SessionsInv'
<1> USE DEF contextVars
<1> DEFINE a == [request |-> asked[l], parts |-> buffer'[l]]
<1>1. /\ turn[l] <= Len(Script(l))
      /\ Ends(l) \/ Continues(l)
      /\ artifacts' \in {artifacts, [artifacts EXCEPT ![l] = @ \cup {a}]}
  BY SessionFacts, SucceedForm DEF Counts, Collected
<1>2. buffer'[l] \in SUBSET Nat /\ a \in [request : Nat, parts : SUBSET Nat]
  BY SessionFacts
<1>3. /\ artifacts' \in [ScriptLinks -> SUBSET [request : Nat, parts : SUBSET Nat]]
      /\ artifacts'[l] \subseteq artifacts[l] \cup {a}
      /\ \A k \in ScriptLinks \ {l} : artifacts'[k] = artifacts[k]
  <2> HIDE DEF a
  <2> QED
    <3>1. artifacts \in [ScriptLinks -> SUBSET [request : Nat, parts : SUBSET Nat]]
      BY SessionFacts DEF SessionTypes
    <3>2. artifacts[l] \cup {a} \in SUBSET [request : Nat, parts : SUBSET Nat]
      BY <1>2, <3>1
    <3> QED
      BY <1>1, <3>1, <3>2
<1>4. SessionTypes'
  BY <1>1, <1>3, SessionFacts, FormTypes DEF SessionTypes
<1>5. \A k \in ScriptLinks \ {l} : Kept(k)
  BY <1>1, <1>3, SessionFacts, FormValues DEF Kept
<1>6. /\ stage'[l] \in {"closed", "write"} /\ turn'[l] \in {turn[l], turn[l] + 1}
      /\ stage'[l] = "write" => turn[l] < Len(Script(l)) /\ turn'[l] = turn[l] + 1
  BY <1>1, SessionFacts, FormValues
<1>7. artifacts'[l] \subseteq [request : 1 .. asked[l], parts : SUBSET (1 .. read'[l])]
  <2>1. artifacts[l] \subseteq [request : 1 .. asked[l], parts : SUBSET (1 .. read'[l])]
    BY SessionFacts DEF Counts
  <2>2. a \in [request : 1 .. asked[l], parts : SUBSET (1 .. read'[l])]
    BY SessionFacts DEF Counts
  <2> QED
    BY <1>3, <2>1, <2>2
<1>8. Counts(l)'
  BY <1>6, <1>7, SessionFacts, SMTT(30) DEF Counts, Before, DialStages, Script
<1>9. cancelled[l] \/ InStep(l)'
  <2> SUFFICES ASSUME ~cancelled[l] PROVE InStep(l)'
    OBVIOUS
  <2>1. \A b \in artifacts'[l] : ArtifactOK(l, b)'
    <3>1. \A b : b = a => ArtifactOK(l, b)'
      BY DEF ArtifactOK
    <3>2. \A b \in artifacts[l] : ArtifactOK(l, b)'
      BY SessionFacts DEF SessionInv, InStep, ArtifactOK
    <3> QED
      BY <1>3, <3>1, <3>2
  <2>2. strays'[l] = 0 /\ AtWrite(l)'
    BY DEF AtWrite, Exhausted
  <2> QED
    BY <1>6, <2>1, <2>2 DEF InStep
<1> QED
  BY <1>4, <1>5, <1>8, <1>9, OneSession DEF SessionInv

LEMMA ReceiveSession ==
  ASSUME SessionsInv, NEW l \in ScriptLinks, Receive(l) PROVE SessionsInv'
<1> USE DEF contextVars
<1> DEFINE r == read[l] + 1
<1>1. /\ stage[l] = "wait" /\ r <= said[l] /\ r \in Nat \ {0}
      /\ UNCHANGED <<driver, asked, said, strays, hungUp, contextVars>>
  BY SessionFacts DEF Receive
<1>2. /\ read' = [read EXCEPT ![l] = r] /\ read' \in [ScriptLinks -> Nat] /\ read'[l] = r
      /\ \A k \in ScriptLinks \ {l} : read'[k] = read[k]
  BY SessionFacts DEF Receive, SessionTypes
<1>3. /\ buffer' \in [ScriptLinks -> SUBSET Nat] /\ buffer'[l] = buffer[l] \cup {r}
      /\ \A k \in ScriptLinks \ {l} : buffer'[k] = buffer[k]
  <2> HIDE DEF r
  <2>1. buffer \in [ScriptLinks -> SUBSET Nat] /\ buffer[l] \cup {r} \in SUBSET Nat
    BY <1>1, SessionFacts DEF SessionTypes
  <2>2. buffer' = [buffer EXCEPT ![l] = @ \cup {r}]
    BY <1>2 DEF Receive
  <2> QED
    BY <2>1, <2>2
<1>4. buffer'[l] \subseteq 1 .. r
  BY <1>1, <1>3, SessionFacts DEF Counts
\* The part is the body or the end of the answer to the last request.
<1>5. \/ cancelled[l]
      \/ /\ strays[l] = 0
         /\ \/ r = 2 * asked[l] - 1 /\ buffer'[l] = {2 * asked[l] - 1}
            \/ r = 2 * asked[l] /\ buffer'[l] = Own(asked[l])
  <2> SUFFICES ASSUME ~cancelled[l]
               PROVE  /\ strays[l] = 0
                      /\ \/ r = 2 * asked[l] - 1 /\ buffer'[l] = {2 * asked[l] - 1}
                         \/ r = 2 * asked[l] /\ buffer'[l] = Own(asked[l])
    OBVIOUS
  <2>1. strays[l] = 0 /\ AtRead(l) /\ ~Exhausted(l)
    BY <1>1, SessionFacts DEF SessionInv, InStep, Exhausted
  <2>2. CASE read[l] = 2 * asked[l] - 2 /\ buffer[l] = {}
    BY <1>3, <2>1, <2>2, SessionFacts
  <2>3. CASE read[l] = 2 * asked[l] - 1 /\ buffer[l] = {2 * asked[l] - 1}
    <3>1. r = 2 * asked[l]
      BY <2>3, SessionFacts
    <3> HIDE DEF r
    <3> QED
      BY <1>3, <2>1, <2>3, <3>1 DEF Own
  <2> QED
    BY <2>1, <2>2, <2>3 DEF AtRead
<1>6. CASE r % 2 = 0 /\ Succeed(l)
  <2>1. \/ cancelled[l]
        \/ strays[l] = 0 /\ r = 2 * asked[l] /\ buffer'[l] = Own(asked[l])
    BY <1>5, <1>6, SessionFacts
  <2>2. read[l] <= read'[l] /\ read'[l] <= said[l] /\ buffer'[l] \subseteq 1 .. read'[l]
    BY <1>1, <1>2, <1>4, SessionFacts
  <2>3. \/ cancelled[l]
        \/ /\ strays[l] = 0 /\ buffer'[l] \subseteq Own(asked[l])
           /\ read'[l] = 2 * asked[l] /\ buffer'[l] = Own(asked[l])
    BY <1>2, <2>1
  <2> HIDE DEF r
  <2> QED
    BY <1>1, <1>2, <1>3, <1>6, <2>2, <2>3, SucceedSession
<1>7. CASE r % 2 # 0 /\ Goto(l, "top") /\ UNCHANGED <<turn, artifacts>>
  <2>1. stage' \in [Links -> Before \cup SessionStages] /\ stage'[l] = "top"
    BY <1>7, SessionFacts, GotoTypes DEF SessionStages
  <2>2. SessionTypes'
    BY <1>1, <1>2, <1>3, <1>7, <2>1, SessionFacts DEF SessionTypes
  <2>3. \A k \in ScriptLinks \ {l} : stage'[k] = stage[k]
    BY <1>7, ScriptLinksAssumption, SessionFacts DEF SessionTypes, Goto
  <2>4. \A k \in ScriptLinks \ {l} : Kept(k)
    BY <1>1, <1>2, <1>3, <1>7, <2>3 DEF Kept
  <2>5. artifacts[l] \subseteq [request : 1 .. asked[l], parts : SUBSET (1 .. r)]
    BY SessionFacts DEF Counts
  <2>6. Counts(l)'
    BY <1>1, <1>2, <1>4, <1>7, <2>1, <2>5, SessionFacts DEF Counts, Before, DialStages, Script
  <2>7. cancelled[l] \/ r = 2 * asked[l] - 1
    BY <1>5, <1>7, SessionFacts
  <2>8. cancelled[l] \/ InStep(l)'
    BY <1>1, <1>2, <1>5, <1>7, <2>1, <2>7, SessionFacts
    DEF SessionInv, InStep, AtRead, ArtifactOK
  <2> QED
    BY <1>1, <2>2, <2>4, <2>6, <2>8, OneSession DEF SessionInv
<1> QED
  BY <1>2, <1>6, <1>7 DEF Receive

LEMMA ReachEOFSession ==
  ASSUME SessionsInv, NEW l \in ScriptLinks, ReachEOF(l) PROVE SessionsInv'
<1> USE DEF contextVars, streamVars
<1>1. /\ stage[l] = "wait" /\ Exhausted(l)
      /\ UNCHANGED <<driver, asked, said, read, strays, buffer, hungUp, contextVars>>
  BY DEF ReachEOF, Exhausted
<1>2. cancelled[l] \/ (strays[l] = 0 /\ buffer[l] \subseteq Own(asked[l]))
  BY <1>1, SessionFacts DEF SessionInv, InStep, AtRead, Own
<1>3. CASE Fail(l)
  <2>1. /\ strays' \in [ScriptLinks -> Nat] /\ strays'[l] <= strays[l] + 1
        /\ \A k \in ScriptLinks \ {l} : strays'[k] = strays[k]
        /\ cancelled[l] \/ strays'[l] = 0
    BY <1>1, <1>2, SessionFacts DEF SessionTypes
  <2> QED
    BY <1>1, <1>3, <2>1, FailSession
<1>4. CASE Succeed(l)
  <2>1. /\ read' \in [ScriptLinks -> Nat] /\ buffer' \in [ScriptLinks -> SUBSET Nat]
        /\ \A k \in ScriptLinks \ {l} : read'[k] = read[k] /\ buffer'[k] = buffer[k]
        /\ read[l] <= read'[l] /\ read'[l] <= said[l] /\ buffer'[l] \subseteq 1 .. read'[l]
    BY <1>1, SessionFacts DEF SessionTypes, Counts
  <2>2. \/ cancelled[l]
        \/ /\ strays[l] = 0 /\ buffer'[l] \subseteq Own(asked[l])
           /\ hungUp[l] /\ read'[l] = said[l]
    BY <1>1, <1>2 DEF Exhausted
  <2> QED
    BY <1>1, <1>4, <2>1, <2>2, SucceedSession
<1> QED
  BY <1>3, <1>4 DEF ReachEOF

\* A step that leaves the stage, the driver, the turn, the requests and the buffer
\* of a session as they are.
LEMMA OutsideSession ==
  ASSUME SessionsInv, NEW l \in ScriptLinks, StrayRead(l) \/ Say(l) \/ HangUp(l) \/ Expire(l) \/ Cancel(l)
  PROVE  SessionsInv'
<1> USE DEF streamVars, contextVars
<1>1. UNCHANGED <<stage, driver, turn, asked, buffer, artifacts>>
  BY DEF StrayRead, Say, HangUp, Expire, Cancel
<1>2. /\ said' \in [ScriptLinks -> Nat] /\ read' \in [ScriptLinks -> Nat]
      /\ strays' \in [ScriptLinks -> Nat]
  <2>1. CASE StrayRead(l)
    <3>1. strays[l] - 1 \in Nat /\ read[l] + 1 \in Nat
      BY <2>1, SessionFacts DEF StrayRead
    <3> QED
      BY <2>1, <3>1, SessionFacts DEF SessionTypes, StrayRead
  <2>2. CASE Say(l)
    BY <2>2, SessionFacts DEF SessionTypes, Say
  <2>3. CASE HangUp(l) \/ Expire(l) \/ Cancel(l)
    BY <2>3, SessionFacts DEF SessionTypes, HangUp, Expire, Cancel
  <2> QED
    BY <2>1, <2>2, <2>3
<1>3. /\ hungUp' \in [ScriptLinks -> BOOLEAN] /\ expired' \in [ScriptLinks -> BOOLEAN]
      /\ cancelled' \in [ScriptLinks -> BOOLEAN]
  BY SessionFacts DEF SessionTypes, StrayRead, Say, HangUp, Expire, Cancel
<1>4. SessionTypes'
  BY <1>1, <1>2, <1>3, SessionFacts DEF SessionTypes
<1>5. \A k \in ScriptLinks \ {l} : Kept(k)
  BY <1>1, SessionFacts DEF SessionTypes, StrayRead, Say, HangUp, Expire, Cancel, Kept
<1>6. CASE StrayRead(l)
  <2>1. /\ strays[l] > 0 /\ read[l] < said[l]
        /\ strays'[l] = strays[l] - 1 /\ read'[l] = read[l] + 1
        /\ UNCHANGED <<said, hungUp, contextVars>>
    BY <1>6, SessionFacts DEF StrayRead, SessionTypes
  <2>2. stage[l] \notin Before
    BY <2>1, SessionFacts DEF Counts, Fresh
  <2>3. artifacts[l] \subseteq [request : 1 .. asked[l], parts : SUBSET (1 .. read[l] + 1)]
    BY SessionFacts DEF Counts
  <2>4. Counts(l)'
    BY <1>1, <2>1, <2>2, <2>3, SessionFacts, SMTT(30) DEF Counts, Script
  <2>5. cancelled[l] \/ InStep(l)'
    BY <1>1, <2>1, SessionFacts DEF SessionInv, InStep, ArtifactOK, Behind, Transport
  <2> QED
    BY <1>4, <1>5, <2>1, <2>4, <2>5, OneSession DEF SessionInv
<1>7. CASE Say(l)
  <2>1. /\ ~hungUp[l] /\ said[l] < 2 * asked[l] /\ said'[l] = said[l] + 1
        /\ stage[l] \in {"write", "top", "wait"}
        /\ UNCHANGED <<read, strays, hungUp, contextVars>>
    BY <1>7, SessionFacts DEF Say, Open, SessionTypes
  <2>2. Counts(l)'
    BY <1>1, <2>1, SessionFacts, SMTT(30) DEF Counts, Script, Before, DialStages
  <2>3. cancelled[l] \/ InStep(l)'
    BY <1>1, <2>1, SessionFacts
    DEF SessionInv, InStep, ArtifactOK, Behind, Transport, AtWrite, AtRead, Exhausted
  <2> QED
    BY <1>4, <1>5, <2>1, <2>2, <2>3, OneSession DEF SessionInv
<1>8. CASE HangUp(l) \/ Expire(l) \/ Cancel(l)
  <2>1. /\ stage[l] \in {"write", "top", "wait"}
        /\ UNCHANGED <<said, read, strays>>
        /\ hungUp[l] => hungUp'[l]
        /\ expired[l] => expired'[l]
        /\ cancelled[l] => cancelled'[l]
    BY <1>8, SessionFacts DEF HangUp, Expire, Cancel, Open, SessionTypes
  <2>2. Counts(l)'
    BY <1>1, <2>1, SessionFacts DEF Counts, Script, Before, DialStages
  <2>3. cancelled'[l] \/ InStep(l)'
    BY <1>1, <2>1, SessionFacts
    DEF SessionInv, InStep, ArtifactOK, Behind, Transport, AtWrite, AtRead, Exhausted
  <2> QED
    BY <1>4, <1>5, <2>2, <2>3, OneSession DEF SessionInv
<1> QED
  BY <1>6, <1>7, <1>8

LEMMA RestSession ==
  ASSUME SessionsInv, NEW l \in ScriptLinks, Rest(l) PROVE SessionsInv'
<1>1. stage' \in [Links -> Before \cup SessionStages] /\ stage'[l] = "idle"
  BY SessionFacts, GotoTypes DEF Rest, Before
<1>2. /\ turn' \in [ScriptLinks -> Nat] /\ asked' \in [ScriptLinks -> Nat]
      /\ said' \in [ScriptLinks -> Nat] /\ read' \in [ScriptLinks -> Nat]
      /\ strays' \in [ScriptLinks -> Nat] /\ buffer' \in [ScriptLinks -> SUBSET Nat]
  BY SessionFacts DEF Rest, SessionTypes
<1>3. /\ hungUp' \in [ScriptLinks -> BOOLEAN] /\ expired' \in [ScriptLinks -> BOOLEAN]
      /\ cancelled' \in [ScriptLinks -> BOOLEAN]
      /\ artifacts' \in [ScriptLinks -> SUBSET [request : Nat, parts : SUBSET Nat]]
  BY SessionFacts DEF Rest, SessionTypes
<1>4. SessionTypes'
  BY <1>1, <1>2, <1>3, SessionFacts DEF Rest, SessionTypes
<1>5. \A k \in ScriptLinks \ {l} : Kept(k)
  BY ScriptLinksAssumption, SessionFacts DEF SessionTypes, Rest, Goto, Kept
<1>6. Fresh(l)'
  BY SessionFacts DEF Rest, SessionTypes, Fresh
<1>7. Len(Script(l)') \in Nat
  BY SessionFacts DEF Rest, Script
<1>8. Counts(l)'
  BY <1>1, <1>6, <1>7 DEF Counts, Fresh
<1>9. InStep(l)'
  BY <1>1, <1>6 DEF InStep, Fresh
<1> QED
  BY <1>4, <1>5, <1>8, <1>9, OneSession DEF SessionInv

LEMMA ScriptKeepsSessions ==
  ASSUME SessionsInv, NEW l \in ScriptLinks, ScriptStep(l) PROVE SessionsInv'
  BY DialSession, StartSession, WriteSession, LoopTopSession, ReceiveSession, ReachEOFSession,
     GiveUpSession, OutsideSession, RestSession
  DEF ScriptStep, ProgramStep

\* Everything else leaves the sessions alone, and their stages but for a dial.
LEMMA OtherwiseKeepsSessions ==
  ASSUME SessionsInv, UNCHANGED sessionVars, stage' \in [Links -> Before \cup SessionStages],
         \A l \in ScriptLinks : stage'[l] # stage[l] => stage[l] \in Before /\ stage'[l] \in Before
  PROVE  SessionsInv'
<1> USE DEF sessionVars, streamVars, contextVars
<1>1. SessionTypes'
  BY DEF SessionsInv, SessionTypes
<1>2. ASSUME NEW l \in ScriptLinks PROVE SessionInv(l)'
  <2>1. CASE stage'[l] = stage[l]
    BY <2>1, KeptKeeps DEF SessionsInv, Kept
  <2>2. CASE stage'[l] # stage[l]
    <3>1. stage[l] \in Before /\ stage'[l] \in Before /\ Fresh(l) /\ Fresh(l)'
      BY <2>2 DEF SessionsInv, SessionInv, Counts, Fresh
    <3>2. stage'[l] \notin {"write", "top", "wait"}
      BY <3>1 DEF Before, DialStages
    <3>3. Script(l)' = Script(l)
      BY DEF Script
    <3> QED
      BY <3>1, <3>2, <3>3 DEF SessionsInv, SessionInv, Counts, InStep, Fresh
  <2> QED
    BY <2>1, <2>2
<1> QED
  BY <1>1, <1>2 DEF SessionsInv

-------------------------------------------------------------------------------
(***************************************************************************)
(* Terminals.  While the browser can be written to, the last piece of its  *)
(* connection is a header exactly if someone is between the two writes of  *)
(* a frame, and then it is that one's.                                     *)
(***************************************************************************)

Writers == {"copier", "handler"}

TerminalTypes ==
    /\ copier \in [TerminalLinks -> {"off", "read", "record", "header", "payload", "bye"}]
    /\ wire \in [TerminalLinks -> Seq(Piece)]
    /\ writer \in [TerminalLinks -> {"nobody"} \cup Writers]
    /\ transcript \in [TerminalLinks -> Seq(Entry)]
    /\ typed \in [TerminalLinks -> Seq(1 .. MaxInput)]
    /\ gone \in [TerminalLinks -> BOOLEAN]
    /\ outputs \in [TerminalLinks -> 0 .. MaxOutput] /\ pings \in [TerminalLinks -> 0 .. MaxPings]
    /\ row \in [TerminalLinks -> [state : {"none", "open", "saved"}, transcript : Seq(Entry)]]

\* Whether p may follow q in a sequence of whole frames.
MayFollow(p, q) == q.part = "header" <=> p.part = "payload" /\ p.by = q.by

Whole(pieces) == \A i \in 1 .. Len(pieces) - 1 : MayFollow(pieces[i + 1], pieces[i])

EndsWith(pieces, p) == pieces # <<>> /\ pieces[Len(pieces)] = p

Bridge(t) ==
    /\ Whole(wire[t])
    /\ Connected(t) => \A w \in Writers : EndsWith(wire[t], Header(w)) <=> writer[t] = w
    /\ copier[t] = "payload" <=> writer[t] = "copier"
    /\ writer[t] = "handler" => stage[t] \in {"pong", "protocol error"}
    /\ stage[t] \in Before => copier[t] = "off"
    /\ stage[t] = "forward" => Len(typed[t]) < MaxInput

TerminalsInv == TerminalTypes /\ \A t \in TerminalLinks : Bridge(t)

LEMMA TerminalsInit == Init => TerminalsInv
<1> SUFFICES ASSUME Init PROVE TerminalsInv
  OBVIOUS
<1> USE DEF Init, TerminalInit
<1>1. TerminalTypes
  BY BoundsAssumption DEF TerminalTypes, Writers, NoRow
<1>2. ASSUME NEW t \in TerminalLinks PROVE Bridge(t)
  BY TerminalLinksAssumption DEF Bridge, Whole, EndsWith, Writers
<1> QED
  BY <1>1, <1>2 DEF TerminalsInv

\* What a step leaves alone of terminal k.
KeptBridge(k) ==
    /\ stage'[k] = stage[k] /\ copier'[k] = copier[k] /\ wire'[k] = wire[k]
    /\ writer'[k] = writer[k] /\ typed'[k] = typed[k] /\ gone'[k] = gone[k]

LEMMA KeptBridgeKeeps ==
  ASSUME NEW k \in TerminalLinks, Bridge(k), KeptBridge(k)
  PROVE  Bridge(k)'
  BY DEF Bridge, KeptBridge, Connected

LEMMA OneBridge ==
  ASSUME TerminalsInv, TerminalTypes', NEW t \in TerminalLinks, Bridge(t)',
         \A k \in TerminalLinks \ {t} : KeptBridge(k)
  PROVE  TerminalsInv'
<1>1. ASSUME NEW k \in TerminalLinks PROVE Bridge(k)'
  <2>1. CASE k = t BY <2>1
  <2>2. CASE k # t BY <2>2, KeptBridgeKeeps DEF TerminalsInv
  <2> QED BY <2>1, <2>2
<1> QED
  BY <1>1 DEF TerminalsInv

LEMMA TerminalFacts ==
  ASSUME TerminalsInv, SessionTypes, NEW t \in TerminalLinks
  PROVE  /\ t \in Links /\ stage \in [Links -> Before \cup SessionStages]
         /\ TerminalTypes /\ Bridge(t)
         /\ MaxOutput \in Nat /\ MaxInput \in Nat /\ MaxPings \in Nat
         /\ wire[t] \in Seq(Piece) /\ typed[t] \in Seq(1 .. MaxInput)
         /\ transcript[t] \in Seq(Entry) /\ outputs[t] \in 0 .. MaxOutput
         /\ pings[t] \in 0 .. MaxPings
  BY TerminalLinksAssumption, BoundsAssumption DEF TerminalsInv, TerminalTypes, SessionTypes

\* A piece is written where it may follow.
LEMMA Written ==
  ASSUME NEW s \in Seq(Piece), NEW p \in Piece, Whole(s),
         s # <<>> => MayFollow(p, s[Len(s)])
  PROVE  Append(s, p) \in Seq(Piece) /\ Whole(Append(s, p)) /\ EndsWith(Append(s, p), p)
<1>1. /\ Append(s, p) \in Seq(Piece) /\ Len(Append(s, p)) = Len(s) + 1 /\ Len(s) \in Nat
      /\ Append(s, p)[Len(s) + 1] = p
      /\ \A i \in 1 .. Len(s) : Append(s, p)[i] = s[i]
  OBVIOUS
<1>2. Append(s, p) # <<>>
  OBVIOUS
<1>3. ASSUME NEW i \in 1 .. Len(Append(s, p)) - 1
      PROVE  MayFollow(Append(s, p)[i + 1], Append(s, p)[i])
  <2>1. i \in 1 .. Len(s)
    BY <1>1
  <2>2. CASE i = Len(s)
    <3>1. s # <<>>
      BY <2>1, <2>2
    <3> QED
      BY <1>1, <2>1, <2>2, <3>1
  <2>3. CASE i # Len(s)
    <3>1. i \in 1 .. Len(s) - 1 /\ i + 1 \in 1 .. Len(s)
      BY <1>1, <2>1, <2>3
    <3> QED
      BY <1>1, <3>1 DEF Whole
  <2> QED
    BY <2>2, <2>3
<1> QED
  BY <1>1, <1>2, <1>3 DEF Whole, EndsWith

\* The kinds of pieces.
LEMMA HeadersAreSomeones ==
  ASSUME NEW q \in Piece, q.part = "header" PROVE \E v \in Writers : q = Header(v)
<1>1. q \in [part : {"header", "frame without payload"}, by : Writers]
  BY DEF Piece, Writers
<1>2. q = Header(q.by)
  BY <1>1 DEF Header
<1> QED
  BY <1>1, <1>2

LEMMA Pieces ==
  ASSUME NEW w \in Writers, NEW n \in 0 .. MaxOutput
  PROVE  /\ Header(w) \in Piece /\ Payload(w, n) \in Piece /\ Bare(w) \in Piece
         /\ Header(w).part = "header" /\ Header(w).by = w
         /\ Payload(w, n).part = "payload" /\ Payload(w, n).by = w
         /\ Bare(w).part = "frame without payload"
         /\ \A v \in Writers : Payload(w, n) # Header(v) /\ Bare(w) # Header(v)
         /\ \A v \in Writers : Header(w) = Header(v) => w = v
<1>1. \A v : Header(v).part = "header" /\ Header(v).by = v
  BY DEF Header
<1>2. Payload(w, n).part = "payload" /\ Payload(w, n).by = w
  BY DEF Payload
<1>3. Bare(w).part = "frame without payload"
  BY DEF Bare
<1>4. Header(w) \in Piece
  BY DEF Header, Piece, Writers
<1>5. Payload(w, n) \in Piece
  BY DEF Payload, Piece, Writers
<1>6. Bare(w) \in Piece
  BY DEF Bare, Piece, Writers
<1>7. \A v \in Writers : Payload(w, n) # Header(v) /\ Bare(w) # Header(v)
  <2>1. "payload" # "header" /\ "frame without payload" # "header"
    OBVIOUS
  <2> QED
    BY <1>1, <1>2, <1>3, <2>1
<1>8. \A v \in Writers : Header(w) = Header(v) => w = v
  BY <1>1
<1> QED
  BY <1>1, <1>2, <1>3, <1>4, <1>5, <1>6, <1>7, <1>8

\* What a write to the connection of one terminal leaves behind.
Wrote(t, p) ==
    /\ wire' \in [TerminalLinks -> Seq(Piece)]
    /\ Whole(wire'[t]) /\ EndsWith(wire'[t], p)
    /\ \A k \in TerminalLinks \ {t} : wire'[k] = wire[k]

LEMMA PutWrites ==
  ASSUME TerminalsInv, SessionTypes, NEW t \in TerminalLinks, NEW p \in Piece, Put(t, p),
         wire[t] # <<>> => MayFollow(p, wire[t][Len(wire[t])])
  PROVE  Wrote(t, p)
<1>1. wire[t] \in Seq(Piece) /\ Whole(wire[t]) /\ wire \in [TerminalLinks -> Seq(Piece)]
  BY TerminalFacts DEF Bridge, TerminalTypes
<1>2. /\ Append(wire[t], p) \in Seq(Piece) /\ Whole(Append(wire[t], p))
      /\ EndsWith(Append(wire[t], p), p)
  BY <1>1, Written
<1>3. wire' = [wire EXCEPT ![t] = Append(wire[t], p)]
  BY DEF Put
<1> HIDE DEF Put
<1> QED
  BY <1>1, <1>2, <1>3 DEF Wrote

\* While nobody is between two writes, the last piece ends a frame.
LEMMA BetweenFrames ==
  ASSUME TerminalsInv, SessionTypes, NEW t \in TerminalLinks, Connected(t), CanWrite(t),
         NEW p \in Piece, p.part # "payload"
  PROVE  wire[t] # <<>> => MayFollow(p, wire[t][Len(wire[t])])
<1> SUFFICES ASSUME wire[t] # <<>> PROVE MayFollow(p, wire[t][Len(wire[t])])
  OBVIOUS
<1> DEFINE q == wire[t][Len(wire[t])]
<1>1. q \in Piece
  BY TerminalFacts
<1>2. \A v \in Writers : q # Header(v)
  <2>1. \A v \in Writers : writer[t] # v
    BY DEF CanWrite, Writers
  <2> QED
    BY <2>1, TerminalFacts DEF Bridge, EndsWith
<1>3. q.part # "header"
  BY <1>1, <1>2, HeadersAreSomeones
<1> QED
  BY <1>3 DEF MayFollow

LEMMA PutHeaderWrites ==
  ASSUME TerminalsInv, SessionTypes, NEW t \in TerminalLinks, NEW w \in Writers, PutHeader(t, w)
  PROVE  /\ Wrote(t, Header(w)) /\ writer[t] = "nobody" /\ writer'[t] = w
         /\ writer' \in [TerminalLinks -> {"nobody"} \cup Writers]
         /\ \A k \in TerminalLinks \ {t} : writer'[k] = writer[k]
<1>1. Header(w) \in Piece /\ Header(w).part = "header"
  <2>1. 0 \in 0 .. MaxOutput
    BY TerminalFacts
  <2> QED
    BY <2>1, Pieces
<1>2. Wrote(t, Header(w))
  BY <1>1, BetweenFrames, PutWrites DEF PutHeader
<1> QED
  BY <1>2, TerminalFacts DEF PutHeader, CanWrite, TerminalTypes

LEMMA PutPayloadWrites ==
  ASSUME TerminalsInv, SessionTypes, NEW t \in TerminalLinks, NEW w \in Writers,
         NEW n \in 0 .. MaxOutput, PutPayload(t, w, n), writer[t] = w
  PROVE  /\ Wrote(t, Payload(w, n)) /\ writer'[t] = "nobody"
         /\ writer' \in [TerminalLinks -> {"nobody"} \cup Writers]
         /\ \A k \in TerminalLinks \ {t} : writer'[k] = writer[k]
<1>1. EndsWith(wire[t], Header(w))
  BY TerminalFacts DEF Bridge, PutPayload
<1>2. wire[t] # <<>> => MayFollow(Payload(w, n), wire[t][Len(wire[t])])
  <2>1. MayFollow(Payload(w, n), Header(w))
    BY DEF MayFollow, Header, Payload
  <2> QED
    BY <1>1, <2>1 DEF EndsWith
<1>3. Wrote(t, Payload(w, n))
  BY <1>2, Pieces, PutWrites DEF PutPayload
<1> QED
  BY <1>3, TerminalFacts DEF PutPayload, TerminalTypes

\* A connection that fails frees the mutex.
LEMMA ReleaseKeeps ==
  ASSUME TerminalsInv, SessionTypes, NEW t \in TerminalLinks,
         writer' = [writer EXCEPT ![t] = "nobody"]
  PROVE  /\ writer' \in [TerminalLinks -> {"nobody"} \cup Writers] /\ writer'[t] = "nobody"
         /\ \A k \in TerminalLinks \ {t} : writer'[k] = writer[k]
  BY TerminalFacts DEF TerminalTypes

LEMMA GotoBridge ==
  ASSUME TerminalsInv, SessionTypes, NEW t \in TerminalLinks, NEW s, Goto(t, s)
  PROVE  stage'[t] = s /\ \A k \in TerminalLinks \ {t} : stage'[k] = stage[k]
  BY TerminalLinksAssumption DEF Goto, SessionTypes

LEMMA CopierGotoBridge ==
  ASSUME TerminalsInv, SessionTypes, NEW t \in TerminalLinks,
         NEW s \in {"off", "read", "record", "header", "payload", "bye"}, CopierGoto(t, s)
  PROVE  /\ copier' \in [TerminalLinks -> {"off", "read", "record", "header", "payload", "bye"}]
         /\ copier'[t] = s /\ \A k \in TerminalLinks \ {t} : copier'[k] = copier[k]
  BY TerminalFacts DEF CopierGoto, TerminalTypes

\* A step of terminal t that writes no piece, and one that does.
LEMMA SilentKeeps ==
  ASSUME TerminalsInv, SessionTypes, NEW t \in TerminalLinks, TerminalTypes',
         UNCHANGED <<wire, writer>>, Connected(t)' => Connected(t),
         copier'[t] = "payload" <=> copier[t] = "payload",
         writer[t] = "handler" => stage'[t] \in {"pong", "protocol error"},
         stage'[t] \in Before => copier'[t] = "off",
         stage'[t] = "forward" => Len(typed'[t]) < MaxInput,
         \A k \in TerminalLinks \ {t} : KeptBridge(k)
  PROVE  TerminalsInv'
<1>1. Bridge(t)'
  BY TerminalFacts DEF Bridge
<1> QED
  BY <1>1, OneBridge

LEMMA LoudKeeps ==
  ASSUME TerminalsInv, SessionTypes, NEW t \in TerminalLinks, TerminalTypes',
         NEW p, Wrote(t, p), \A w \in Writers : p = Header(w) <=> writer'[t] = w,
         copier'[t] = "payload" <=> writer'[t] = "copier",
         writer'[t] = "handler" => stage'[t] \in {"pong", "protocol error"},
         stage'[t] \in Before => copier'[t] = "off", stage'[t] # "forward" \/ UNCHANGED <<stage, typed>>,
         \A k \in TerminalLinks \ {t} : wire'[k] = wire[k] => KeptBridge(k)
  PROVE  TerminalsInv'
<1>1. \A w \in Writers : EndsWith(wire'[t], Header(w)) <=> writer'[t] = w
  BY DEF Wrote, EndsWith
<1>2. stage'[t] = "forward" => Len(typed'[t]) < MaxInput
  BY TerminalFacts DEF Bridge
<1>3. Bridge(t)'
  BY <1>1, <1>2 DEF Wrote, Bridge, EndsWith
<1> QED
  BY <1>3, OneBridge DEF Wrote

\* Only the handler is between two writes while it answers.
LEMMA HandlerIdle ==
  ASSUME TerminalsInv, SessionTypes, NEW t \in TerminalLinks,
         stage[t] \notin {"pong", "protocol error"}
  PROVE  writer[t] # "handler"
  BY TerminalFacts DEF Bridge

LEMMA OpenBridge ==
  ASSUME TerminalsInv, SessionTypes, NEW t \in TerminalLinks,
         OpenTerminal(t) \/ InsertRow(t) \/ BadFrame(t) \/ Leave(t) \/ Ping(t)
  PROVE  TerminalsInv'
<1>1. /\ stage[t] \in {"idle", "admitted", "frame"} /\ writer[t] # "handler"
      /\ UNCHANGED <<wire, writer, transcript, typed, gone, outputs>>
  BY HandlerIdle DEF OpenTerminal, InsertRow, BadFrame, Leave, Ping, terminalVars
<1>2. /\ stage'[t] \in {"connect", "frame", "protocol error", "save", "pong"}
      /\ stage'[t] = "connect" => copier[t] = "off" /\ copier' = copier
      /\ \A k \in TerminalLinks \ {t} : stage'[k] = stage[k]
  <2>1. CASE OpenTerminal(t)
    <3>1. copier[t] = "off"
      BY <2>1, TerminalFacts DEF OpenTerminal, Bridge, Before
    <3> QED
      BY <2>1, <3>1, GotoBridge DEF OpenTerminal, terminalVars
  <2>2. CASE InsertRow(t)
    BY <2>2, GotoBridge DEF InsertRow
  <2>3. CASE BadFrame(t)
    BY <2>3, GotoBridge DEF BadFrame
  <2>4. CASE Leave(t)
    BY <2>4, GotoBridge DEF Leave
  <2>5. CASE Ping(t)
    <3>1. Goto(t, "pong")
      BY <2>5 DEF Ping
    <3>2. stage'[t] = "pong" /\ \A k \in TerminalLinks \ {t} : stage'[k] = stage[k]
      BY <3>1, GotoBridge
    <3> QED
      BY <3>2
  <2> QED
    BY <2>1, <2>2, <2>3, <2>4, <2>5
<1>3. /\ copier' \in [TerminalLinks -> {"off", "read", "record", "header", "payload", "bye"}]
      /\ copier'[t] = copier[t] \/ (copier[t] = "off" /\ copier'[t] = "read")
      /\ \A k \in TerminalLinks \ {t} : copier'[k] = copier[k]
  <2>1. CASE InsertRow(t)
    <3>1. copier[t] = "off"
      BY <2>1, TerminalFacts DEF InsertRow, Bridge, Before, DialStages
    <3> QED
      BY <2>1, <3>1, CopierGotoBridge DEF InsertRow
  <2>2. CASE copier' = copier
    BY <2>2, TerminalFacts DEF TerminalTypes
  <2> QED
    BY <2>1, <2>2 DEF OpenTerminal, BadFrame, Leave, Ping, terminalVars
<1>4. /\ pings' \in [TerminalLinks -> 0 .. MaxPings]
      /\ row' \in [TerminalLinks -> [state : {"none", "open", "saved"}, transcript : Seq(Entry)]]
  <2>1. CASE Ping(t)
    <3>1. pings[t] + 1 \in 0 .. MaxPings
      BY <2>1, TerminalFacts DEF Ping
    <3> QED
      BY <2>1, <3>1, TerminalFacts DEF Ping, TerminalTypes
  <2>2. CASE InsertRow(t)
    <3>1. OpenRow \in [state : {"none", "open", "saved"}, transcript : Seq(Entry)]
      BY DEF OpenRow
    <3> QED
      BY <2>2, <3>1, TerminalFacts DEF InsertRow, TerminalTypes
  <2>3. CASE UNCHANGED <<pings, row>>
    BY <2>3, TerminalFacts DEF TerminalTypes
  <2> QED
    BY <2>1, <2>2, <2>3 DEF OpenTerminal, BadFrame, Leave, terminalVars
<1>5. TerminalTypes'
  BY <1>1, <1>3, <1>4, TerminalFacts DEF TerminalTypes
<1>6. \A k \in TerminalLinks \ {t} : KeptBridge(k)
  BY <1>1, <1>2, <1>3 DEF KeptBridge
<1>7. Connected(t)' => Connected(t)
  BY <1>1 DEF Connected
<1>8. /\ copier'[t] = "payload" <=> copier[t] = "payload"
      /\ stage'[t] \in Before => copier'[t] = "off"
      /\ stage'[t] # "forward"
  BY <1>2, <1>3 DEF Before, DialStages
<1> QED
  BY <1>1, <1>5, <1>6, <1>7, <1>8, SilentKeeps

LEMMA TypeBridge ==
  ASSUME TerminalsInv, SessionTypes, NEW t \in TerminalLinks, Type(t) \/ Forward(t)
  PROVE  TerminalsInv'
<1>1. /\ stage[t] \in {"frame", "forward"} /\ writer[t] # "handler"
      /\ UNCHANGED <<copier, wire, writer, gone, outputs, pings, row>>
  BY HandlerIdle DEF Type, Forward
<1>2. /\ stage'[t] \in {"frame", "forward", "save"}
      /\ \A k \in TerminalLinks \ {t} : stage'[k] = stage[k]
  BY GotoBridge DEF Type, Forward
<1>3. Len(typed[t]) < MaxInput /\ Len(typed[t]) \in Nat
  <2>1. Len(typed[t]) \in Nat
    BY TerminalFacts
  <2>2. Len(typed[t]) < MaxInput
    BY TerminalFacts DEF Type, Forward, Bridge
  <2> QED
    BY <2>1, <2>2
<1>4. transcript' \in [TerminalLinks -> Seq(Entry)]
  <2>1. CASE Type(t)
    <3>1. Input(Len(typed[t]) + 1) \in Entry
      <4>1. Len(typed[t]) + 1 \in 0 .. MaxOutput + MaxInput + 1
        BY <1>3, TerminalFacts
      <4> QED
        BY <4>1 DEF Input, Entry
    <3>2. Append(transcript[t], Input(Len(typed[t]) + 1)) \in Seq(Entry)
      BY <3>1, TerminalFacts
    <3> QED
      BY <2>1, <3>2, TerminalFacts DEF Type, Record, TerminalTypes
  <2>2. CASE Forward(t)
    BY <2>2, TerminalFacts DEF Forward, TerminalTypes
  <2> QED
    BY <2>1, <2>2
<1>5. /\ typed' \in [TerminalLinks -> Seq(1 .. MaxInput)]
      /\ stage'[t] = "forward" => typed' = typed
      /\ \A k \in TerminalLinks \ {t} : typed'[k] = typed[k]
  <2>1. Append(typed[t], Len(typed[t]) + 1) \in Seq(1 .. MaxInput)
    BY <1>3, TerminalFacts
  <2> QED
    <3>1. typed \in [TerminalLinks -> Seq(1 .. MaxInput)]
      BY TerminalFacts DEF TerminalTypes
    <3>2. CASE UNCHANGED typed
      BY <3>1, <3>2
    <3>3. CASE Goto(t, "frame") /\ typed' = [typed EXCEPT ![t] = Append(@, Len(@) + 1)]
      BY <2>1, <3>1, <3>3, GotoBridge
    <3> QED
      BY <3>2, <3>3 DEF Type, Forward
<1>6. TerminalTypes'
  BY <1>1, <1>4, <1>5, TerminalFacts DEF TerminalTypes
<1>7. \A k \in TerminalLinks \ {t} : KeptBridge(k)
  BY <1>1, <1>2, <1>5 DEF KeptBridge
<1>8. Connected(t)' => Connected(t)
  BY <1>1 DEF Connected
<1>9. stage'[t] \notin Before
  BY <1>2 DEF Before, DialStages
<1> QED
  BY <1>1, <1>3, <1>5, <1>6, <1>7, <1>8, <1>9, SilentKeeps

LEMMA SaveBridge ==
  ASSUME TerminalsInv, SessionTypes, NEW t \in TerminalLinks, Save(t)
  PROVE  TerminalsInv'
<1>1. /\ stage[t] = "save" /\ writer[t] # "handler"
      /\ stage'[t] = "closed" /\ \A k \in TerminalLinks \ {t} : stage'[k] = stage[k]
      /\ UNCHANGED <<copier, wire, writer, transcript, typed, gone, outputs, pings>>
  BY HandlerIdle, GotoBridge DEF Save
<1>2. row' \in [TerminalLinks -> [state : {"none", "open", "saved"}, transcript : Seq(Entry)]]
  <2>1. PICK tail \in {<<>>, <<Garbage>>} :
            row' \in {row, [row EXCEPT ![t] = SavedRow(transcript[t] \o tail)]}
    BY DEF Save
  <2>2. Garbage \in Entry
    <3>1. 0 \in 0 .. MaxOutput + MaxInput + 1
      BY TerminalFacts
    <3> QED
      BY <3>1 DEF Garbage, Entry
  <2>3. transcript[t] \o tail \in Seq(Entry)
    <3>1. transcript[t] \in Seq(Entry)
      BY TerminalFacts
    <3>2. <<>> \in Seq(Entry) /\ <<Garbage>> \in Seq(Entry)
      BY <2>2
    <3>3. tail = <<>> \/ tail = <<Garbage>>
      BY <2>1
    <3>4. tail \in Seq(Entry)
      BY <3>2, <3>3
    <3> QED
      BY <3>1, <3>4
  <2>4. SavedRow(transcript[t] \o tail) \in
            [state : {"none", "open", "saved"}, transcript : Seq(Entry)]
    BY <2>3 DEF SavedRow
  <2> QED
    BY <2>1, <2>4, TerminalFacts DEF TerminalTypes
<1>3. TerminalTypes'
  BY <1>1, <1>2, TerminalFacts DEF TerminalTypes
<1>4. \A k \in TerminalLinks \ {t} : KeptBridge(k)
  BY <1>1 DEF KeptBridge
<1>5. ~Connected(t)' /\ stage'[t] \notin Before
  BY <1>1 DEF Connected, Before, DialStages
<1> QED
  BY <1>1, <1>3, <1>4, <1>5, SilentKeeps

LEMMA AnswerBridge ==
  ASSUME TerminalsInv, SessionTypes, NEW t \in TerminalLinks, AnswerHeader(t) \/ AnswerPayload(t)
  PROVE  TerminalsInv'
<1> DEFINE w == "handler"
<1>1. /\ stage[t] \in {"pong", "protocol error"} /\ w \in Writers
      /\ UNCHANGED <<copier, transcript, typed, gone, outputs, pings, row>>
  BY DEF AnswerHeader, AnswerPayload, Writers
<1>2. CASE AnswerHeader(t)
  <2>1. /\ Wrote(t, Header(w)) /\ writer[t] = "nobody" /\ writer'[t] = w
        /\ writer' \in [TerminalLinks -> {"nobody"} \cup Writers]
        /\ \A k \in TerminalLinks \ {t} : writer'[k] = writer[k]
    BY <1>1, <1>2, PutHeaderWrites DEF AnswerHeader
  <2>2. TerminalTypes'
    BY <1>1, <2>1, TerminalFacts DEF TerminalTypes, Wrote
  <2>3. UNCHANGED stage
    BY <1>2 DEF AnswerHeader
  <2>4. \A k \in TerminalLinks \ {t} : wire'[k] = wire[k] => KeptBridge(k)
    BY <1>1, <2>1, <2>3 DEF KeptBridge
  <2>5. copier[t] # "payload" /\ "handler" # "copier"
    BY <2>1, TerminalFacts DEF Bridge
  <2>6. stage'[t] \notin Before
    BY <1>1, <2>3 DEF Before, DialStages
  <2>7. \A v \in Writers : Header(w) = Header(v) <=> writer'[t] = v
    BY <2>1 DEF Header
  <2> QED
    BY <1>1, <2>1, <2>2, <2>3, <2>4, <2>5, <2>6, <2>7, LoudKeeps
<1>3. CASE AnswerPayload(t)
  <2>1. 0 \in 0 .. MaxOutput /\ writer[t] = w /\ PutPayload(t, w, 0)
    <3>1. writer[t] = w /\ PutPayload(t, w, 0)
      BY <1>3 DEF AnswerPayload
    <3>2. 0 \in 0 .. MaxOutput
      BY TerminalFacts
    <3> QED
      BY <3>1, <3>2
  <2>2. /\ Wrote(t, Payload(w, 0)) /\ writer'[t] = "nobody"
        /\ writer' \in [TerminalLinks -> {"nobody"} \cup Writers]
        /\ \A k \in TerminalLinks \ {t} : writer'[k] = writer[k]
    BY <1>1, <2>1, PutPayloadWrites
  <2>3. TerminalTypes'
    BY <1>1, <2>2, TerminalFacts DEF TerminalTypes, Wrote
  <2>4. stage'[t] \in {"frame", "save"} /\ \A k \in TerminalLinks \ {t} : stage'[k] = stage[k]
    BY <1>3, GotoBridge DEF AnswerPayload
  <2>5. \A k \in TerminalLinks \ {t} : wire'[k] = wire[k] => KeptBridge(k)
    BY <1>1, <2>2, <2>4 DEF KeptBridge
  <2>6. copier[t] # "payload"
    BY <2>1, TerminalFacts DEF Bridge
  <2>7. stage'[t] \notin Before /\ stage'[t] # "forward"
    BY <2>4 DEF Before, DialStages
  <2>8. \A v \in Writers : Payload(w, 0) = Header(v) <=> writer'[t] = v
    BY <1>1, <2>1, <2>2, Pieces DEF Writers
  <2> QED
    BY <1>1, <2>2, <2>3, <2>5, <2>6, <2>7, <2>8, LoudKeeps
<1> QED
  BY <1>2, <1>3

\* After a write has failed there are no more pieces, whoever gives the mutex back.
LEMMA ReleaseBridge ==
  ASSUME TerminalsInv, SessionTypes, NEW t \in TerminalLinks, AnswerFails(t) \/ CopierFails(t)
  PROVE  TerminalsInv'
<1>1. /\ ~Connected(t) /\ writer' = [writer EXCEPT ![t] = "nobody"]
      /\ UNCHANGED <<wire, transcript, typed, gone, outputs, pings, row>>
  BY DEF AnswerFails, CopierFails
<1>2. /\ writer' \in [TerminalLinks -> {"nobody"} \cup Writers] /\ writer'[t] = "nobody"
      /\ \A k \in TerminalLinks \ {t} : writer'[k] = writer[k]
  BY <1>1, ReleaseKeeps
<1>3. CASE AnswerFails(t)
  <2>1. /\ stage[t] \in {"pong", "protocol error"} /\ UNCHANGED copier
        /\ CanWrite(t) \/ writer[t] = "handler"
    BY <1>3 DEF AnswerFails
  <2>2. stage'[t] \in {"frame", "save"} /\ \A k \in TerminalLinks \ {t} : stage'[k] = stage[k]
    BY <1>3, GotoBridge DEF AnswerFails
  <2>3. TerminalTypes'
    BY <1>1, <1>2, <2>1, TerminalFacts DEF TerminalTypes
  <2>4. \A k \in TerminalLinks \ {t} : KeptBridge(k)
    BY <1>1, <1>2, <2>1, <2>2 DEF KeptBridge
  <2>5. copier[t] # "payload"
    BY <2>1, TerminalFacts DEF Bridge, CanWrite
  <2>6. ~Connected(t)'
    BY <1>1, <2>1 DEF Connected
  <2>7. stage'[t] \notin Before /\ stage'[t] # "forward"
    BY <2>2 DEF Before, DialStages
  <2>8. Bridge(t)'
    BY <1>1, <1>2, <2>1, <2>5, <2>6, <2>7, TerminalFacts DEF Bridge
  <2> QED
    BY <2>3, <2>4, <2>8, OneBridge
<1>4. CASE CopierFails(t)
  <2>1. /\ UNCHANGED stage /\ copier[t] # "off" /\ CopierGoto(t, "off")
        /\ CanWrite(t) \/ copier[t] = "payload"
    BY <1>4 DEF CopierFails
  <2>2. /\ copier' \in [TerminalLinks -> {"off", "read", "record", "header", "payload", "bye"}]
        /\ copier'[t] = "off" /\ \A k \in TerminalLinks \ {t} : copier'[k] = copier[k]
    BY <2>1, CopierGotoBridge
  <2>3. TerminalTypes'
    BY <1>1, <1>2, <2>2, TerminalFacts DEF TerminalTypes
  <2>4. \A k \in TerminalLinks \ {t} : KeptBridge(k)
    BY <1>1, <1>2, <2>1, <2>2 DEF KeptBridge
  <2>5. ~Connected(t)'
    BY <1>1, <2>1 DEF Connected
  <2>6. Bridge(t)'
    BY <1>1, <1>2, <2>1, <2>2, <2>5, TerminalFacts DEF Bridge
  <2> QED
    BY <2>3, <2>4, <2>6, OneBridge
<1> QED
  BY <1>3, <1>4

LEMMA CopierQuietBridge ==
  ASSUME TerminalsInv, SessionTypes, NEW t \in TerminalLinks,
         CopierRead(t) \/ CopierRecord(t) \/ BrowserGoes(t)
  PROVE  TerminalsInv'
<1>1. /\ copier[t] # "off" /\ UNCHANGED <<stage, wire, writer, typed, pings, row>>
  BY DEF CopierRead, CopierRecord, BrowserGoes
<1>2. /\ copier' \in [TerminalLinks -> {"off", "read", "record", "header", "payload", "bye"}]
      /\ copier'[t] = "payload" <=> copier[t] = "payload"
      /\ \A k \in TerminalLinks \ {t} : copier'[k] = copier[k]
  <2>1. CASE CopierRead(t)
    BY <2>1, CopierGotoBridge DEF CopierRead
  <2>2. CASE CopierRecord(t)
    BY <2>2, CopierGotoBridge DEF CopierRecord
  <2>3. CASE BrowserGoes(t)
    BY <2>3, TerminalFacts DEF BrowserGoes, TerminalTypes
  <2> QED
    BY <2>1, <2>2, <2>3
<1>3. outputs' \in [TerminalLinks -> 0 .. MaxOutput]
  <2>1. outputs \in [TerminalLinks -> 0 .. MaxOutput]
    BY TerminalFacts DEF TerminalTypes
  <2>2. CASE outputs[t] < MaxOutput /\ outputs' = [outputs EXCEPT ![t] = @ + 1]
    BY <2>1, <2>2, TerminalFacts
  <2> QED
    BY <2>1, <2>2 DEF CopierRead, CopierRecord, BrowserGoes
<1>4. transcript' \in [TerminalLinks -> Seq(Entry)]
  <2>1. CASE CopierRecord(t)
    <3>1. outputs[t] \in 0 .. MaxOutput + MaxInput + 1
      BY TerminalFacts
    <3>2. Output(outputs[t]) \in Entry
      BY <3>1 DEF Output, Entry
    <3>3. Append(transcript[t], Output(outputs[t])) \in Seq(Entry)
      BY <3>2, TerminalFacts
    <3> QED
      BY <2>1, <3>3, TerminalFacts DEF CopierRecord, Record, TerminalTypes
  <2>2. CASE UNCHANGED transcript
    BY <2>2, TerminalFacts DEF TerminalTypes
  <2> QED
    BY <2>1, <2>2 DEF CopierRead, BrowserGoes
<1>5. /\ gone' \in [TerminalLinks -> BOOLEAN]
      /\ gone[t] => gone'[t]
      /\ \A k \in TerminalLinks \ {t} : gone'[k] = gone[k]
  BY TerminalFacts DEF CopierRead, CopierRecord, BrowserGoes, TerminalTypes
<1>6. TerminalTypes'
  BY <1>1, <1>2, <1>3, <1>4, <1>5, TerminalFacts DEF TerminalTypes
<1>7. \A k \in TerminalLinks \ {t} : KeptBridge(k)
  BY <1>1, <1>2, <1>5 DEF KeptBridge
<1>8. Connected(t)' => Connected(t)
  BY <1>1, <1>5 DEF Connected
<1> QED
  BY <1>1, <1>2, <1>6, <1>7, <1>8, TerminalFacts, SilentKeeps DEF Bridge

LEMMA CopierLoudBridge ==
  ASSUME TerminalsInv, SessionTypes, NEW t \in TerminalLinks,
         CopierHeader(t) \/ CopierPayload(t) \/ CopierBye(t)
  PROVE  TerminalsInv'
<1> DEFINE w == "copier"
<1>1. /\ copier[t] # "off" /\ w \in Writers
      /\ UNCHANGED <<stage, transcript, typed, gone, outputs, pings, row>>
  BY DEF CopierHeader, CopierPayload, CopierBye, Writers
<1>2. outputs[t] \in 0 .. MaxOutput /\ stage[t] \notin Before
  BY <1>1, TerminalFacts DEF Bridge
<1>3. PICK p : /\ Wrote(t, p) /\ \A v \in Writers : p = Header(v) <=> writer'[t] = v
               /\ writer'[t] \in {"nobody", "copier"}
               /\ writer' \in [TerminalLinks -> {"nobody"} \cup Writers]
               /\ \A k \in TerminalLinks \ {t} : writer'[k] = writer[k]
               /\ copier'[t] = "payload" <=> writer'[t] = "copier"
               /\ copier' \in [TerminalLinks ->
                                   {"off", "read", "record", "header", "payload", "bye"}]
               /\ \A k \in TerminalLinks \ {t} : copier'[k] = copier[k]
  <2>1. CASE CopierHeader(t)
    <3>1. PutHeader(t, w) /\ CopierGoto(t, "payload")
      BY <2>1 DEF CopierHeader
    <3>2. /\ Wrote(t, Header(w)) /\ writer'[t] = w
          /\ writer' \in [TerminalLinks -> {"nobody"} \cup Writers]
          /\ \A k \in TerminalLinks \ {t} : writer'[k] = writer[k]
      BY <1>1, <3>1, PutHeaderWrites
    <3>3. \A v \in Writers : Header(w) = Header(v) <=> writer'[t] = v
      BY <3>2 DEF Header
    <3> QED
      BY <3>1, <3>2, <3>3, CopierGotoBridge
  <2>2. CASE CopierPayload(t)
    <3>1. PutPayload(t, w, outputs[t]) /\ CopierGoto(t, "read") /\ writer[t] = w
      BY <2>2, TerminalFacts DEF CopierPayload, Bridge
    <3>2. /\ Wrote(t, Payload(w, outputs[t])) /\ writer'[t] = "nobody"
          /\ writer' \in [TerminalLinks -> {"nobody"} \cup Writers]
          /\ \A k \in TerminalLinks \ {t} : writer'[k] = writer[k]
      BY <1>1, <1>2, <3>1, PutPayloadWrites
    <3>3. \A v \in Writers : Payload(w, outputs[t]) = Header(v) <=> writer'[t] = v
      BY <1>1, <1>2, <3>2, Pieces DEF Writers
    <3> QED
      BY <3>1, <3>2, <3>3, CopierGotoBridge
  <2>3. CASE CopierBye(t)
    <3>1. /\ Connected(t) /\ CanWrite(t) /\ Put(t, Bare(w)) /\ CopierGoto(t, "off")
          /\ UNCHANGED writer
      BY <2>3 DEF CopierBye
    <3>2. Bare(w) \in Piece /\ Bare(w).part = "frame without payload"
      BY <1>1, <1>2, Pieces
    <3>3. Wrote(t, Bare(w))
      BY <3>1, <3>2, BetweenFrames, PutWrites
    <3>4. writer'[t] = "nobody" /\ writer \in [TerminalLinks -> {"nobody"} \cup Writers]
      BY <3>1, TerminalFacts DEF CanWrite, TerminalTypes
    <3>5. \A v \in Writers : Bare(w) = Header(v) <=> writer'[t] = v
      BY <1>1, <1>2, <3>4, Pieces DEF Writers
    <3> QED
      BY <3>1, <3>3, <3>4, <3>5, CopierGotoBridge
  <2> QED
    BY <2>1, <2>2, <2>3
<1>4. TerminalTypes'
  BY <1>1, <1>3, TerminalFacts DEF TerminalTypes, Wrote
<1>5. \A k \in TerminalLinks \ {t} : wire'[k] = wire[k] => KeptBridge(k)
  BY <1>1, <1>3 DEF KeptBridge
<1>6. /\ Wrote(t, p) /\ \A v \in Writers : p = Header(v) <=> writer'[t] = v
      /\ copier'[t] = "payload" <=> writer'[t] = "copier"
  BY <1>3
<1>7. /\ writer'[t] = "handler" => stage'[t] \in {"pong", "protocol error"}
      /\ stage'[t] \in Before => copier'[t] = "off"
      /\ stage'[t] # "forward" \/ UNCHANGED <<stage, typed>>
  BY <1>1, <1>2, <1>3
<1> HIDE DEF w
<1> QED
  BY <1>4, <1>5, <1>6, <1>7, LoudKeeps

LEMMA ClearBridge ==
  ASSUME TerminalsInv, SessionTypes, NEW t \in TerminalLinks, Clear(t)
  PROVE  TerminalsInv'
<1>1. /\ copier[t] = "off" /\ writer[t] = "nobody" /\ UNCHANGED <<copier, writer>>
  <2>1. stage[t] = "closed" /\ copier[t] = "off" /\ UNCHANGED <<copier, writer>>
    BY DEF Clear
  <2> QED
    BY <2>1, TerminalFacts DEF Bridge, TerminalTypes, Writers
<1>2. stage'[t] = "idle" /\ \A k \in TerminalLinks \ {t} : stage'[k] = stage[k]
  BY GotoBridge DEF Clear
<1>3. /\ wire' \in [TerminalLinks -> Seq(Piece)] /\ wire'[t] = <<>>
      /\ transcript' \in [TerminalLinks -> Seq(Entry)]
      /\ typed' \in [TerminalLinks -> Seq(1 .. MaxInput)]
      /\ \A k \in TerminalLinks \ {t} : wire'[k] = wire[k] /\ typed'[k] = typed[k]
  BY TerminalFacts DEF Clear, TerminalTypes
<1>4. /\ gone' \in [TerminalLinks -> BOOLEAN]
      /\ outputs' \in [TerminalLinks -> 0 .. MaxOutput] /\ pings' \in [TerminalLinks -> 0 .. MaxPings]
      /\ \A k \in TerminalLinks \ {t} : gone'[k] = gone[k]
  BY TerminalFacts DEF Clear, TerminalTypes
<1>5. row' \in [TerminalLinks -> [state : {"none", "open", "saved"}, transcript : Seq(Entry)]]
  <2>1. NoRow \in [state : {"none", "open", "saved"}, transcript : Seq(Entry)]
    BY DEF NoRow
  <2> QED
    BY <2>1, TerminalFacts DEF Clear, TerminalTypes
<1>6. TerminalTypes'
  BY <1>1, <1>3, <1>4, <1>5, TerminalFacts DEF TerminalTypes
<1>7. \A k \in TerminalLinks \ {t} : KeptBridge(k)
  BY <1>1, <1>2, <1>3, <1>4 DEF KeptBridge
<1>8. Bridge(t)'
  BY <1>1, <1>2, <1>3 DEF Bridge, Whole, EndsWith, Writers
<1> QED
  BY <1>6, <1>7, <1>8, OneBridge

LEMMA TerminalStages ==
  ASSUME NEW t \in TerminalLinks, TerminalStep(t), stage \in [Links -> Before \cup SessionStages]
  PROVE  stage' \in [Links -> Before \cup SessionStages]
<1>1. UNCHANGED stage \/ \E s \in Before \cup SessionStages : Goto(t, s)
  <2> USE DEF Before, DialStages, SessionStages
  <2>1. CASE OpenTerminal(t) \/ InsertRow(t) \/ Type(t) \/ Forward(t) \/ Ping(t) \/ BadFrame(t) \/ Leave(t)
    BY <2>1 DEF OpenTerminal, InsertRow, Type, Forward, Ping, BadFrame, Leave
  <2>2. CASE AnswerHeader(t) \/ AnswerPayload(t) \/ AnswerFails(t) \/ Save(t) \/ Clear(t)
    BY <2>2 DEF AnswerHeader, AnswerPayload, AnswerFails, Save, Clear
  <2>3. CASE CopierStep(t) \/ BrowserGoes(t)
    BY <2>3 DEF CopierStep, CopierRead, CopierRecord, CopierHeader, CopierPayload, CopierFails,
                CopierBye, BrowserGoes
  <2> QED
    BY <2>1, <2>2, <2>3 DEF TerminalStep, HandlerStep
<1> QED
  BY <1>1 DEF Goto

LEMMA TerminalKeepsTerminals ==
  ASSUME TerminalsInv, SessionTypes, NEW t \in TerminalLinks, TerminalStep(t)
  PROVE  TerminalsInv'
  BY OpenBridge, TypeBridge, SaveBridge, AnswerBridge, ReleaseBridge, CopierQuietBridge,
     CopierLoudBridge, ClearBridge
  DEF TerminalStep, HandlerStep, CopierStep

\* Everything else leaves the terminals alone, and their stages but for a dial.
LEMMA OtherwiseKeepsTerminals ==
  ASSUME TerminalsInv, UNCHANGED terminalVars,
         \A t \in TerminalLinks : stage'[t] # stage[t] => stage[t] \in Before /\ stage'[t] \in Before
  PROVE  TerminalsInv'
<1> USE DEF terminalVars
<1>1. TerminalTypes'
  BY DEF TerminalsInv, TerminalTypes
<1>2. ASSUME NEW t \in TerminalLinks PROVE Bridge(t)'
  <2>1. CASE stage'[t] = stage[t]
    BY <2>1, KeptBridgeKeeps DEF TerminalsInv, KeptBridge
  <2>2. CASE stage'[t] # stage[t]
    <3>1. /\ stage[t] \notin {"pong", "protocol error", "forward", "closed"}
          /\ stage'[t] \notin {"pong", "protocol error", "forward", "closed"}
          /\ stage[t] \in Before
      BY <2>2 DEF Before, DialStages
    <3>2. Connected(t)' <=> Connected(t)
      BY <3>1 DEF Connected
    <3> QED
      BY <3>1, <3>2 DEF TerminalsInv, Bridge
  <2> QED
    BY <2>1, <2>2
<1> QED
  BY <1>1, <1>2 DEF TerminalsInv

-------------------------------------------------------------------------------
(***************************************************************************)
(* The links together.                                                     *)
(***************************************************************************)

DialTypes == unpins \in 0 .. MaxUnpins /\ offered \in [Links -> Offer \cup {NoOffer}]

IInv == KeysInv /\ DialTypes /\ SessionsInv /\ TerminalsInv /\ InBound

\* A dial goes on, or ends, before there is a session.
LEMMA HostKeyStages ==
  ASSUME NEW l \in Links, HostKeyStep(l), stage \in [Links -> Before \cup SessionStages]
  PROVE  /\ stage' \in [Links -> Before \cup SessionStages]
         /\ \A k \in Links : stage'[k] # stage[k] => stage[k] \in Before /\ stage'[k] \in Before
<1>1. stage[l] \in DialStages
  BY DEF HostKeyStep, Handshake, Check, Add, CompareStored, DialFails, DialStages
<1>2. PICK s \in {"check", "add", "compare", "admitted", "idle"} : Goto(l, s)
  BY DEF HostKeyStep, Handshake, Check, Add, CompareStored, DialFails, Accept, Refuse
<1>3. s \in Before
  BY <1>2 DEF Before, DialStages
<1> QED
  BY <1>1, <1>2, <1>3 DEF Goto, Before

LEMMA HostKeyTypes ==
  ASSUME DialTypes, NEW l \in Links, HostKeyStep(l)
  PROVE  DialTypes'
<1>1. UNCHANGED unpins
  BY DEF HostKeyStep, Handshake, Check, Add, CompareStored, DialFails
<1>2. \/ \E o \in Offer \cup {NoOffer} : offered' = [offered EXCEPT ![l] = o]
      \/ UNCHANGED offered
  BY DEF HostKeyStep, Handshake, Check, Add, CompareStored, DialFails, Accept, Refuse, Forget
<1> QED
  BY <1>1, <1>2 DEF DialTypes

\* Links that only dial do not change how many are in session.
LEMMA DialsAreFree ==
  ASSUME stage \in [Links -> Before \cup SessionStages],
         stage' \in [Links -> Before \cup SessionStages],
         \A k \in Links : stage'[k] # stage[k] => stage[k] \in Before /\ stage'[k] \in Before,
         InBound
  PROVE  InBound'
<1>1. Before \cap SessionStages = {}
  BY DEF Before, DialStages, SessionStages
<1>2. InSession' = InSession
  BY <1>1 DEF InSession
<1> QED
  BY <1>2 DEF InBound

LEMMA LinksInit == Init => IInv
<1> SUFFICES ASSUME Init PROVE IInv
  OBVIOUS
<1>1. DialTypes
  BY BoundsAssumption DEF Init, HostKeysInit, DialTypes
<1>2. InSession = {}
  BY DEF Init, InSession, SessionStages
<1>3. InBound
  BY <1>2, FS_EmptySet, BoundsAssumption DEF InBound
<1> QED
  BY <1>1, <1>3, KeysInit, SessionsInit, TerminalsInit DEF IInv

LEMMA LinksNext == IInv /\ [Next]_vars => IInv'
<1> SUFFICES ASSUME IInv, [Next]_vars PROVE IInv'
  OBVIOUS
<1>1. /\ KeysInv' /\ DialTypes /\ SessionsInv /\ TerminalsInv /\ InBound /\ SessionTypes
      /\ stage \in [Links -> Before \cup SessionStages]
  BY KeysNext DEF IInv, SessionsInv, SessionTypes
<1>2. ASSUME NEW l \in Links, HostKeyNext(l) PROVE IInv'
  <2>1. /\ stage' \in [Links -> Before \cup SessionStages]
        /\ \A k \in Links : stage'[k] # stage[k] => stage[k] \in Before /\ stage'[k] \in Before
    BY <1>1, <1>2, HostKeyStages DEF HostKeyNext
  <2>2. SessionsInv'
    BY <1>1, <1>2, <2>1, ScriptLinksAssumption, OtherwiseKeepsSessions DEF HostKeyNext
  <2>3. TerminalsInv'
    BY <1>1, <1>2, <2>1, TerminalLinksAssumption, OtherwiseKeepsTerminals DEF HostKeyNext
  <2>4. InBound'
    BY <1>1, <2>1, DialsAreFree
  <2>5. DialTypes'
    BY <1>1, <1>2, HostKeyTypes DEF HostKeyNext
  <2> QED
    BY <1>1, <2>2, <2>3, <2>4, <2>5 DEF IInv
<1>3. ASSUME UNCHANGED <<stage, sessionVars, terminalVars>>, DialTypes' PROVE IInv'
  <2>1. SessionsInv'
    BY <1>1, <1>3, OtherwiseKeepsSessions
  <2>2. TerminalsInv'
    BY <1>1, <1>3, OtherwiseKeepsTerminals
  <2>3. InBound'
    BY <1>1, <1>3 DEF InBound, InSession
  <2> QED
    BY <1>1, <1>3, <2>1, <2>2, <2>3 DEF IInv
<1>4. ASSUME NEW s \in Slots, UnpinNext(s) PROVE IInv'
  <2>1. DialTypes'
    BY <1>1, <1>4, BoundsAssumption DEF UnpinNext, Unpin, DialTypes
  <2> QED
    BY <1>3, <1>4, <2>1 DEF UnpinNext, Unpin
<1>5. ASSUME NEW l \in ScriptLinks, ScriptNext(l) PROVE IInv'
  <2>1. SessionsInv'
    BY <1>1, <1>5, ScriptKeepsSessions DEF ScriptNext
  <2>2. Elsewhere(l) /\ l \in Links
    BY <1>5, ScriptsAreElsewhere, ScriptLinksAssumption DEF ScriptNext
  <2>3. \A t \in TerminalLinks : t \in Links \ {l}
    BY LinksAssumption
  <2>4. \A t \in TerminalLinks : stage'[t] = stage[t]
    BY <2>2, <2>3, ElsewhereKeeps DEF IInv
  <2>5. TerminalsInv'
    BY <1>1, <1>5, <2>4, OtherwiseKeepsTerminals DEF ScriptNext
  <2>6. DialTypes'
    BY <1>1, <2>2 DEF Elsewhere, hostKeyVars, DialTypes
  <2> QED
    BY <1>1, <1>5, <2>1, <2>5, <2>6 DEF IInv, ScriptNext
<1>6. ASSUME NEW t \in TerminalLinks, TerminalNext(t) PROVE IInv'
  <2>1. TerminalsInv'
    BY <1>1, <1>6, TerminalKeepsTerminals DEF TerminalNext
  <2>2. Elsewhere(t) /\ t \in Links
    BY <1>6, TerminalsAreElsewhere, TerminalLinksAssumption DEF TerminalNext
  <2>3. \A l \in ScriptLinks : l \in Links \ {t}
    BY LinksAssumption
  <2>4. \A l \in ScriptLinks : stage'[l] = stage[l]
    BY <2>2, <2>3, ElsewhereKeeps DEF IInv
  <2>5. stage' \in [Links -> Before \cup SessionStages]
    BY <1>1, <1>6, TerminalStages DEF TerminalNext
  <2>6. SessionsInv'
    BY <1>1, <1>6, <2>4, <2>5, OtherwiseKeepsSessions DEF TerminalNext
  <2>7. DialTypes'
    BY <1>1, <2>2 DEF Elsewhere, hostKeyVars, DialTypes
  <2> QED
    BY <1>1, <1>6, <2>1, <2>6, <2>7 DEF IInv, TerminalNext
<1>7. CASE UNCHANGED vars
  BY <1>1, <1>3, <1>7 DEF vars, hostKeyVars, DialTypes
<1> QED
  BY <1>2, <1>4, <1>5, <1>6, <1>7 DEF Next

(***************************************************************************)
(* Every state of the links satisfies the inductive invariant.             *)
(***************************************************************************)
THEOREM InductiveInvariant == Spec => []IInv
  BY LinksInit, LinksNext, PTL DEF Spec

(***************************************************************************)
(* Every variable of the links has its type: no session reads more than    *)
(* its device said, and none is counted past the bound.                    *)
(***************************************************************************)
THEOREM TypeCorrect == Spec => []TypeOK
<1>1. ASSUME IInv PROVE TypeOK
  <2>1. /\ SessionTypes /\ TerminalTypes /\ DialTypes /\ PinsTypeOK /\ InBound
        /\ \A l \in ScriptLinks : Counts(l)
    BY <1>1 DEF IInv, KeysInv, SessionsInv, SessionInv, TerminalsInv
  <2>2. HostKeysTypeOK
    BY <2>1 DEF DialTypes, PinsTypeOK, HostKeysTypeOK
  <2>3. TerminalTypeOK
    BY <2>1 DEF TerminalTypes, TerminalTypeOK, Writers
  <2>4. ASSUME NEW l \in ScriptLinks
        PROVE  /\ turn[l] \in 0 .. Len(Script(l)) + 1
               /\ asked[l] \in 0 .. Len(Script(l)) + 1
               /\ read[l] \in 0 .. said[l] /\ said[l] \in 0 .. 2 * asked[l]
               /\ strays[l] \in 0 .. asked[l] /\ buffer[l] \subseteq 1 .. read[l]
               /\ artifacts[l] \subseteq [request : 1 .. asked[l], parts : SUBSET (1 .. read[l])]
    <3>1. /\ Len(Script(l)) \in Nat /\ Counts(l)
          /\ turn[l] \in Nat /\ asked[l] \in Nat /\ said[l] \in Nat /\ read[l] \in Nat
          /\ strays[l] \in Nat
      BY <2>1, ScriptTypes DEF SessionTypes
    <3> QED
      BY <3>1 DEF Counts
  <2>5. DeviceSessionTypeOK
    BY <2>1, <2>4 DEF DeviceSessionTypeOK, SessionTypes
  <2>6. stage \in [Links -> {"idle"} \cup DialStages \cup SessionStages]
    BY <2>1 DEF SessionTypes, Before
  <2> QED
    BY <2>1, <2>2, <2>3, <2>5, <2>6 DEF TypeOK
<1> QED
  BY <1>1, InductiveInvariant, PTL

(***************************************************************************)
(* However many links dial however many hosts at once, and whatever rows   *)
(* are deleted meanwhile, the keys accepted for a host are the one key     *)
(* pinned for it (transport/known_hosts.go).                               *)
(***************************************************************************)
THEOREM AcceptedKeysArePinned == Spec => []TrustedKeysArePinned
<1>1. IInv => TrustedKeysArePinned
  BY DEF IInv, KeysInv
<1> QED
  BY <1>1, InductiveInvariant, PTL

(***************************************************************************)
(* Whatever drivers the devices have, and however late or broken off they  *)
(* answer, no backup that is not cancelled takes the answer to one command *)
(* for the answer to another (transport/*.go, drivers/builtin).            *)
(***************************************************************************)
THEOREM CollectedAnswersAreTheirs == Spec => []ArtifactsAreTheirs
<1>1. IInv => ArtifactsAreTheirs
  BY DEF IInv, SessionsInv, SessionInv, InStep, ArtifactOK, Own, ArtifactsAreTheirs
<1> QED
  BY <1>1, InductiveInvariant, PTL

(***************************************************************************)
(* Every browser of any number of terminals is sent whole frames, whatever *)
(* the two goroutines that write to it do (terminal.go, safeWrite).        *)
(***************************************************************************)
THEOREM BrowsersSeeWholeFrames == Spec => []FramesAreWhole
<1>1. IInv => FramesAreWhole
  BY DEF IInv, TerminalsInv, Bridge, Whole, MayFollow, FramesAreWhole
<1> QED
  BY <1>1, InductiveInvariant, PTL

-------------------------------------------------------------------------------
(***************************************************************************)
(* The calls of remote pollers (PollerSessions).  A call knows, at each of *)
(* its steps, what it has read and checked; what it knows survives the     *)
(* steps of the others because messages and registrations are only ever    *)
(* added and a poller's last proof only moves forward.                     *)
(***************************************************************************)

CallVariables == [tenant : Tenants, poller : 0 .. MaxPollers, token : 0 .. MaxPollers,
                  nonce : 0 .. MaxMessages, time : Times, job : Jobs]
Session == [tenant : Tenants, token : 0 .. MaxPollers,
            expires : {NoTime} \cup Lease .. MaxTime + Lease]

\* A poller proved its token in the past, and its session ends within a lease of that.
LeasesInv ==
    /\ \A p \in Ids : proved[p] <= now
    /\ \A p \in Ids : sessions[p].token # 0 =>
           /\ sessions[p].token = p /\ proved[p] # NoTime
           /\ sessions[p].expires <= proved[p] + Lease

\* A job is held by a poller that is registered with its tenant, or by none.
HoldersInv == \A j \in Jobs : owner[j] # 0 => Registered(owner[j], JobTenant[j])

\* What a call knows at its next step.
CallInv(c) ==
    LET l == local[c] IN
    /\ pc[c] = "nonce" =>
           /\ l.nonce \in 1 .. Len(sent)
           /\ 0 <= l.time /\ l.time <= now /\ now - l.time <= Lag
           /\ l.time - sent[l.nonce].stamp <= Window
    /\ pc[c] = "select" => l.nonce \in 1 .. Len(sent)
    /\ pc[c] \in {"touch", "record", "claim", "update", "report"} =>
           l.poller \in Known /\ l.token = l.poller
    /\ pc[c] = "record" =>
           /\ proved[l.poller] # NoTime
           /\ Lease <= l.time /\ l.time <= proved[l.poller] + Lease

CallsInv == \A c \in Calls : CallInv(c)

\* A message that passed is remembered for longer than its stamp is within the
\* window, or the window is past by more than a call may be held up.
PassedInv(n) ==
    /\ passed[n] <= 1
    /\ passed[n] # 0 =>
           /\ n <= Len(sent)
           /\ \/ nonces[n] > sent[n].stamp + Window
              \/ now > sent[n].stamp + Window + 1

ReplayInv == \A n \in 1 .. MaxMessages : PassedInv(n)

ListenerInv == ListenerTypeOK /\ LeasesInv /\ HoldersInv /\ CallsInv

-------------------------------------------------------------------------------
LEMMA BlankTypes ==
  /\ Blank \in CallVariables /\ NoSession \in Session
  /\ Blank.poller = 0 /\ Blank.token = 0 /\ Blank.nonce = 0 /\ Blank.time = NoTime
  /\ NoSession.token = 0
<1>1. (CHOOSE t \in Tenants : TRUE) \in Tenants /\ (CHOOSE j \in Jobs : TRUE) \in Jobs
  BY JobsAssumption
<1>2. NoTime \in Times /\ 0 \in 0 .. MaxPollers /\ 0 \in 0 .. MaxMessages
  BY ListenerBounds DEF Times
<1> QED
  BY <1>1, <1>2 DEF Blank, NoSession, CallVariables, Session

\* The parts of the type invariant that are about the process.
CallTypes == pc \in [Calls -> Steps] /\ local \in [Calls -> CallVariables]
TableTypes ==
    /\ pollers \in Seq(Row) /\ Len(pollers) <= MaxPollers
    /\ status \in [Jobs -> {"queued", "claimed", "done"}]
    /\ owner \in [Jobs -> 0 .. MaxPollers]
    /\ sent \in Seq(Message) /\ Len(sent) <= MaxMessages
MemoryTypes ==
    /\ sessions \in [Ids -> Session]
    /\ nonces \in [1 .. MaxMessages -> {NoTime} \cup Window .. MaxTime + Window] /\ nonceGC \in Times
ProcessTypes ==
    /\ phase \in {"serving", "stopping", "down"}
    /\ starts \in 1 .. MaxStarts /\ now \in 0 .. MaxTime
ProvedTypes == proved \in [Ids -> Times] /\ passed \in [1 .. MaxMessages -> Nat]

LEMMA TypesByPart ==
  ListenerTypeOK <=> CallTypes /\ TableTypes /\ MemoryTypes /\ ProcessTypes /\ ProvedTypes
  BY DEF ListenerTypeOK, CallTypes, TableTypes, MemoryTypes, ProcessTypes, ProvedTypes,
         CallVariables, Session

LEMMA TypesByPartNext ==
  ListenerTypeOK' <=> CallTypes' /\ TableTypes' /\ MemoryTypes' /\ ProcessTypes' /\ ProvedTypes'
  BY DEF ListenerTypeOK, CallTypes, TableTypes, MemoryTypes, ProcessTypes, ProvedTypes,
         CallVariables, Session, Times, Ids, Row, Message, Steps

\* The ids of the registered pollers are within the bound.
LEMMA KnownIds ==
  ASSUME TableTypes
  PROVE  /\ Known \subseteq Ids /\ Known \subseteq 0 .. MaxPollers
         /\ \A p \in Known : p # 0 /\ pollers[p] \in Row
         /\ \A n \in 1 .. Len(sent) : sent[n] \in Message /\ n \in 1 .. MaxMessages
  BY ListenerBounds DEF TableTypes, Known, Ids

LEMMA TimesAreIntegers ==
  ASSUME ProcessTypes
  PROVE  /\ Lease \in Nat /\ Window \in Nat /\ Sweep \in Nat /\ Lag \in Nat /\ Skew \in Nat
         /\ MaxTime \in Nat /\ now \in Nat /\ now <= MaxTime /\ NoTime \in Int /\ NoTime < 0
         /\ now \in Times /\ now + Lease \in Times /\ now + Window \in Times
  BY TimesAssumption DEF ProcessTypes, Times, NoTime

-------------------------------------------------------------------------------
(***************************************************************************)
(* What the steps leave alone.                                             *)
(***************************************************************************)

\* Nothing that a call relies on is taken back.
OnlyGrows ==
    /\ Len(pollers) \in Nat /\ Len(pollers') \in Nat /\ Len(pollers) <= Len(pollers')
    /\ Len(sent) \in Nat /\ Len(sent') \in Nat /\ Len(sent) <= Len(sent')
    /\ \A n \in 1 .. Len(sent) : sent'[n] = sent[n]
    /\ \A p \in Ids : proved[p] <= proved'[p]

LEMMA TheSameGrows ==
  ASSUME TableTypes, ProvedTypes, UNCHANGED <<pollers, sent, proved>>
  PROVE  OnlyGrows
<1>1. \A p \in Ids : proved[p] \in Int
  BY TimesAssumption DEF ProvedTypes, Times, NoTime
<1>2. Len(pollers) \in Nat /\ Len(sent) \in Nat
  BY DEF TableTypes
<1> QED
  BY <1>1, <1>2 DEF OnlyGrows

LEMMA CallKeeps ==
  ASSUME NEW c \in Calls, TableTypes, ProvedTypes, CallTypes, ProvedTypes', CallInv(c), OnlyGrows,
         pc'[c] = pc[c], local'[c] = local[c],
         pc[c] = "nonce" => now <= now' /\ now' - local[c].time <= Lag,
         now \in Nat, now' \in Nat
  PROVE  CallInv(c)'
<1> DEFINE l == local[c]
<1>1. l.time \in Int /\ l.poller \in Int /\ l.token \in Int /\ l.nonce \in Int
  BY TimesAssumption, ListenerBounds DEF CallTypes, CallVariables, Times, NoTime
<1>2. /\ \A p \in Ids : proved[p] \in Times /\ proved'[p] \in Times
      /\ \A i \in Times : i \in Int /\ i >= NoTime
  BY TimesAssumption DEF ProvedTypes, Times, NoTime, Ids
<1>3. ASSUME pc[c] = "nonce"
      PROVE  /\ l.nonce \in 1 .. Len(sent')
             /\ 0 <= l.time /\ l.time <= now' /\ now' - l.time <= Lag
             /\ l.time - sent'[l.nonce].stamp <= Window
  <2>1. /\ l.nonce \in 1 .. Len(sent)
        /\ 0 <= l.time /\ l.time <= now
        /\ l.time - sent[l.nonce].stamp <= Window
    BY <1>3 DEF CallInv
  <2>2. now <= now' /\ now' - l.time <= Lag
    BY <1>3
  <2>3. l.nonce \in 1 .. Len(sent') /\ sent'[l.nonce] = sent[l.nonce]
    BY <1>1, <2>1 DEF OnlyGrows
  <2>4. l.time <= now'
    BY <1>1, <2>1, <2>2
  <2> HIDE DEF l
  <2> QED
    BY <2>1, <2>2, <2>3, <2>4
<1>4. ASSUME pc[c] = "select"
      PROVE  l.nonce \in 1 .. Len(sent')
  BY <1>1, <1>4 DEF CallInv, OnlyGrows
<1>5. ASSUME pc[c] \in {"touch", "record", "claim", "update", "report"}
      PROVE  l.poller \in 1 .. Len(pollers') /\ l.token = l.poller
  BY <1>1, <1>5 DEF CallInv, OnlyGrows, Known
<1>6. ASSUME pc[c] = "record"
      PROVE  /\ proved'[l.poller] # NoTime
             /\ Lease <= l.time /\ l.time <= proved'[l.poller] + Lease
  <2>1. l.poller \in Ids
    BY <1>6, KnownIds DEF CallInv
  <2>2. proved[l.poller] # NoTime /\ Lease <= l.time /\ l.time <= proved[l.poller] + Lease
    BY <1>6 DEF CallInv
  <2>3. proved[l.poller] <= proved'[l.poller]
    BY <2>1 DEF OnlyGrows
  <2>4. proved[l.poller] \in Int /\ proved'[l.poller] \in Int /\ proved[l.poller] >= NoTime
    BY <1>2, <2>1
  <2>5. Lease \in Nat /\ NoTime \in Int
    BY TimesAssumption DEF NoTime
  <2> QED
    BY <1>1, <2>2, <2>3, <2>4, <2>5
<1> QED
  BY <1>3, <1>4, <1>5, <1>6 DEF CallInv, Known

\* A step of one call goes to a step of its own, with variables of its own.
LEMMA ProceedsAlone ==
  ASSUME NEW c \in Calls, CallTypes, NEW k, NEW l, Proceed(c, k, l)
  PROVE  /\ pc'[c] = k /\ local'[c] = l
         /\ \A d \in Calls \ {c} : pc'[d] = pc[d] /\ local'[d] = local[d]
         /\ k \in Steps /\ l \in CallVariables => CallTypes'
  BY DEF CallTypes, Proceed

LEMMA ReturnsAlone ==
  ASSUME NEW c \in Calls, CallTypes, Return(c)
  PROVE  /\ pc'[c] = "idle" /\ local'[c] = Blank /\ CallTypes' /\ CallInv(c)'
         /\ \A d \in Calls \ {c} : pc'[d] = pc[d] /\ local'[d] = local[d]
<1>1. Proceed(c, "idle", Blank)
  BY DEF Return
<1>2. "idle" \in Steps
  BY DEF Steps
<1> QED
  BY <1>1, <1>2, ProceedsAlone, BlankTypes DEF CallInv

\* When one call steps, it is enough to show what that call knows next.
LEMMA OneCallSteps ==
  ASSUME ListenerInv, NEW c \in Calls, OnlyGrows, ProvedTypes', now' = now, CallInv(c)',
         \A d \in Calls \ {c} : pc'[d] = pc[d] /\ local'[d] = local[d]
  PROVE  CallsInv'
<1>1. CallTypes /\ TableTypes /\ ProvedTypes /\ ProcessTypes
  BY TypesByPart DEF ListenerInv
<1>2. now \in Nat /\ Lag \in Nat
  BY <1>1, TimesAreIntegers
<1>3. ASSUME NEW d \in Calls, d # c PROVE CallInv(d)'
  <2>1. CallInv(d)
    BY DEF ListenerInv, CallsInv
  <2>2. pc[d] = "nonce" => now <= now' /\ now' - local[d].time <= Lag
    BY <1>2, <2>1 DEF CallInv
  <2> QED
    BY <1>1, <1>2, <1>3, <2>1, <2>2, CallKeeps
<1> QED
  BY <1>3 DEF CallsInv

-------------------------------------------------------------------------------
(***************************************************************************)
(* The steps of Authenticate.                                              *)
(***************************************************************************)

\* What is left to show of a step that touches neither tables nor sessions.
LEMMA CallOnly ==
  ASSUME ListenerInv, NEW c \in Calls, CallTypes', CallInv(c)',
         \A d \in Calls \ {c} : pc'[d] = pc[d] /\ local'[d] = local[d],
         UNCHANGED <<tables, sent, memory, process, now, history>>
  PROVE  ListenerInv'
<1>1. CallTypes /\ TableTypes /\ ProvedTypes /\ ProcessTypes /\ MemoryTypes
  BY TypesByPart DEF ListenerInv
<1> USE DEF tables, memory, process, history
<1>2. TableTypes' /\ ProvedTypes' /\ ProcessTypes' /\ MemoryTypes'
  BY <1>1 DEF TableTypes, ProvedTypes, ProcessTypes, MemoryTypes
<1>3. OnlyGrows
  BY <1>1, TheSameGrows
<1>4. CallsInv'
  BY <1>2, <1>3, OneCallSteps
<1>5. LeasesInv' /\ HoldersInv'
  BY DEF ListenerInv, LeasesInv, HoldersInv, Registered, Known
<1> QED
  BY <1>2, <1>4, <1>5, TypesByPartNext DEF ListenerInv

LEMMA ReturnOnly ==
  ASSUME ListenerInv, NEW c \in Calls, Return(c),
         UNCHANGED <<tables, sent, memory, process, now, history>>
  PROVE  ListenerInv'
<1>1. CallTypes
  BY TypesByPart DEF ListenerInv
<1> QED
  BY <1>1, ReturnsAlone, CallOnly

LEMMA AuthenticateKeeps ==
  ASSUME ListenerInv, NEW c \in Calls, Authenticate(c)
  PROVE  ListenerInv'
<1>1. CallTypes /\ TableTypes /\ ProcessTypes
  BY TypesByPart DEF ListenerInv
<1>2. PICK n \in 1 .. Len(sent) :
          /\ Within(sent[n].stamp)
          /\ Proceed(c, "nonce", [Blank EXCEPT !.nonce = n, !.time = now])
          /\ UNCHANGED <<tables, sent, memory, process, now, history>>
  BY DEF Authenticate
<1> DEFINE l == [Blank EXCEPT !.nonce = n, !.time = now]
<1>3. l \in CallVariables /\ l.nonce = n /\ l.time = now
  <2>1. n \in 0 .. MaxMessages /\ now \in Times
    BY <1>1, KnownIds, TimesAreIntegers
  <2> QED
    BY <2>1, BlankTypes DEF CallVariables
<1>4. "nonce" \in Steps
  BY DEF Steps
<1>5. /\ pc'[c] = "nonce" /\ local'[c] = l /\ CallTypes'
      /\ \A d \in Calls \ {c} : pc'[d] = pc[d] /\ local'[d] = local[d]
  BY <1>1, <1>2, <1>3, <1>4, ProceedsAlone
<1>6. now \in Nat /\ Lag \in Nat /\ now - sent[n].stamp <= Window
  BY <1>1, <1>2, TimesAreIntegers DEF Within
<1>7. CallInv(c)'
  BY <1>2, <1>3, <1>5, <1>6 DEF CallInv
<1> HIDE DEF l
<1> QED
  BY <1>2, <1>5, <1>7, CallOnly

\* The sweep forgets only what is past, and keeps the type of the cache.
LEMMA SweepTypes ==
  ASSUME MemoryTypes, NEW time \in 0 .. MaxTime
  PROVE  /\ Swept(time) \in [1 .. MaxMessages -> {NoTime} \cup Window .. MaxTime + Window]
         /\ \A n \in 1 .. MaxMessages : Swept(time)[n] = nonces[n] \/ time > nonces[n]
  BY DEF MemoryTypes, Swept

LEMMA tryUseNonceTypes ==
  ASSUME ListenerInv, NEW c \in Calls, tryUseNonce(c)
  PROVE  MemoryTypes' /\ ProvedTypes'
<1>1. CallTypes /\ TableTypes /\ ProcessTypes /\ MemoryTypes /\ ProvedTypes
  BY TypesByPart DEF ListenerInv
<1> DEFINE n == local[c].nonce
           time == local[c].time
<1>2. CallInv(c) /\ pc[c] = "nonce"
  BY DEF ListenerInv, CallsInv, tryUseNonce, At
<1>3. n \in 1 .. MaxMessages
  BY <1>1, <1>2, KnownIds DEF CallInv
<1>4. time \in 0 .. MaxTime
  <2>1. time \in Int
    BY <1>1, TimesAssumption DEF CallTypes, CallVariables, Times, NoTime
  <2>2. 0 <= time /\ time <= now
    BY <1>2 DEF CallInv
  <2>3. now \in 0 .. MaxTime /\ MaxTime \in Nat
    BY <1>1, TimesAssumption DEF ProcessTypes
  <2> QED
    BY <2>1, <2>2, <2>3
<1>5. /\ nonces' = Swept(time) \/ nonces' = [Swept(time) EXCEPT ![n] = time + Window]
      /\ nonceGC' = nonceGC \/ nonceGC' = time + Sweep
      /\ sessions' = sessions /\ proved' = proved
      /\ passed' = passed \/ passed' = [passed EXCEPT ![n] = @ + 1]
  BY DEF tryUseNonce
<1>6. time + Window \in Window .. MaxTime + Window /\ time + Sweep \in Times
  BY <1>4, TimesAssumption DEF Times
<1> HIDE DEF n, time
<1>7. MemoryTypes'
  BY <1>1, <1>4, <1>5, <1>6, SweepTypes DEF MemoryTypes
<1>8. ProvedTypes'
  BY <1>1, <1>5 DEF ProvedTypes
<1> QED
  BY <1>7, <1>8

LEMMA tryUseNonceKeeps ==
  ASSUME ListenerInv, NEW c \in Calls, tryUseNonce(c)
  PROVE  ListenerInv'
<1>1. CallTypes /\ TableTypes /\ ProcessTypes /\ MemoryTypes /\ ProvedTypes
  BY TypesByPart DEF ListenerInv
<1> DEFINE n == local[c].nonce
           l == [Blank EXCEPT !.nonce = n]
<1>2. UNCHANGED <<tables, sent, sessions, process, now, proved>>
  BY DEF tryUseNonce
<1>3. n \in 1 .. Len(sent)
  BY DEF ListenerInv, CallsInv, CallInv, tryUseNonce, At
<1>4. l \in CallVariables /\ l.nonce = n
  BY <1>1, <1>3, BlankTypes, KnownIds DEF CallVariables
<1>5. "select" \in Steps
  BY DEF Steps
<1>6. /\ CallTypes' /\ CallInv(c)'
      /\ \A d \in Calls \ {c} : pc'[d] = pc[d] /\ local'[d] = local[d]
  <2>1. CASE Proceed(c, "select", l)
    <3>1. /\ pc'[c] = "select" /\ local'[c] = l /\ CallTypes'
          /\ \A d \in Calls \ {c} : pc'[d] = pc[d] /\ local'[d] = local[d]
      BY <1>1, <1>4, <1>5, <2>1, ProceedsAlone
    <3>2. CallInv(c)'
      BY <1>2, <1>3, <1>4, <3>1 DEF CallInv
    <3> HIDE DEF l
    <3> QED
      BY <3>1, <3>2
  <2>2. CASE Return(c)
    BY <1>1, <2>2, ReturnsAlone
  <2> QED
    BY <2>1, <2>2 DEF tryUseNonce
<1> HIDE DEF n, l
<1>7. MemoryTypes' /\ ProvedTypes'
  BY tryUseNonceTypes
<1>8. TableTypes' /\ ProcessTypes'
  BY <1>1, <1>2 DEF TableTypes, ProcessTypes, tables, process
<1>9. OnlyGrows
  BY <1>1, <1>2, TheSameGrows DEF tables
<1>10. CallsInv'
  BY <1>2, <1>6, <1>7, <1>9, OneCallSteps
<1>11. LeasesInv' /\ HoldersInv'
  BY <1>2 DEF ListenerInv, LeasesInv, HoldersInv, Registered, Known, tables
<1> QED
  BY <1>6, <1>7, <1>8, <1>10, <1>11, TypesByPartNext DEF ListenerInv

LEMMA SelectPollerKeeps ==
  ASSUME ListenerInv, NEW c \in Calls, SelectPoller(c)
  PROVE  ListenerInv'
<1>1. CallTypes /\ TableTypes
  BY TypesByPart DEF ListenerInv
<1>2. UNCHANGED <<tables, sent, memory, process, now, history>>
  BY DEF SelectPoller
<1>3. CASE Return(c)
  BY <1>2, <1>3, ReturnOnly
<1>4. ASSUME NEW p \in Known,
             Proceed(c, "touch", [Blank EXCEPT !.poller = p, !.token = p, !.tenant = pollers[p].tenant])
      PROVE  ListenerInv'
  <2> DEFINE l == [Blank EXCEPT !.poller = p, !.token = p, !.tenant = pollers[p].tenant]
  <2>1. p \in 0 .. MaxPollers /\ pollers[p].tenant \in Tenants
    BY <1>1, KnownIds DEF Row
  <2>2. l \in CallVariables /\ l.poller = p /\ l.token = p
    BY <2>1, BlankTypes DEF CallVariables
  <2>3. "touch" \in Steps
    BY DEF Steps
  <2>4. /\ pc'[c] = "touch" /\ local'[c] = l /\ CallTypes'
        /\ \A d \in Calls \ {c} : pc'[d] = pc[d] /\ local'[d] = local[d]
    BY <1>1, <1>4, <2>2, <2>3, ProceedsAlone
  <2>5. CallInv(c)'
    BY <1>2, <2>2, <2>4 DEF CallInv, Known, tables
  <2> HIDE DEF l
  <2> QED
    BY <1>2, <2>4, <2>5, CallOnly
<1>5. \A m : Matching(m) \subseteq Known
  BY DEF Matching
<1> QED
  BY <1>3, <1>4, <1>5 DEF SelectPoller

LEMMA TouchPollerKeeps ==
  ASSUME ListenerInv, NEW c \in Calls, TouchPoller(c)
  PROVE  ListenerInv'
<1>1. CallTypes /\ TableTypes /\ ProcessTypes /\ MemoryTypes /\ ProvedTypes
  BY TypesByPart DEF ListenerInv
<1> DEFINE q == local[c].poller
           l == [local[c] EXCEPT !.time = now + Lease]
<1>2. /\ UNCHANGED <<tables, sent, memory, process, now, passed>>
      /\ Proceed(c, "record", l) /\ proved' = [proved EXCEPT ![q] = now]
  BY DEF TouchPoller
<1>3. q \in Known /\ local[c].token = q
  BY DEF ListenerInv, CallsInv, CallInv, TouchPoller, At
<1>4. q \in Ids
  BY <1>1, <1>3, KnownIds
<1>5. local[c] \in CallVariables
  BY <1>1 DEF CallTypes
<1>6. /\ now \in Nat /\ now <= MaxTime /\ Lease \in Nat /\ now \in Times
      /\ now + Lease \in Times /\ NoTime \in Int /\ NoTime < 0
  BY <1>1, TimesAreIntegers
<1>7. l \in CallVariables /\ l.poller = q /\ l.token = q /\ l.time = now + Lease
  BY <1>3, <1>5, <1>6 DEF CallVariables
<1>8. "record" \in Steps
  BY DEF Steps
<1>9. /\ pc'[c] = "record" /\ local'[c] = l /\ CallTypes'
      /\ \A d \in Calls \ {c} : pc'[d] = pc[d] /\ local'[d] = local[d]
  BY <1>1, <1>2, <1>7, <1>8, ProceedsAlone
<1> HIDE DEF q, l
<1>10. proved' \in [Ids -> Times] /\ proved'[q] = now /\ \A p \in Ids \ {q} : proved'[p] = proved[p]
  BY <1>1, <1>2, <1>4, <1>6 DEF ProvedTypes
<1>11. CallInv(c)'
  BY <1>2, <1>3, <1>6, <1>7, <1>9, <1>10 DEF CallInv, Known, tables
<1>12. \A p \in Ids : proved[p] <= now /\ proved[p] \in Int
  BY <1>1, TimesAssumption DEF ListenerInv, LeasesInv, ProvedTypes, Times, NoTime
<1>13. \A p \in Ids : proved[p] <= proved'[p]
  BY <1>10, <1>12
<1>14. OnlyGrows
  <2>1. Len(pollers) \in Nat /\ Len(sent) \in Nat
    BY <1>1 DEF TableTypes
  <2> QED
    BY <1>2, <1>13, <2>1 DEF OnlyGrows, tables
<1>15. ProvedTypes' /\ TableTypes' /\ ProcessTypes' /\ MemoryTypes'
  BY <1>1, <1>2, <1>10 DEF ProvedTypes, TableTypes, ProcessTypes, MemoryTypes, tables, memory, process
<1>16. CallsInv'
  BY <1>2, <1>9, <1>11, <1>14, <1>15, OneCallSteps
<1>17. LeasesInv'
  <2>1. ASSUME NEW p \in Ids PROVE proved'[p] <= now
    BY <1>6, <1>10, <1>12
  <2>2. ASSUME NEW p \in Ids, sessions[p].token # 0
        PROVE  sessions[p].token = p /\ proved'[p] # NoTime /\ sessions[p].expires <= proved'[p] + Lease
    <3>1. sessions[p].token = p /\ proved[p] # NoTime /\ sessions[p].expires <= proved[p] + Lease
      BY <2>2 DEF ListenerInv, LeasesInv
    <3>2. sessions[p].expires \in Int
      BY <1>1, TimesAssumption DEF MemoryTypes, Session, NoTime
    <3> QED
      BY <1>6, <1>10, <1>12, <1>13, <3>1, <3>2
  <2> QED
    BY <1>2, <2>1, <2>2 DEF LeasesInv, memory
<1>18. HoldersInv'
  BY <1>2 DEF ListenerInv, HoldersInv, Registered, Known, tables
<1> QED
  BY <1>9, <1>15, <1>16, <1>17, <1>18, TypesByPartNext DEF ListenerInv

LEMMA recordSessionKeeps ==
  ASSUME ListenerInv, NEW c \in Calls, recordSession(c)
  PROVE  ListenerInv'
<1>1. CallTypes /\ TableTypes /\ ProcessTypes /\ MemoryTypes /\ ProvedTypes
  BY TypesByPart DEF ListenerInv
<1> DEFINE l == local[c]
           q == l.poller
           s == [tenant |-> l.tenant, token |-> l.token, expires |-> l.time]
<1>2. /\ UNCHANGED <<tables, sent, nonces, nonceGC, process, now, history>>
      /\ Return(c) /\ sessions' = [sessions EXCEPT ![q] = s]
  BY DEF recordSession
<1>3. /\ q \in Known /\ l.token = q /\ proved[q] # NoTime
      /\ Lease <= l.time /\ l.time <= proved[q] + Lease
  BY DEF ListenerInv, CallsInv, CallInv, recordSession, At
<1>4. q \in Ids /\ q \in 0 .. MaxPollers
  BY <1>1, <1>3, KnownIds
<1>5. l.tenant \in Tenants /\ l.time \in Int
  BY <1>1, TimesAssumption DEF CallTypes, CallVariables, Times, NoTime
<1>6. proved[q] <= now /\ proved[q] \in Int /\ now \in Nat /\ now <= MaxTime /\ Lease \in Nat /\ MaxTime \in Nat
  <2>1. proved[q] <= now
    BY <1>4 DEF ListenerInv, LeasesInv
  <2>2. proved[q] \in Int
    BY <1>1, <1>4, TimesAssumption DEF ProvedTypes, Times, NoTime
  <2> QED
    BY <1>1, <2>1, <2>2, TimesAreIntegers
<1>7. l.time \in Lease .. MaxTime + Lease
  BY <1>3, <1>5, <1>6
<1>8. s \in Session /\ s.token = q /\ s.expires = l.time
  BY <1>3, <1>4, <1>5, <1>7 DEF Session
<1> HIDE DEF l, q, s
<1>9. sessions' \in [Ids -> Session] /\ sessions'[q] = s /\ \A p \in Ids \ {q} : sessions'[p] = sessions[p]
  BY <1>1, <1>2, <1>4, <1>8 DEF MemoryTypes
<1>10. /\ CallTypes' /\ CallInv(c)'
       /\ \A d \in Calls \ {c} : pc'[d] = pc[d] /\ local'[d] = local[d]
  BY <1>1, <1>2, ReturnsAlone
<1>11. ProvedTypes' /\ TableTypes' /\ ProcessTypes' /\ MemoryTypes'
  BY <1>1, <1>2, <1>9 DEF ProvedTypes, TableTypes, ProcessTypes, MemoryTypes, tables, history, process
<1>12. CallsInv'
  BY <1>1, <1>2, <1>10, <1>11, TheSameGrows, OneCallSteps DEF tables, history
<1>13. LeasesInv'
  BY <1>2, <1>3, <1>8, <1>9 DEF ListenerInv, LeasesInv, history
<1>14. HoldersInv'
  BY <1>2 DEF ListenerInv, HoldersInv, Registered, Known, tables
<1> QED
  BY <1>10, <1>11, <1>12, <1>13, <1>14, TypesByPartNext DEF ListenerInv

-------------------------------------------------------------------------------
(***************************************************************************)
(* The steps of the calls that a session lets through.                     *)
(***************************************************************************)

\* A purge keeps a session as it is, or leaves none.
LEMMA PurgeTypes ==
  ASSUME MemoryTypes, ProcessTypes
  PROVE  /\ purgeExpiredSessions(sessions) \in [Ids -> Session]
         /\ \A p \in Ids :
               \/ purgeExpiredSessions(sessions)[p] = NoSession
               \/ purgeExpiredSessions(sessions)[p] = sessions[p] /\ now <= sessions[p].expires
<1>1. \A p \in Ids : sessions[p] \in Session /\ sessions[p].expires \in Int /\ now \in Int
  BY TimesAssumption DEF MemoryTypes, ProcessTypes, Session, NoTime
<1> QED
  BY <1>1, BlankTypes DEF purgeExpiredSessions

\* What a call knows that was let through: its token is the poller's own, proved
\* within a lease.
LEMMA LetThroughKnows ==
  ASSUME ListenerInv, NEW l, l.poller \in Known, LetsThrough(purgeExpiredSessions(sessions), l)
  PROVE  /\ l.token = l.poller /\ proved[l.poller] # NoTime
         /\ now <= proved[l.poller] + Lease
<1>1. TableTypes /\ ProcessTypes /\ MemoryTypes /\ ProvedTypes
  BY TypesByPart DEF ListenerInv
<1> DEFINE p == l.poller
<1>2. p \in Ids
  BY <1>1, KnownIds
<1>3. purgeExpiredSessions(sessions)[p].token # 0 /\ purgeExpiredSessions(sessions)[p].token = l.token
  BY DEF LetsThrough
<1>4. /\ purgeExpiredSessions(sessions)[p] = sessions[p]
      /\ now <= sessions[p].expires
  BY <1>1, <1>2, <1>3, PurgeTypes, BlankTypes
<1>5. sessions[p].token = p /\ proved[p] # NoTime /\ sessions[p].expires <= proved[p] + Lease
  BY <1>2, <1>3, <1>4 DEF ListenerInv, LeasesInv
<1>6. now \in Int /\ sessions[p].expires \in Int /\ proved[p] \in Int /\ Lease \in Int
  BY <1>1, <1>2, TimesAssumption DEF MemoryTypes, ProcessTypes, ProvedTypes, Session, Times, NoTime
<1> QED
  BY <1>3, <1>4, <1>5, <1>6

LEMMA requireSessionKeeps ==
  ASSUME ListenerInv, NEW c \in Calls, NEW step \in {"idle", "claim", "report", "stream"},
         requireSession(c, step)
  PROVE  /\ ListenerInv'
         /\ \A d \in Calls \ {c} : pc'[d] = pc[d]
         /\ pc'[c] # "idle" =>
               /\ proved[local'[c].poller] # NoTime
               /\ now <= proved[local'[c].poller] + Lease
<1>1. CallTypes /\ TableTypes /\ ProcessTypes /\ MemoryTypes /\ ProvedTypes
  BY TypesByPart DEF ListenerInv
<1> DEFINE L(t, p, token) == [Blank EXCEPT !.tenant = t, !.poller = p, !.token = token]
           map == purgeExpiredSessions(sessions)
<1>2. PICK t \in Tenants, p \in Known, token \in Known :
          /\ sessions' = map
          /\ IF LetsThrough(map, L(t, p, token)) THEN Proceed(c, step, L(t, p, token)) ELSE Return(c)
          /\ UNCHANGED <<tables, sent, nonces, nonceGC, process, now, history>>
  BY DEF requireSession
<1> DEFINE l == L(t, p, token)
<1>3. l \in CallVariables /\ l.poller = p /\ l.token = token
  <2>1. p \in 0 .. MaxPollers /\ token \in 0 .. MaxPollers
    BY <1>1, KnownIds
  <2> QED
    BY <2>1, BlankTypes DEF CallVariables
<1>4. /\ (LetsThrough(map, l) /\ Proceed(c, step, l)) \/ Return(c)
      /\ sessions' = map
      /\ UNCHANGED <<tables, sent, nonces, nonceGC, process, now, history>>
  BY <1>2
<1> HIDE DEF l
<1>5. step \in Steps
  BY DEF Steps
<1>6. /\ CallTypes' /\ CallInv(c)'
      /\ \A d \in Calls \ {c} : pc'[d] = pc[d] /\ local'[d] = local[d]
      /\ pc'[c] # "idle" =>
            /\ proved[local'[c].poller] # NoTime
            /\ now <= proved[local'[c].poller] + Lease
  <2>1. CASE LetsThrough(map, l) /\ Proceed(c, step, l)
    <3>1. /\ pc'[c] = step /\ local'[c] = l /\ CallTypes'
          /\ \A d \in Calls \ {c} : pc'[d] = pc[d] /\ local'[d] = local[d]
      BY <1>1, <1>3, <1>5, <2>1, ProceedsAlone
    <3>2. l.token = l.poller /\ proved[l.poller] # NoTime /\ now <= proved[l.poller] + Lease
      BY <1>3, <2>1, LetThroughKnows
    <3>3. CallInv(c)'
      BY <1>3, <1>4, <3>1, <3>2 DEF CallInv, Known, tables
    <3> QED
      BY <3>1, <3>2, <3>3
  <2>2. CASE Return(c)
    BY <1>1, <2>2, ReturnsAlone
  <2> QED
    BY <1>4, <2>1, <2>2
<1> HIDE DEF map
<1>7. map \in [Ids -> Session] /\ \A q \in Ids : map[q] = NoSession \/ map[q] = sessions[q]
  BY <1>1, PurgeTypes DEF map
<1>8. ProvedTypes' /\ TableTypes' /\ ProcessTypes' /\ MemoryTypes'
  BY <1>1, <1>4, <1>7 DEF ProvedTypes, TableTypes, ProcessTypes, MemoryTypes, tables, history, process
<1>9. CallsInv'
  BY <1>1, <1>4, <1>6, <1>8, TheSameGrows, OneCallSteps DEF tables, history
<1>10. LeasesInv'
  BY <1>4, <1>7, BlankTypes DEF ListenerInv, LeasesInv, history
<1>11. HoldersInv'
  BY <1>4 DEF ListenerInv, HoldersInv, Registered, Known, tables
<1> QED
  BY <1>6, <1>8, <1>9, <1>10, <1>11, TypesByPartNext DEF ListenerInv

LEMMA SelectJobKeeps ==
  ASSUME ListenerInv, NEW c \in Calls, SelectJob(c)
  PROVE  ListenerInv'
<1>1. CallTypes
  BY TypesByPart DEF ListenerInv
<1>2. UNCHANGED <<tables, sent, memory, process, now, history>>
  BY DEF SelectJob
<1>3. CASE Return(c)
  BY <1>2, <1>3, ReturnOnly
<1>4. ASSUME NEW j \in Jobs, Proceed(c, "update", [local[c] EXCEPT !.job = j])
      PROVE  ListenerInv'
  <2> DEFINE l == [local[c] EXCEPT !.job = j]
  <2>1. local[c] \in CallVariables
    BY <1>1 DEF CallTypes
  <2>2. l \in CallVariables /\ l.poller = local[c].poller /\ l.token = local[c].token
    BY <2>1 DEF CallVariables
  <2>3. "update" \in Steps
    BY DEF Steps
  <2>4. /\ pc'[c] = "update" /\ local'[c] = l /\ CallTypes'
        /\ \A d \in Calls \ {c} : pc'[d] = pc[d] /\ local'[d] = local[d]
    BY <1>1, <1>4, <2>2, <2>3, ProceedsAlone
  <2>5. local[c].poller \in Known /\ local[c].token = local[c].poller
    BY DEF ListenerInv, CallsInv, CallInv, SelectJob, At
  <2>6. CallInv(c)'
    BY <1>2, <2>2, <2>4, <2>5 DEF CallInv, Known, tables
  <2> HIDE DEF l
  <2> QED
    BY <1>2, <2>4, <2>6, CallOnly
<1>5. \A t : Queued(t) \subseteq Jobs
  BY DEF Queued
<1> QED
  BY <1>3, <1>4, <1>5 DEF SelectJob

\* What is left to show of a step of a call that writes poller_jobs and returns.
LEMMA JobsOnly ==
  ASSUME ListenerInv, NEW c \in Calls, Return(c),
         status' \in [Jobs -> {"queued", "claimed", "done"}],
         owner' \in [Jobs -> 0 .. MaxPollers],
         \A j \in Jobs : owner'[j] = owner[j] \/ Registered(owner'[j], JobTenant[j]),
         UNCHANGED <<pollers, sent, memory, process, now, history>>
  PROVE  ListenerInv'
<1>1. CallTypes /\ TableTypes /\ ProcessTypes /\ MemoryTypes /\ ProvedTypes
  BY TypesByPart DEF ListenerInv
<1>2. /\ CallTypes' /\ CallInv(c)'
      /\ \A d \in Calls \ {c} : pc'[d] = pc[d] /\ local'[d] = local[d]
  BY <1>1, ReturnsAlone
<1>3. ProvedTypes' /\ TableTypes' /\ ProcessTypes' /\ MemoryTypes'
  BY <1>1 DEF ProvedTypes, TableTypes, ProcessTypes, MemoryTypes, memory, history, process
<1>4. CallsInv'
  BY <1>1, <1>2, <1>3, TheSameGrows, OneCallSteps DEF history
<1>5. LeasesInv'
  BY DEF ListenerInv, LeasesInv, memory, history
<1>6. HoldersInv'
  BY DEF ListenerInv, HoldersInv, Registered, Known
<1> QED
  BY <1>2, <1>3, <1>4, <1>5, <1>6, TypesByPartNext DEF ListenerInv

\* UPDATE of a claim: only a job that is queued, for a poller registered with its tenant.
LEMMA ClaimUpdateKeeps ==
  ASSUME ListenerInv, NEW c \in Calls, ClaimUpdate(c)
  PROVE  ListenerInv'
<1>1. CallTypes /\ TableTypes
  BY TypesByPart DEF ListenerInv
<1> DEFINE j == local[c].job
           p == local[c].poller
<1>2. UNCHANGED <<pollers, sent, memory, process, now, history>> /\ Return(c)
  BY DEF ClaimUpdate
<1>3. p \in 0 .. MaxPollers /\ j \in Jobs
  BY <1>1 DEF CallTypes, CallVariables
<1>4. \/ UNCHANGED <<status, owner>>
      \/ /\ Registered(p, JobTenant[j])
         /\ status' = [status EXCEPT ![j] = "claimed"] /\ owner' = [owner EXCEPT ![j] = p]
  BY DEF ClaimUpdate, Claimable
<1> HIDE DEF j, p
<1>5. /\ status' \in [Jobs -> {"queued", "claimed", "done"}]
      /\ owner' \in [Jobs -> 0 .. MaxPollers]
      /\ \A k \in Jobs : owner'[k] = owner[k] \/ Registered(owner'[k], JobTenant[k])
  BY <1>1, <1>3, <1>4 DEF TableTypes
<1> QED
  BY <1>2, <1>5, JobsOnly

LEMMA CompleteKeeps ==
  ASSUME ListenerInv, NEW c \in Calls, CompleteClaimedBy(c)
  PROVE  ListenerInv'
<1>1. TableTypes
  BY TypesByPart DEF ListenerInv
<1>2. UNCHANGED <<pollers, owner, sent, memory, process, now, history>> /\ Return(c)
  BY DEF CompleteClaimedBy
<1>3. status' \in [Jobs -> {"queued", "claimed", "done"}]
  BY <1>1 DEF CompleteClaimedBy, TableTypes
<1>4. owner' \in [Jobs -> 0 .. MaxPollers]
  BY <1>1, <1>2 DEF TableTypes
<1> QED
  BY <1>2, <1>3, <1>4, JobsOnly

LEMMA WorkKeeps ==
  ASSUME ListenerInv, NEW c \in Calls, AuthenticateStep(c) \/ WorkStep(c) \/ ContextEnds(c)
  PROVE  ListenerInv'
<1>1. CASE AuthenticateStep(c)
  BY <1>1, AuthenticateKeeps, tryUseNonceKeeps, SelectPollerKeeps, TouchPollerKeeps,
     recordSessionKeeps DEF AuthenticateStep
<1>2. CASE Health(c) \/ ClaimJob(c) \/ ReportResult(c) \/ StreamJobs(c)
  BY <1>2, requireSessionKeeps DEF Health, ClaimJob, ReportResult, StreamJobs
<1>3. CASE ContextEnds(c)
  BY <1>3, ReturnOnly DEF ContextEnds
<1> QED
  BY <1>1, <1>2, <1>3, SelectJobKeeps, ClaimUpdateKeeps, CompleteKeeps DEF WorkStep

-------------------------------------------------------------------------------
(***************************************************************************)
(* The steps of the operators, the network, the process and the clock.     *)
(***************************************************************************)

\* What a call knows survives a step that no call takes.
LEMMA NoCallSteps ==
  ASSUME ListenerInv, OnlyGrows, ProvedTypes', UNCHANGED calls, now' \in Nat,
         \A c \in Calls : pc[c] = "nonce" => now <= now' /\ now' - local[c].time <= Lag
  PROVE  CallsInv' /\ CallTypes'
<1>1. CallTypes /\ TableTypes /\ ProvedTypes /\ ProcessTypes
  BY TypesByPart DEF ListenerInv
<1>2. now \in Nat
  BY <1>1, TimesAreIntegers
<1>3. ASSUME NEW c \in Calls PROVE CallInv(c)'
  <2>1. CallInv(c) /\ pc'[c] = pc[c] /\ local'[c] = local[c]
    BY DEF ListenerInv, CallsInv, calls
  <2> QED
    BY <1>1, <1>2, <2>1, CallKeeps
<1>4. CallTypes'
  BY <1>1 DEF CallTypes, calls
<1> QED
  BY <1>3, <1>4 DEF CallsInv

\* The clock stands still: no call is held up by the step.
LEMMA NotHeldUp ==
  ASSUME ListenerInv, now' = now
  PROVE  /\ now' \in Nat
         /\ \A c \in Calls : pc[c] = "nonce" => now <= now' /\ now' - local[c].time <= Lag
<1>1. now \in Nat
  BY TypesByPart, TimesAreIntegers DEF ListenerInv
<1> QED
  BY <1>1 DEF ListenerInv, CallsInv, CallInv

LEMMA RegisterKeeps == ListenerInv /\ handleRegisterPoller => ListenerInv'
<1> SUFFICES ASSUME ListenerInv, handleRegisterPoller PROVE ListenerInv'
  OBVIOUS
<1>1. CallTypes /\ TableTypes /\ ProvedTypes /\ ProcessTypes /\ MemoryTypes
  BY TypesByPart DEF ListenerInv
<1>2. PICK t \in Tenants, n \in Names : Register(t, n)
  BY DEF handleRegisterPoller
<1> DEFINE r == [tenant |-> t, name |-> n, live |-> TRUE]
<1>3. /\ Len(pollers) < MaxPollers /\ pollers' = Append(pollers, r) /\ r \in Row
      /\ UNCHANGED <<status, owner, sent, memory, process, now, calls, history>>
  BY <1>2 DEF handleRegisterPoller, Register, Row
<1> HIDE DEF r
<1>4. pollers \in Seq(Row) /\ Len(pollers) \in Nat
  BY <1>1 DEF TableTypes
<1>5. /\ pollers' \in Seq(Row) /\ Len(pollers') = Len(pollers) + 1
      /\ \A p \in Known : pollers'[p] = pollers[p]
  BY <1>3, <1>4 DEF Known
<1>6. TableTypes' /\ ProvedTypes' /\ ProcessTypes' /\ MemoryTypes'
  <2>1. Len(pollers') <= MaxPollers
    BY <1>3, <1>4, <1>5, ListenerBounds
  <2>2. TableTypes'
    BY <1>1, <1>3, <1>5, <2>1 DEF TableTypes
  <2> QED
    BY <1>1, <1>3, <2>2 DEF ProvedTypes, ProcessTypes, MemoryTypes, memory, process, history
<1>7. OnlyGrows
  <2>1. \A p \in Ids : proved[p] \in Int
    BY <1>1, TimesAssumption DEF ProvedTypes, Times, NoTime
  <2>2. Len(sent) \in Nat
    BY <1>1 DEF TableTypes
  <2> QED
    BY <1>3, <1>4, <1>5, <2>1, <2>2 DEF OnlyGrows, history
<1>8. CallsInv' /\ CallTypes'
  BY <1>3, <1>6, <1>7, NotHeldUp, NoCallSteps
<1>9. LeasesInv'
  BY <1>3 DEF ListenerInv, LeasesInv, memory, history
<1>10. HoldersInv'
  <2>1. \A p \in Known : p \in 1 .. Len(pollers')
    BY <1>4, <1>5 DEF Known
  <2> QED
    BY <1>3, <1>5, <2>1 DEF ListenerInv, HoldersInv, Registered, Known
<1> QED
  BY <1>6, <1>8, <1>9, <1>10, TypesByPartNext DEF ListenerInv

LEMMA DeleteKeeps == ListenerInv /\ handleDeletePoller => ListenerInv'
<1> SUFFICES ASSUME ListenerInv, handleDeletePoller PROVE ListenerInv'
  OBVIOUS
<1>1. CallTypes /\ TableTypes /\ ProvedTypes /\ ProcessTypes /\ MemoryTypes
  BY TypesByPart DEF ListenerInv
<1>2. PICK p \in Known : /\ pollers' = [pollers EXCEPT ![p].live = FALSE] /\ ReleaseJobs(p)
  BY DEF handleDeletePoller
<1>3. UNCHANGED <<status, sent, memory, process, now, calls, history>>
  BY DEF handleDeletePoller
<1>4. pollers \in Seq(Row) /\ Len(pollers) \in Nat /\ p \in 1 .. Len(pollers) /\ pollers[p] \in Row
  BY <1>1 DEF TableTypes, Known
<1>5. /\ pollers' \in Seq(Row) /\ Len(pollers') = Len(pollers)
      /\ \A q \in Known \ {p} : pollers'[q] = pollers[q]
  <2> DEFINE r == [pollers[p] EXCEPT !.live = FALSE]
  <2>1. r \in Row /\ pollers' = [pollers EXCEPT ![p] = r]
    BY <1>2, <1>4 DEF Row
  <2> HIDE DEF r
  <2> QED
    BY <1>4, <2>1 DEF Known
<1>6. /\ owner' \in [Jobs -> 0 .. MaxPollers]
      /\ \A j \in Jobs : owner'[j] # 0 => owner'[j] = owner[j] /\ owner[j] # p
  BY <1>1, <1>2, ListenerBounds DEF TableTypes, ReleaseJobs
<1>7. TableTypes' /\ ProvedTypes' /\ ProcessTypes' /\ MemoryTypes'
  BY <1>1, <1>3, <1>5, <1>6 DEF TableTypes, ProvedTypes, ProcessTypes, MemoryTypes,
     memory, process, history
<1>8. OnlyGrows
  <2>1. \A q \in Ids : proved[q] \in Int
    BY <1>1, TimesAssumption DEF ProvedTypes, Times, NoTime
  <2>2. Len(sent) \in Nat
    BY <1>1 DEF TableTypes
  <2> QED
    BY <1>3, <1>4, <1>5, <2>1, <2>2 DEF OnlyGrows, history
<1>9. CallsInv' /\ CallTypes'
  BY <1>3, <1>7, <1>8, NotHeldUp, NoCallSteps
<1>10. LeasesInv'
  BY <1>3 DEF ListenerInv, LeasesInv, memory, history
<1>11. HoldersInv'
  BY <1>5, <1>6 DEF ListenerInv, HoldersInv, Registered, Known
<1> QED
  BY <1>7, <1>9, <1>10, <1>11, TypesByPartNext DEF ListenerInv

LEMMA SendKeeps == ListenerInv /\ Send => ListenerInv'
<1> SUFFICES ASSUME ListenerInv, Send PROVE ListenerInv'
  OBVIOUS
<1>1. CallTypes /\ TableTypes /\ ProvedTypes /\ ProcessTypes /\ MemoryTypes
  BY TypesByPart DEF ListenerInv
<1>2. PICK p \in Known, q \in Known, stamp \in now - Skew .. now + Skew :
          /\ Len(sent) < MaxMessages
          /\ sent' = Append(sent, [tenant |-> pollers[p].tenant, name |-> pollers[p].name,
                                   token |-> q, stamp |-> stamp])
          /\ UNCHANGED <<tables, memory, process, now, calls, history>>
  BY DEF Send
<1> DEFINE m == [tenant |-> pollers[p].tenant, name |-> pollers[p].name,
                 token |-> q, stamp |-> stamp]
<1>3. m \in Message
  <2>1. pollers[p] \in Row /\ q \in Ids
    BY <1>1, KnownIds
  <2>2. stamp \in Int
    BY <1>1, TimesAreIntegers
  <2> QED
    BY <2>1, <2>2 DEF Row, Message
<1>4. sent' = Append(sent, m) /\ sent \in Seq(Message) /\ Len(sent) \in Nat
  BY <1>1, <1>2 DEF TableTypes
<1> HIDE DEF m
<1>5. /\ sent' \in Seq(Message) /\ Len(sent') = Len(sent) + 1
      /\ \A n \in 1 .. Len(sent) : sent'[n] = sent[n]
  BY <1>3, <1>4
<1>6. TableTypes' /\ ProvedTypes' /\ ProcessTypes' /\ MemoryTypes'
  <2>1. Len(sent') <= MaxMessages
    BY <1>2, <1>4, <1>5, ListenerBounds
  <2>2. TableTypes'
    BY <1>1, <1>2, <1>5, <2>1 DEF TableTypes, tables
  <2> QED
    BY <1>1, <1>2, <2>2 DEF ProvedTypes, ProcessTypes, MemoryTypes, memory, process, history
<1>7. OnlyGrows
  <2>1. \A r \in Ids : proved[r] \in Int
    BY <1>1, TimesAssumption DEF ProvedTypes, Times, NoTime
  <2>2. Len(pollers) \in Nat
    BY <1>1 DEF TableTypes
  <2> QED
    BY <1>2, <1>4, <1>5, <2>1, <2>2 DEF OnlyGrows, history, tables
<1>8. CallsInv' /\ CallTypes'
  BY <1>2, <1>6, <1>7, NotHeldUp, NoCallSteps
<1>9. LeasesInv' /\ HoldersInv'
  BY <1>2 DEF ListenerInv, LeasesInv, HoldersInv, Registered, Known, tables, memory, history
<1> QED
  BY <1>6, <1>8, <1>9, TypesByPartNext DEF ListenerInv

\* A process that ends leaves nothing in memory.
LEMMA NothingLeft ==
  ASSUME ForgetAll
  PROVE  MemoryTypes' /\ CallTypes' /\ ProvedTypes' /\ CallsInv'
<1>1. MemoryTypes' /\ ProvedTypes'
  BY BlankTypes, TimesAssumption DEF ForgetAll, MemoryTypes, ProvedTypes, Times, NoTime
<1>2. CallTypes'
  BY BlankTypes DEF ForgetAll, CallTypes, Steps
<1>3. CallsInv'
  BY DEF ForgetAll, CallsInv, CallInv
<1> QED
  BY <1>1, <1>2, <1>3

LEMMA ProcessEndsKeeps == ListenerInv /\ ProcessEnds => ListenerInv'
<1> SUFFICES ASSUME ListenerInv, ProcessEnds PROVE ListenerInv'
  OBVIOUS
<1>1. TableTypes /\ ProcessTypes
  BY TypesByPart DEF ListenerInv
<1>2. ForgetAll /\ phase' = "down" /\ UNCHANGED <<tables, sent, starts, now>>
  BY DEF ProcessEnds
<1>3. TableTypes' /\ ProcessTypes'
  BY <1>1, <1>2 DEF TableTypes, ProcessTypes, tables
<1>4. LeasesInv'
  <2>1. now \in Nat /\ NoTime \in Int /\ NoTime < 0
    BY <1>1, TimesAreIntegers
  <2>2. \A p \in Ids : proved'[p] = NoTime /\ sessions'[p] = NoSession
    BY <1>2 DEF ForgetAll
  <2> QED
    BY <1>2, <2>1, <2>2, BlankTypes DEF LeasesInv
<1>5. HoldersInv'
  BY <1>2 DEF ListenerInv, HoldersInv, Registered, Known, tables
<1> QED
  BY <1>2, <1>3, <1>4, <1>5, NothingLeft, TypesByPartNext DEF ListenerInv

\* Stopping, starting and time passing change neither tables nor memory.
LEMMA ProcessKeeps ==
  ASSUME ListenerInv, UNCHANGED <<tables, sent, memory, calls, history>>, ProcessTypes', now <= now',
         \A c \in Calls : pc[c] = "nonce" => now <= now' /\ now' - local[c].time <= Lag
  PROVE  ListenerInv'
<1>1. CallTypes /\ TableTypes /\ ProvedTypes /\ ProcessTypes /\ MemoryTypes
  BY TypesByPart DEF ListenerInv
<1>2. TableTypes' /\ ProvedTypes' /\ MemoryTypes'
  BY <1>1 DEF TableTypes, ProvedTypes, MemoryTypes, tables, memory, history
<1>3. OnlyGrows
  BY <1>1, TheSameGrows DEF tables, history
<1>4. now \in Nat /\ now' \in Nat
  BY <1>1, TimesAssumption DEF ProcessTypes
<1>5. CallsInv' /\ CallTypes'
  BY <1>2, <1>3, <1>4, NoCallSteps
<1>6. LeasesInv'
  <2>1. \A p \in Ids : proved[p] \in Int
    BY <1>1, TimesAssumption DEF ProvedTypes, Times, NoTime
  <2> QED
    BY <1>4, <2>1 DEF ListenerInv, LeasesInv, memory, history
<1>7. HoldersInv'
  BY DEF ListenerInv, HoldersInv, Registered, Known, tables
<1> QED
  BY <1>2, <1>5, <1>6, <1>7, TypesByPartNext DEF ListenerInv

LEMMA ListenerStarts == ListenerInit => ListenerInv /\ ReplayInv
<1> SUFFICES ASSUME ListenerInit PROVE ListenerInv /\ ReplayInv
  OBVIOUS
<1>1. TableTypes
  BY ListenerBounds DEF ListenerInit, TableTypes
<1>2. MemoryTypes /\ ProvedTypes
  BY BlankTypes, TimesAssumption DEF ListenerInit, MemoryTypes, ProvedTypes, Times, NoTime
<1>3. CallTypes
  BY BlankTypes DEF ListenerInit, CallTypes, Steps
<1>4. ProcessTypes
  BY TimesAssumption, ListenerBounds DEF ListenerInit, ProcessTypes
<1>5. LeasesInv
  BY BlankTypes DEF ListenerInit, LeasesInv, NoTime
<1>6. HoldersInv /\ CallsInv
  BY DEF ListenerInit, HoldersInv, CallsInv, CallInv
<1>7. ReplayInv
  BY DEF ListenerInit, ReplayInv, PassedInv
<1> QED
  BY <1>1, <1>2, <1>3, <1>4, <1>5, <1>6, <1>7, TypesByPart DEF ListenerInv

LEMMA ListenerSteps == ListenerInv /\ [ListenerNext]_listenerVars => ListenerInv'
<1> SUFFICES ASSUME ListenerInv, [ListenerNext]_listenerVars PROVE ListenerInv'
  OBVIOUS
<1>1. ProcessTypes /\ now \in Nat
  BY TypesByPart, TimesAreIntegers DEF ListenerInv
<1>2. CASE StopRequested \/ NewGRPCServer
  <2>1. /\ UNCHANGED <<tables, sent, memory, now, calls, history>>
        /\ phase' \in {"serving", "stopping"} /\ starts' \in 1 .. MaxStarts
    BY <1>1, <1>2, ListenerBounds DEF StopRequested, NewGRPCServer, ProcessTypes
  <2>2. ProcessTypes'
    BY <1>1, <2>1 DEF ProcessTypes
  <2> QED
    BY <1>1, <2>1, <2>2, NotHeldUp, ProcessKeeps
<1>3. CASE Tick
  <2>1. ProcessTypes' /\ now' = now + 1
    BY <1>1, <1>3, TimesAssumption DEF Tick, ProcessTypes, process
  <2>2. now <= now'
    BY <1>1, <2>1
  <2>3. \A c \in Calls : pc[c] = "nonce" => now + 1 - local[c].time <= Lag
    BY <1>3 DEF Tick, At
  <2>4. ASSUME NEW c \in Calls, pc[c] = "nonce" PROVE now <= now' /\ now' - local[c].time <= Lag
    <3>1. now + 1 - local[c].time <= Lag
      BY <2>3, <2>4
    <3>2. local[c].time \in Int /\ Lag \in Nat
      BY TypesByPart, TimesAssumption DEF ListenerInv, CallTypes, CallVariables, Times, NoTime
    <3> QED
      BY <1>1, <2>1, <2>2, <3>1, <3>2
  <2> QED
    BY <1>3, <2>1, <2>2, <2>4, ProcessKeeps DEF Tick
<1>4. CASE UNCHANGED listenerVars
  <2>1. ProcessTypes' /\ UNCHANGED <<tables, sent, memory, now, calls, history>>
    BY <1>1, <1>4 DEF listenerVars, ProcessTypes, process
  <2> QED
    BY <1>1, <2>1, NotHeldUp, ProcessKeeps
<1>5. CASE ForceStop \/ GracefulStop \/ Kill
  BY <1>5, ProcessEndsKeeps DEF ForceStop, GracefulStop, Kill
<1> QED
  BY <1>2, <1>3, <1>4, <1>5, WorkKeeps, RegisterKeeps, DeleteKeeps, SendKeeps DEF ListenerNext

\* Every reachable state of the listener has the types, the leases, the holders
\* of jobs and the knowledge of its calls in order.
THEOREM ListenerInvariant == ListenerSpec => []ListenerInv
BY ListenerStarts, ListenerSteps, PTL DEF ListenerSpec

\* The types of the listener's variables.
THEOREM ListenerTypeCorrect == ListenerSpec => []ListenerTypeOK
<1>1. ListenerInv => ListenerTypeOK
  BY DEF ListenerInv
<1> QED
  BY <1>1, ListenerInvariant, PTL

-------------------------------------------------------------------------------
(***************************************************************************)
(* Jobs are claimed and ended by pollers that are registered.              *)
(***************************************************************************)

\* Only two statements write poller_jobs.status.
LEMMA StatusChanges ==
  ASSUME [ListenerNext]_listenerVars, status' # status
  PROVE  \E c \in Calls : ClaimUpdate(c) \/ CompleteClaimedBy(c)
<1>1. ASSUME NEW c \in Calls, AuthenticateStep(c) \/ WorkStep(c) \/ ContextEnds(c)
      PROVE  UNCHANGED status \/ ClaimUpdate(c) \/ CompleteClaimedBy(c)
  BY <1>1 DEF AuthenticateStep, Authenticate, tryUseNonce, SelectPoller, TouchPoller, recordSession,
     WorkStep, Health, ClaimJob, ReportResult, StreamJobs, requireSession, SelectJob, ContextEnds, tables
<1>2. CASE \/ handleRegisterPoller \/ handleDeletePoller \/ Send
           \/ StopRequested \/ ForceStop \/ GracefulStop \/ Kill \/ NewGRPCServer \/ Tick
           \/ UNCHANGED listenerVars
  BY <1>2 DEF handleRegisterPoller, handleDeletePoller, Send, StopRequested, ForceStop, GracefulStop,
     Kill, NewGRPCServer, Tick, ProcessEnds, tables, listenerVars
<1> QED
  BY <1>1, <1>2 DEF ListenerNext

\* A job is claimed or ended only by a call that brought the token of a poller
\* registered, at that moment, with the job's tenant, and is ended only by the
\* poller that holds it (requireSession, Claim, CompleteClaimedBy, ON DELETE SET NULL).
THEOREM WorkersAreRegistered == ListenerSpec => WorkIsOfRegisteredPollers
<1> DEFINE Worked ==
      \A j \in Jobs : status'[j] # status[j] =>
           \E c \in Calls :
               /\ pc[c] \in {"update", "report"} /\ pc'[c] = "idle"
               /\ local[c].token = local[c].poller
               /\ Registered(local[c].poller, JobTenant[j])
               /\ status[j] = "claimed" => owner[j] = local[c].poller
<1>1. ASSUME ListenerInv, [ListenerNext]_listenerVars PROVE Worked
  <2> SUFFICES ASSUME NEW j \in Jobs, status'[j] # status[j]
               PROVE  \E c \in Calls :
                          /\ pc[c] \in {"update", "report"} /\ pc'[c] = "idle"
                          /\ local[c].token = local[c].poller
                          /\ Registered(local[c].poller, JobTenant[j])
                          /\ status[j] = "claimed" => owner[j] = local[c].poller
    OBVIOUS
  <2>1. PICK c \in Calls : ClaimUpdate(c) \/ CompleteClaimedBy(c)
    BY <1>1, StatusChanges
  <2>2. CallTypes /\ TableTypes /\ CallInv(c)
    BY <1>1, TypesByPart DEF ListenerInv, CallsInv
  <2>3. pc[c] \in {"update", "report"} /\ Return(c)
    BY <2>1 DEF ClaimUpdate, CompleteClaimedBy, At
  <2>4. pc'[c] = "idle"
    BY <2>2, <2>3, ReturnsAlone
  <2>5. local[c].poller \in Known /\ local[c].token = local[c].poller
    BY <2>2, <2>3 DEF CallInv
  <2>6. status \in [Jobs -> {"queued", "claimed", "done"}]
    BY <2>2 DEF TableTypes
  <2>7. CASE ClaimUpdate(c)
    <3>1. local[c].job = j /\ Claimable(j, local[c].poller)
      BY <2>6, <2>7 DEF ClaimUpdate
    <3> QED
      BY <2>3, <2>4, <2>5, <3>1 DEF Claimable
  <2>8. CASE CompleteClaimedBy(c)
    <3>1. OwnedBy(j, local[c])
      BY <2>6, <2>8 DEF CompleteClaimedBy
    <3>2. owner[j] = local[c].poller /\ owner[j] # 0
      BY <2>2, <2>5, <3>1, KnownIds DEF OwnedBy
    <3>3. Registered(local[c].poller, JobTenant[j])
      BY <1>1, <3>2 DEF ListenerInv, HoldersInv
    <3> QED
      BY <2>3, <2>4, <2>5, <3>2, <3>3
  <2> QED
    BY <2>1, <2>7, <2>8
<1>2. ListenerInv /\ [ListenerNext]_listenerVars => [Worked]_listenerVars
  BY <1>1
<1> QED
  BY <1>2, ListenerInvariant, PTL DEF ListenerSpec, WorkIsOfRegisteredPollers

-------------------------------------------------------------------------------
(***************************************************************************)
(* Sessions are leases.                                                    *)
(***************************************************************************)

\* Only requireSession lets a call through.
LEMMA LetThrough ==
  ASSUME ListenerInv, [ListenerNext]_listenerVars, NEW c \in Calls,
         pc[c] = "idle", pc'[c] \in {"claim", "report", "stream"}
  PROVE  \E step \in {"claim", "report", "stream"} : requireSession(c, step)
<1>1. CallTypes
  BY TypesByPart DEF ListenerInv
<1>2. ASSUME NEW d \in Calls \ {c}, AuthenticateStep(d) \/ WorkStep(d) \/ ContextEnds(d)
      PROVE  FALSE
  <2>1. ASSUME NEW k, NEW l, Proceed(d, k, l) PROVE pc'[c] = pc[c]
    BY <1>1, <2>1, ProceedsAlone
  <2>2. ASSUME Return(d) PROVE pc'[c] = pc[c]
    BY <2>1, <2>2 DEF Return
  <2>3. AuthenticateStep(d) => pc'[c] = pc[c]
    BY <2>1, <2>2 DEF AuthenticateStep, Authenticate, tryUseNonce, SelectPoller, TouchPoller, recordSession
  <2>4. \A k : requireSession(d, k) => pc'[c] = pc[c]
    BY <2>1, <2>2 DEF requireSession
  <2>5. WorkStep(d) \/ ContextEnds(d) => pc'[c] = pc[c]
    BY <2>1, <2>2, <2>4 DEF WorkStep, Health, ClaimJob, ReportResult, StreamJobs, SelectJob,
       ClaimUpdate, CompleteClaimedBy, ContextEnds
  <2> QED
    BY <1>2, <2>3, <2>5
<1>3. ASSUME AuthenticateStep(c) \/ WorkStep(c) \/ ContextEnds(c)
      PROVE  \E step \in {"claim", "report", "stream"} : requireSession(c, step)
  <2>1. ASSUME NEW k, NEW l, Proceed(c, k, l) PROVE pc'[c] = k
    BY <1>1, <2>1, ProceedsAlone
  <2>2. ~ Return(c)
    BY <1>1, ReturnsAlone
  <2>3. ~ AuthenticateStep(c)
    BY <2>1, <2>2 DEF AuthenticateStep, Authenticate, tryUseNonce, SelectPoller, TouchPoller, recordSession, At
  <2>4. ~ ContextEnds(c) /\ ~ SelectJob(c) /\ ~ ClaimUpdate(c) /\ ~ CompleteClaimedBy(c)
    BY DEF ContextEnds, SelectJob, ClaimUpdate, CompleteClaimedBy, At
  <2>5. ~ Health(c)
    BY <2>1, <2>2 DEF Health, requireSession
  <2> QED
    BY <1>3, <2>3, <2>4, <2>5 DEF WorkStep, ClaimJob, ReportResult, StreamJobs
<1>4. CASE \/ handleRegisterPoller \/ handleDeletePoller \/ Send
           \/ StopRequested \/ NewGRPCServer \/ Tick \/ UNCHANGED listenerVars
  BY <1>4 DEF handleRegisterPoller, handleDeletePoller, Send, StopRequested, NewGRPCServer, Tick,
     calls, listenerVars
<1>5. CASE ForceStop \/ GracefulStop \/ Kill
  BY <1>5 DEF ForceStop, GracefulStop, Kill, ProcessEnds, ForgetAll
<1> QED
  BY <1>2, <1>3, <1>4, <1>5 DEF ListenerNext

\* A call is let through only within a lease of the poller's last proof of its
\* token to this process, in whatever order the calls record and purge the
\* sessions (recordSession, purgeExpiredSessionsLocked).
THEOREM LeasesRunFromProofs == ListenerSpec => SessionsAreLeases
<1> DEFINE Leased ==
      \A c \in Calls : pc[c] = "idle" /\ pc'[c] \in {"claim", "report", "stream"} =>
           LET p == local'[c].poller
           IN  proved[p] # NoTime /\ now <= proved[p] + Lease
<1>1. ASSUME ListenerInv, [ListenerNext]_listenerVars PROVE Leased
  <2>1. ASSUME NEW c \in Calls, pc[c] = "idle", pc'[c] \in {"claim", "report", "stream"}
        PROVE  /\ proved[local'[c].poller] # NoTime
               /\ now <= proved[local'[c].poller] + Lease
    <3>1. PICK step \in {"claim", "report", "stream"} : requireSession(c, step)
      BY <1>1, <2>1, LetThrough
    <3>2. pc'[c] # "idle"
      BY <2>1
    <3> QED
      BY <1>1, <3>1, <3>2, requireSessionKeeps
  <2> QED
    BY <2>1
<1>2. ListenerInv /\ [ListenerNext]_listenerVars => [Leased]_listenerVars
  BY <1>1
<1> QED
  BY <1>2, ListenerInvariant, PTL DEF ListenerSpec, SessionsAreLeases

-------------------------------------------------------------------------------
(***************************************************************************)
(* Messages pass once.  A message that passed is remembered for longer     *)
(* than it can be within the window, unless the window is past by so much  *)
(* that no call can still be held up with it; so a sweep, which may be     *)
(* done by a call that read the clock later, forgets it too late to matter.*)
(* It holds while a call is held up, from reading the clock to taking the  *)
(* lock, for no more than a unit of time: with a longer delay a call with  *)
(* the message could find it swept by a call that overtook it.             *)
(***************************************************************************)

\* A step that does not touch the cache, nor what has passed.
LEMMA CacheKept ==
  ASSUME ListenerInv, ReplayInv, UNCHANGED <<nonces, passed>>,
         Len(sent) <= Len(sent'), \A n \in 1 .. Len(sent) : sent'[n] = sent[n],
         Len(sent') \in Nat, now' \in Nat, now <= now'
  PROVE  ReplayInv'
<1>1. TableTypes /\ ProcessTypes /\ MemoryTypes
  BY TypesByPart DEF ListenerInv
<1> SUFFICES ASSUME NEW n \in 1 .. MaxMessages, passed[n] # 0
             PROVE  /\ passed[n] <= 1 /\ n <= Len(sent')
                    /\ \/ nonces[n] > sent'[n].stamp + Window
                       \/ now' > sent'[n].stamp + Window + 1
  BY DEF ReplayInv, PassedInv
<1>2. /\ passed[n] <= 1 /\ n <= Len(sent)
      /\ nonces[n] > sent[n].stamp + Window \/ now > sent[n].stamp + Window + 1
  BY DEF ReplayInv, PassedInv
<1>3. n \in 1 .. Len(sent) /\ Len(sent) \in Nat
  BY <1>1, <1>2 DEF TableTypes
<1>4. sent[n].stamp \in Int /\ now \in Nat /\ Window \in Nat
  BY <1>1, <1>3, KnownIds, TimesAreIntegers DEF Message
<1>5. sent'[n] = sent[n] /\ n <= Len(sent')
  BY <1>3
<1> QED
  BY <1>2, <1>4, <1>5

LEMMA tryUseNoncePassesOnce ==
  ASSUME ListenerInv, ReplayInv, NEW c \in Calls, tryUseNonce(c), Lag <= 1
  PROVE  ReplayInv'
<1>1. TableTypes /\ ProcessTypes /\ MemoryTypes /\ CallTypes /\ ProvedTypes
  BY TypesByPart DEF ListenerInv
<1> DEFINE m == local[c].nonce
           time == local[c].time
<1>2. /\ m \in 1 .. Len(sent) /\ 0 <= time /\ time <= now /\ now - time <= Lag
      /\ time - sent[m].stamp <= Window
  BY DEF ListenerInv, CallsInv, CallInv, tryUseNonce, At
<1>3. /\ sent' = sent /\ now' = now
      /\ \/ /\ ~ time < Swept(time)[m]
            /\ nonces' = [Swept(time) EXCEPT ![m] = time + Window]
            /\ passed' = IF sent[m].stamp < time THEN [passed EXCEPT ![m] = @ + 1] ELSE passed
         \/ time < Swept(time)[m] /\ nonces' = Swept(time) /\ passed' = passed
  BY DEF tryUseNonce
<1>4. time \in Int /\ Lag \in Nat /\ Window \in Nat /\ MaxTime \in Nat /\ now \in Nat /\ now <= MaxTime
  BY <1>1, TimesAssumption, TimesAreIntegers DEF CallTypes, CallVariables, Times, NoTime
<1>5. m \in 1 .. MaxMessages /\ \A n \in 1 .. Len(sent) : sent[n].stamp \in Int
  BY <1>1, <1>2, KnownIds DEF Message
<1> HIDE DEF m, time
<1>6. time \in 0 .. MaxTime
  BY <1>2, <1>4
<1>7. /\ Swept(time) \in [1 .. MaxMessages -> {NoTime} \cup Window .. MaxTime + Window]
      /\ \A n \in 1 .. MaxMessages : Swept(time)[n] = nonces[n] \/ time > nonces[n]
  BY <1>1, <1>6, SweepTypes
<1>8. \A n \in 1 .. MaxMessages : nonces[n] \in Int /\ passed[n] \in Nat
  BY <1>1, <1>4 DEF MemoryTypes, ProvedTypes, NoTime
<1>9. Len(sent) \in Nat
  BY <1>1 DEF TableTypes
\* A message that passed before is still remembered when it comes again.
<1>10. ASSUME passed[m] # 0 PROVE time < Swept(time)[m]
  <2>1. nonces[m] > sent[m].stamp + Window \/ now > sent[m].stamp + Window + 1
    BY <1>5, <1>10 DEF ReplayInv, PassedInv
  <2>2. sent[m].stamp \in Int /\ nonces[m] \in Int
    BY <1>2, <1>5, <1>8
  <2>3. now <= sent[m].stamp + Window + 1 /\ time <= sent[m].stamp + Window
    BY <1>2, <1>4, <2>2
  <2>4. nonces[m] > time
    BY <1>4, <2>1, <2>2, <2>3
  <2>5. Swept(time)[m] = nonces[m]
    BY <1>4, <1>5, <1>7, <2>2, <2>4
  <2> QED
    BY <1>4, <2>2, <2>4, <2>5
\* What is swept is past by more than a call can be held up.
<1>11. ASSUME NEW n \in 1 .. MaxMessages, passed[n] # 0
       PROVE  /\ passed[n] <= 1 /\ n <= Len(sent)
              /\ \/ Swept(time)[n] > sent[n].stamp + Window
                 \/ now > sent[n].stamp + Window + 1
  <2>1. /\ passed[n] <= 1 /\ n <= Len(sent)
        /\ nonces[n] > sent[n].stamp + Window \/ now > sent[n].stamp + Window + 1
    BY <1>11 DEF ReplayInv, PassedInv
  <2>2. sent[n].stamp \in Int /\ nonces[n] \in Int
    BY <1>5, <1>8, <1>9, <2>1
  <2>3. Swept(time)[n] = nonces[n] \/ time > nonces[n]
    BY <1>7
  <2>4. time > nonces[n] /\ nonces[n] > sent[n].stamp + Window => now > sent[n].stamp + Window + 1
    BY <1>2, <1>4, <2>2
  <2> QED
    BY <2>1, <2>3, <2>4
<1>12. ASSUME NEW n \in 1 .. MaxMessages PROVE PassedInv(n)'
  <2>1. CASE time < Swept(time)[m]
    <3>1. passed'[n] = passed[n] /\ nonces'[n] = Swept(time)[n]
      BY <1>3, <2>1
    <3> QED
      BY <1>3, <1>8, <1>11, <3>1 DEF PassedInv
  <2>2. CASE ~ time < Swept(time)[m] /\ n # m
    <3>1. passed'[n] = passed[n] /\ nonces'[n] = Swept(time)[n]
      BY <1>1, <1>3, <1>5, <1>7, <2>2 DEF ProvedTypes
    <3> QED
      BY <1>3, <1>8, <1>11, <3>1 DEF PassedInv
  <2>3. CASE ~ time < Swept(time)[m] /\ n = m
    <3>1. passed[n] = 0 /\ nonces'[n] = time + Window
      BY <1>3, <1>5, <1>7, <1>10, <2>3
    <3>2. passed'[n] = 0 \/ (passed'[n] = 1 /\ sent[n].stamp < time)
      <4>1. passed \in [1 .. MaxMessages -> Nat] /\ n \in 1 .. MaxMessages /\ passed[n] = 0
        BY <1>1, <3>1 DEF ProvedTypes
      <4>2. CASE sent[n].stamp < time
        <5>1. passed' = [passed EXCEPT ![n] = @ + 1]
          BY <1>3, <2>3, <4>2
        <5> QED
          BY <4>1, <4>2, <5>1
      <4>3. CASE ~ sent[n].stamp < time
        BY <1>3, <2>3, <4>1, <4>3
      <4> QED
        BY <4>2, <4>3
    <3>3. sent[n].stamp \in Int /\ n <= Len(sent)
      BY <1>2, <1>5, <1>9, <2>3
    <3>4. sent[n].stamp < time => nonces'[n] > sent[n].stamp + Window
      BY <1>4, <3>1, <3>3
    <3> QED
      BY <1>3, <3>2, <3>3, <3>4 DEF PassedInv
  <2> QED
    BY <2>1, <2>2, <2>3
<1> QED
  BY <1>12 DEF ReplayInv

\* Only tryUseNonce and the end of the process write the cache.
LEMMA CacheChanges ==
  ASSUME [ListenerNext]_listenerVars
  PROVE  \/ UNCHANGED <<nonces, passed>>
         \/ \E c \in Calls : tryUseNonce(c)
         \/ ProcessEnds
<1>1. ASSUME NEW c \in Calls, AuthenticateStep(c) \/ WorkStep(c) \/ ContextEnds(c)
      PROVE  UNCHANGED <<nonces, passed>> \/ tryUseNonce(c)
  BY <1>1 DEF AuthenticateStep, Authenticate, SelectPoller, TouchPoller, recordSession,
     WorkStep, Health, ClaimJob, ReportResult, StreamJobs, requireSession, SelectJob,
     ClaimUpdate, CompleteClaimedBy, ContextEnds, memory, history
<1>2. CASE \/ handleRegisterPoller \/ handleDeletePoller \/ Send
           \/ StopRequested \/ NewGRPCServer \/ Tick \/ UNCHANGED listenerVars
  BY <1>2 DEF handleRegisterPoller, handleDeletePoller, Send, StopRequested,
     NewGRPCServer, Tick, memory, history, listenerVars
<1>3. CASE ForceStop \/ GracefulStop \/ Kill
  BY <1>3 DEF ForceStop, GracefulStop, Kill
<1> QED
  BY <1>1, <1>2, <1>3 DEF ListenerNext

\* While a process runs, messages stay as they were sent and time passes.
LEMMA SentAndTime ==
  ASSUME ListenerInv, [ListenerNext]_listenerVars
  PROVE  /\ Len(sent) <= Len(sent') /\ \A n \in 1 .. Len(sent) : sent'[n] = sent[n]
         /\ now' = now \/ now' = now + 1
<1>0. sent \in Seq(Message) /\ Len(sent) \in Nat
  BY TypesByPart DEF ListenerInv, TableTypes
<1>1. ASSUME NEW c \in Calls, AuthenticateStep(c) \/ WorkStep(c) \/ ContextEnds(c)
      PROVE  UNCHANGED <<sent, now>>
  BY <1>1 DEF AuthenticateStep, Authenticate, tryUseNonce, SelectPoller, TouchPoller, recordSession,
     WorkStep, Health, ClaimJob, ReportResult, StreamJobs, requireSession, SelectJob,
     ClaimUpdate, CompleteClaimedBy, ContextEnds
<1>2. CASE \/ handleRegisterPoller \/ handleDeletePoller \/ StopRequested \/ ForceStop
           \/ GracefulStop \/ Kill \/ NewGRPCServer \/ UNCHANGED listenerVars
  BY <1>2 DEF handleRegisterPoller, handleDeletePoller, StopRequested, ForceStop, GracefulStop,
     Kill, NewGRPCServer, ProcessEnds, listenerVars
<1>3. CASE Tick
  BY <1>3 DEF Tick
<1>4. CASE Send
  <2>1. PICK m : sent' = Append(sent, m) /\ now' = now
    BY <1>4 DEF Send
  <2>2. Len(sent') = Len(sent) + 1 /\ \A n \in 1 .. Len(sent) : sent'[n] = sent[n]
    BY <1>0, <2>1
  <2> QED
    BY <1>0, <2>1, <2>2
<1>5. UNCHANGED <<sent, now>> => Len(sent) <= Len(sent') /\ \A n \in 1 .. Len(sent) : sent'[n] = sent[n]
  BY <1>0
<1> QED
  BY <1>0, <1>1, <1>2, <1>3, <1>4, <1>5 DEF ListenerNext

LEMMA ReplaySteps ==
  ASSUME Lag <= 1
  PROVE  ListenerInv /\ ReplayInv /\ [ListenerNext]_listenerVars => ReplayInv'
<1> SUFFICES ASSUME ListenerInv, ReplayInv, [ListenerNext]_listenerVars PROVE ReplayInv'
  OBVIOUS
<1>1. /\ Len(sent) <= Len(sent') /\ \A n \in 1 .. Len(sent) : sent'[n] = sent[n]
      /\ now' = now \/ now' = now + 1
  BY SentAndTime
<1>2. now \in Nat
  BY TypesByPart, TimesAreIntegers DEF ListenerInv
<1>3. ListenerInv'
  BY ListenerSteps
<1>4. Len(sent') \in Nat
  BY <1>3, TypesByPartNext DEF ListenerInv, TableTypes
<1>5. CASE UNCHANGED <<nonces, passed>>
  BY <1>1, <1>2, <1>4, <1>5, CacheKept
<1>6. CASE \E c \in Calls : tryUseNonce(c)
  BY <1>6, tryUseNoncePassesOnce
<1>7. CASE ProcessEnds
  BY <1>7 DEF ProcessEnds, ForgetAll, ReplayInv, PassedInv
<1> QED
  BY <1>5, <1>6, <1>7, CacheChanges

\* However often and late an Authenticate message is delivered, and whatever is
\* swept from the cache meanwhile, a process lets it past the replay check once,
\* if it was stamped before it came (tryUseNonce).
THEOREM MessagesAreNotReplayed ==
  ASSUME Lag <= 1
  PROVE  ListenerSpec => []MessagesPassOnce
<1>1. ListenerInv /\ ReplayInv /\ [ListenerNext]_listenerVars => (ListenerInv /\ ReplayInv)'
  BY ListenerSteps, ReplaySteps
<1>2. ReplayInv => MessagesPassOnce
  BY DEF ReplayInv, PassedInv, MessagesPassOnce
<1> QED
  BY <1>1, <1>2, ListenerStarts, PTL DEF ListenerSpec
===============================================================================
