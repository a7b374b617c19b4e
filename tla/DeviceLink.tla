------------------------------ MODULE DeviceLink ------------------------------
(***************************************************************************)
(* The links of the core to its devices: backups that run a driver's       *)
(* script and terminals that bridge a browser, each through a dial of its  *)
(* own, and all the SSH dials against one table of pinned host keys.       *)
(***************************************************************************)
EXTENDS DeviceSession, Terminal

CONSTANT MaxSessions  \* bound: links past their dial at once

ASSUME LinksAssumption ==
    Links = ScriptLinks \cup TerminalLinks /\ ScriptLinks \cap TerminalLinks = {}
ASSUME BoundsAssumption ==
    {MaxSessions, MaxUnpins, MaxOutput, MaxInput, MaxPings} \subseteq Nat /\ IsFiniteSet(Links)

DialStages == {"connect", "check", "add", "compare", "admitted"}
SessionStages == {"write", "top", "wait", "frame", "forward", "pong", "protocol error", "save",
                  "closed"}

vars == <<stage, hostKeyVars, sessionVars, terminalVars>>

Init ==
    /\ stage = [l \in Links |-> "idle"]
    /\ HostKeysInit /\ DeviceSessionInit /\ TerminalInit

InSession == {l \in Links : stage[l] \in SessionStages}
InBound == Cardinality(InSession) <= MaxSessions

HostKeyNext(l) == HostKeyStep(l) /\ UNCHANGED <<sessionVars, terminalVars>>
UnpinNext(s) == Unpin(s) /\ UNCHANGED <<sessionVars, terminalVars>>
ScriptNext(l) == ScriptStep(l) /\ InBound' /\ UNCHANGED terminalVars
TerminalNext(t) == TerminalStep(t) /\ InBound' /\ UNCHANGED sessionVars

Next ==
    \/ \E l \in Links : HostKeyNext(l)
    \/ \E s \in Slots : UnpinNext(s)
    \/ \E l \in ScriptLinks : ScriptNext(l)
    \/ \E t \in TerminalLinks : TerminalNext(t)

\* The statements of the host-key check, and the opening of a session that is not
\* an SSH one: its login has a deadline or the dial a timeout.
DialGoesOn(l) ==
    /\ \/ stage[l] \in {"check", "add", "compare"}
       \/ stage[l] = "admitted" /\ Transport(l) \in {"telnet", "http"}
    /\ HostKeyNext(l) \/ ScriptNext(l)

\* The goroutine of a backup runs on in a session, and its deadline passes.  No
\* device is obliged to answer: not to a command, and not in the SSH handshake, in
\* the login or when a channel is opened, which nothing bounds.  (A command is a
\* line or a short document, which the buffers of a connection take.)
Fairness ==
    \A l \in ScriptLinks :
        /\ WF_vars(DialGoesOn(l))
        /\ WF_vars(Open(l) /\ ProgramStep(l) /\ ScriptNext(l))
        /\ WF_vars(Expire(l) /\ ScriptNext(l))

Spec == Init /\ [][Next]_vars /\ Fairness

\* Every variable has its type, for the components this module composes.
TypeOK ==
    /\ stage \in [Links -> {"idle"} \cup DialStages \cup SessionStages]
    /\ InBound /\ HostKeysTypeOK /\ DeviceSessionTypeOK /\ TerminalTypeOK

Over(l) == stage[l] \in {"idle", "closed"}

(***************************************************************************)
(* A backup's session with its device, once open, ends, whatever the       *)
(* device sends, withholds or breaks off: the deadline of the context      *)
(* reaches every read of a shell, of Telnet, NETCONF and HTTP, in the      *)
(* greeting and in every command (transport/*.go).                         *)
(***************************************************************************)
SessionsEnd == \A l \in ScriptLinks : Open(l) /\ Transport(l) # "exec" ~> Over(l)

(***************************************************************************)
(* "timeout - per-device timeout; also passed to the SSH dial"             *)
(* (docs/configuration.md): what a backup says to a device, from the dial  *)
(* on, comes to an end.  The code does not do this: neither the handshake  *)
(* nor a command over an exec channel minds the context.                   *)
(***************************************************************************)
BackupsTimeOut == \A l \in ScriptLinks : ~ Over(l) ~> Over(l)
===============================================================================
