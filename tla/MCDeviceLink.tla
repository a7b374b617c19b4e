----------------------------- MODULE MCDeviceLink -----------------------------
(* Small instances of DeviceLink for TLC: a backup and a terminal of one host, or
   one of the two alone. *)
EXTENDS DeviceLink

CONSTANTS b1, w1, h1, k1, k2

MCLinks == {b1, w1}
MCScriptLinks == {b1}
MCTerminalLinks == {w1}
MCHosts == {h1}
NoLinks == {}
MCLinkHost == [l \in Links |-> h1]
MCKeys == {k1, k2}
\* One driver for each transport, and for a shell the three ways scripts take a failure.
MCDriverNames == {"cisco_ios", "vsol_os", "generic_ssh", "generic_telnet", "mikrotik_routeros",
                  "junos_netconf", "restconf"}
ExecDrivers == {"mikrotik_routeros"}

\* Either the backup, of whatever device, has nothing to do, or the terminal has little to say.
BackupIdle == \A l \in ScriptLinks : stage[l] = "idle" /\ driver[l] = "restconf"
TerminalShort ==
    \A t \in TerminalLinks : outputs[t] <= 1 /\ Len(typed[t]) <= 1 /\ pings[t] = 0

MCSpec == Init /\ [][Next /\ (BackupIdle' \/ TerminalShort')]_vars /\ Fairness
===============================================================================
