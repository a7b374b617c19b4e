----------------------------- MODULE DeviceSession -----------------------------
(***************************************************************************)
(* What a backup says to a device: the drivers (drivers/builtin) are       *)
(* scripts of commands, run over the session their transport provides      *)
(* (transport/*.go).  A device answers a command with a body and then its  *)
(* prompt, or the end of a reply; the answers come as one stream, numbered *)
(* in the order of the requests: 2r-1 is the body and 2r the end of answer *)
(* r.  The device may be slow or hang up anywhere, and the context of the  *)
(* backup expires once, or is cancelled.                                   *)
(***************************************************************************)
EXTENDS HostKeys, Sequences

CONSTANTS ScriptLinks,       \* links opened by Service.BackupNow
          DriverNames        \* bound: the drivers the devices have

\* Commands that must succeed, that may fail, whose output is an artifact of the
\* backup, whose output is one if they succeed, and that are tried before the next.
ciscoIOS == <<"must", "show", "showMay">>
ciscoNXOS == <<"must", "show", "showMay">>
ciscoIOSXR == <<"must", "show">>
aristaEOS == <<"must", "show">>
junosCLI == <<"must", "show">>
mikrotikROS == <<"show">>
nokiaSROS == <<"must", "show">>
bdcomOS == <<"must", "show">>
vsolOS == <<"may", "must", "show">>
dbcOS == <<"may", "must", "show">>
genericSSH == <<"orElse", "show">>
genericTelnet == <<"orElse", "show">>
fortiosDriver == <<"may", "may", "may", "show">>
paloaltoPANOS == <<"must", "show">>
huaweiVRP == <<"must", "show">>
ciscoNetconf == <<"show">>
junosNetconf == <<"show", "showMay">>
restconfDriver == <<"show">>
gnmiDriver == <<"show">>

registry ==
    [cisco_ios |-> ciscoIOS, cisco_nxos |-> ciscoNXOS, cisco_iosxr |-> ciscoIOSXR,
     arista_eos |-> aristaEOS, junos_cli |-> junosCLI, mikrotik_routeros |-> mikrotikROS,
     nokia_sros |-> nokiaSROS, bdcom_os |-> bdcomOS, vsol_os |-> vsolOS, dbc_os |-> dbcOS,
     generic_ssh |-> genericSSH, generic_telnet |-> genericTelnet,
     fortios |-> fortiosDriver, paloalto_panos |-> paloaltoPANOS, huawei_vrp |-> huaweiVRP,
     cisco_netconf |-> ciscoNetconf, junos_netconf |-> junosNetconf,
     restconf |-> restconfDriver, gnmi |-> gnmiDriver]

sessionFactoryForDriver(d) ==
    CASE d = "mikrotik_routeros" -> "exec"
      [] d = "generic_telnet" -> "telnet"
      [] d \in {"cisco_netconf", "junos_netconf"} -> "netconf"
      [] d \in {"restconf", "gnmi"} -> "http"
      [] OTHER -> "shell"

ASSUME ScriptLinksAssumption == ScriptLinks \subseteq Links
ASSUME DriversAssumption == DriverNames \subseteq DOMAIN registry

VARIABLES
    driver,     \* of the device of each link
    turn,       \* the command of the script being run, 0 for the greeting
    asked,      \* requests the device has to answer
    said,       \* parts of answers it has sent
    read,       \* parts the program has taken from the stream
    strays,     \* reads that were given up and will still take one part each
    buffer,     \* parts that the answer being read consists of so far
    hungUp,     \* the device has closed the connection
    expired, cancelled,  \* the context of the backup: its deadline, its parent
    artifacts   \* what the script has collected: request and parts

streamVars == <<asked, said, read, strays, buffer>>
contextVars == <<expired, cancelled>>
sessionVars == <<driver, turn, streamVars, hungUp, contextVars, artifacts>>

Zero == [l \in ScriptLinks |-> 0]
Never == [l \in ScriptLinks |-> FALSE]

DeviceSessionInit ==
    /\ driver \in [ScriptLinks -> DriverNames]
    /\ turn = Zero /\ asked = Zero /\ said = Zero /\ read = Zero /\ strays = Zero
    /\ buffer = [l \in ScriptLinks |-> {}]
    /\ hungUp = Never /\ expired = Never /\ cancelled = Never
    /\ artifacts = [l \in ScriptLinks |-> {}]

Transport(l) == sessionFactoryForDriver(driver[l])
Script(l) == registry[driver[l]]
Ended(l) == expired[l] \/ cancelled[l]
Greets(l) == Transport(l) \in {"shell", "telnet", "netconf"}

-------------------------------------------------------------------------------
(***************************************************************************)
(* Opening the session.  RESTCONF and gNMI go over TLS and pin no key.     *)
(***************************************************************************)

Dial(l) ==
    /\ stage[l] = "idle"
    /\ \/ Transport(l) \in {"shell", "exec", "netconf"} /\ Goto(l, "connect")
       \/ Transport(l) \in {"telnet", "http"} /\ Goto(l, "admitted")
    /\ UNCHANGED <<hostKeyVars, sessionVars>>

\* Connected, and admitted if there is a host key: a session is opened, and the
\* greeting of the device awaited where it has one.
Start(l) ==
    /\ stage[l] = "admitted"
    /\ IF Greets(l)
       THEN /\ Goto(l, "top") /\ asked' = [asked EXCEPT ![l] = 1] /\ UNCHANGED turn
       ELSE /\ Goto(l, "write") /\ turn' = [turn EXCEPT ![l] = 1] /\ UNCHANGED asked
    /\ UNCHANGED <<hostKeyVars, driver, said, read, strays, buffer, hungUp, contextVars,
                   artifacts>>

-------------------------------------------------------------------------------
(***************************************************************************)
(* Driver.FetchConfig: what follows the return of Session.Run.             *)
(***************************************************************************)

Collected(l) == [request |-> asked[l], parts |-> buffer'[l]]

NextCommand(l) ==
    /\ turn' = [turn EXCEPT ![l] = @ + 1]
    /\ IF turn[l] = Len(Script(l)) THEN Goto(l, "closed") ELSE Goto(l, "write")

Stop(l) == Goto(l, "closed") /\ UNCHANGED turn

Succeed(l) ==
    LET command == IF turn[l] = 0 THEN "must" ELSE Script(l)[turn[l]] IN
    /\ IF command \in {"show", "showMay", "orElse"}
       THEN artifacts' = [artifacts EXCEPT ![l] = @ \cup {Collected(l)}]
       ELSE UNCHANGED artifacts
    /\ IF command = "orElse" THEN Stop(l) ELSE NextCommand(l)

\* DialSSH ignores how reading the banner ended; a login and a hello must succeed.
Fail(l) ==
    LET command == CASE turn[l] # 0 -> Script(l)[turn[l]]
                     [] Transport(l) = "shell" -> "may"
                     [] OTHER -> "must" IN
    /\ IF command \in {"must", "show"} THEN Stop(l) ELSE NextCommand(l)
    /\ UNCHANGED artifacts

-------------------------------------------------------------------------------
(***************************************************************************)
(* Session.Run over each transport: write the command, then read.          *)
(***************************************************************************)

\* A write to a closed connection may fail, or go unnoticed until the read.
Write(l) ==
    /\ stage[l] = "write"
    /\ buffer' = [buffer EXCEPT ![l] = {}]
    /\ \/ /\ Goto(l, "top")
          /\ asked' = [asked EXCEPT ![l] = @ + 1]
          /\ UNCHANGED <<turn, artifacts>>
       \/ hungUp[l] /\ Fail(l) /\ UNCHANGED asked
    /\ UNCHANGED <<hostKeyVars, driver, said, read, strays, hungUp, contextVars>>

\* Mutated form: the loop goes straight to the select.
NeverPastDeadline(l) == FALSE

\* What the loop looks at before each read.
PastDeadline(l) ==
    CASE Transport(l) = "shell" -> expired[l]
      [] Transport(l) \in {"telnet", "http"} -> Ended(l)
      [] OTHER -> FALSE

LoopTop(l) ==
    /\ stage[l] = "top"
    /\ IF PastDeadline(l) THEN Fail(l) ELSE Goto(l, "wait") /\ UNCHANGED <<turn, artifacts>>
    /\ UNCHANGED <<hostKeyVars, driver, streamVars, hungUp, contextVars>>

\* A part arrives; the end of an answer ends the reading, whosever answer it is.
Receive(l) ==
    /\ stage[l] = "wait" /\ read[l] < said[l]
    /\ read' = [read EXCEPT ![l] = @ + 1]
    /\ buffer' = [buffer EXCEPT ![l] = @ \cup {read'[l]}]
    /\ IF read'[l] % 2 = 0 THEN Succeed(l) ELSE Goto(l, "top") /\ UNCHANGED <<turn, artifacts>>
    /\ UNCHANGED <<hostKeyVars, driver, asked, said, strays, hungUp, contextVars>>

\* io.EOF counts as the end of the output of a shell, and ParseRPCReply takes a
\* truncated reply; a reset, or the end of an exec channel or response, is an error.
ReachEOF(l) ==
    /\ stage[l] = "wait" /\ hungUp[l] /\ read[l] = said[l]
    /\ \/ Fail(l)
       \/ /\ \/ Transport(l) \in {"shell", "telnet"}
             \/ Transport(l) = "netconf" /\ turn[l] > 0 /\ buffer[l] # {}
          /\ UNCHANGED buffer
          /\ Succeed(l)
    /\ UNCHANGED <<hostKeyVars, driver, streamVars, hungUp, contextVars>>

\* Mutated form: the select of a shell has only the read.
MayGiveUpUnlessShell(l) == Transport(l) \in {"netconf", "http"}

\* sshExecSession.Run makes a context of its own and looks at neither; a NETCONF
\* reply and an HTTP response have a timer as well.
MayGiveUp(l) ==
    CASE Transport(l) = "exec" -> FALSE
      [] Transport(l) \in {"shell", "telnet"} -> Ended(l)
      [] OTHER -> TRUE

\* The select returns, and leaves behind the goroutine that is reading.
GiveUp(l) ==
    /\ stage[l] = "wait" /\ MayGiveUp(l)
    /\ strays' = [strays EXCEPT ![l] = IF Transport(l) = "http" THEN @ ELSE @ + 1]
    /\ Fail(l)
    /\ UNCHANGED <<hostKeyVars, driver, asked, said, read, buffer, hungUp, contextVars>>

StrayRead(l) ==
    /\ strays[l] > 0 /\ read[l] < said[l]
    /\ strays' = [strays EXCEPT ![l] = @ - 1]
    /\ read' = [read EXCEPT ![l] = @ + 1]
    /\ UNCHANGED <<stage, hostKeyVars, driver, turn, asked, said, buffer, hungUp, contextVars,
                   artifacts>>

-------------------------------------------------------------------------------
(***************************************************************************)
(* The device and the context.                                             *)
(***************************************************************************)

Open(l) == stage[l] \in {"write", "top", "wait"}

Say(l) ==
    /\ Open(l) /\ ~ hungUp[l] /\ said[l] < 2 * asked[l]
    /\ said' = [said EXCEPT ![l] = @ + 1]
    /\ UNCHANGED <<stage, hostKeyVars, driver, turn, asked, read, strays, buffer, hungUp,
                   contextVars, artifacts>>

HangUp(l) ==
    /\ Open(l) /\ ~ hungUp[l]
    /\ hungUp' = [hungUp EXCEPT ![l] = TRUE]
    /\ UNCHANGED <<stage, hostKeyVars, driver, turn, streamVars, contextVars, artifacts>>

\* Before the session is open, DialFails stands for the context that ends.
Expire(l) ==
    /\ Open(l) /\ ~ expired[l]
    /\ expired' = [expired EXCEPT ![l] = TRUE]
    /\ UNCHANGED <<stage, hostKeyVars, driver, turn, streamVars, hungUp, cancelled, artifacts>>

Cancel(l) ==
    /\ Open(l) /\ ~ Ended(l)
    /\ cancelled' = [cancelled EXCEPT ![l] = TRUE]
    /\ UNCHANGED <<stage, hostKeyVars, driver, turn, streamVars, hungUp, expired, artifacts>>

\* The closer has run; the link is free for the next backup of the device.
Rest(l) ==
    /\ stage[l] = "closed" /\ Goto(l, "idle")
    /\ turn' = [turn EXCEPT ![l] = 0] /\ asked' = [asked EXCEPT ![l] = 0]
    /\ said' = [said EXCEPT ![l] = 0] /\ read' = [read EXCEPT ![l] = 0]
    /\ strays' = [strays EXCEPT ![l] = 0] /\ buffer' = [buffer EXCEPT ![l] = {}]
    /\ hungUp' = [hungUp EXCEPT ![l] = FALSE] /\ expired' = [expired EXCEPT ![l] = FALSE]
    /\ cancelled' = [cancelled EXCEPT ![l] = FALSE]
    /\ artifacts' = [artifacts EXCEPT ![l] = {}]
    /\ UNCHANGED <<hostKeyVars, driver>>

ProgramStep(l) ==
    Dial(l) \/ Start(l) \/ Write(l) \/ LoopTop(l) \/ Receive(l) \/ ReachEOF(l) \/ GiveUp(l)

ScriptStep(l) ==
    \/ ProgramStep(l) \/ StrayRead(l) \/ Rest(l)
    \/ Say(l) \/ HangUp(l) \/ Expire(l) \/ Cancel(l)

DeviceSessionTypeOK ==
    /\ driver \in [ScriptLinks -> DriverNames]
    /\ \A l \in ScriptLinks :
           /\ turn[l] \in 0 .. Len(Script(l)) + 1
           /\ asked[l] \in 0 .. Len(Script(l)) + 1
           /\ read[l] \in 0 .. said[l] /\ said[l] \in 0 .. 2 * asked[l]
           /\ strays[l] \in 0 .. asked[l] /\ buffer[l] \subseteq 1 .. read[l]
           /\ artifacts[l] \subseteq [request : 1 .. asked[l], parts : SUBSET (1 .. read[l])]
    /\ {hungUp, expired, cancelled} \subseteq [ScriptLinks -> BOOLEAN]

(***************************************************************************)
(* Unless the backup is cancelled, an artifact holds the answer to its own *)
(* command and nothing else, and all of it if the device kept the line: a  *)
(* command that ran out of time leaves an answer in the stream that no     *)
(* later command of the script takes for its own (ssh.go, telnet.go,       *)
(* netconf.go, readUntilPrompt, readRPCReply; builtin.go, FetchConfig).    *)
(***************************************************************************)
ArtifactsAreTheirs ==
    \A l \in ScriptLinks : cancelled[l] \/
        \A a \in artifacts[l] :
            LET own == {2 * a.request - 1, 2 * a.request} IN
            a.parts \subseteq own /\ (hungUp[l] \/ a.parts = own)
===============================================================================
