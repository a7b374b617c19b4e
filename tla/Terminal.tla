------------------------------- MODULE Terminal -------------------------------
(***************************************************************************)
(* The web terminal (terminal.go, Service.Handler): a WebSocket bridged to *)
(* an SSH shell.  A goroutine copies the device's output to the browser    *)
(* while the request's own goroutine reads the browser's frames; both      *)
(* write frames to one connection, each a header and then a payload, and   *)
(* both append to the transcript, which is saved when the request ends.    *)
(***************************************************************************)
EXTENDS HostKeys, Sequences, SequencesExt

CONSTANTS TerminalLinks,     \* links opened by Service.Handler
          MaxOutput, MaxInput, MaxPings  \* bounds: chunks and frames of a session

ASSUME TerminalLinksAssumption == TerminalLinks \subseteq Links

VARIABLES
    copier,     \* what the device-to-browser goroutine does next
    wire,       \* what was written to the hijacked connection
    writer,     \* who holds writeMu
    transcript,
    typed,      \* what the device was sent
    gone,       \* writing to the browser fails from now on
    outputs, pings,  \* chunks the device sent, pings the browser sent
    row         \* of terminal_sessions: no row, no transcript yet, or the saved one

terminalVars == <<copier, wire, writer, transcript, typed, gone, outputs, pings, row>>

NoRow == [state |-> "none", transcript |-> <<>>]
OpenRow == [state |-> "open", transcript |-> <<>>]
SavedRow(text) == [state |-> "saved", transcript |-> text]
Header(w) == [part |-> "header", by |-> w]
Payload(w, n) == [part |-> "payload", by |-> w, chunk |-> n]
Bare(w) == [part |-> "frame without payload", by |-> w]
Output(n) == [from |-> "device", chunk |-> n]
Input(n) == [from |-> "browser", chunk |-> n]
Garbage == [from |-> "torn read", chunk |-> 0]

TerminalInit ==
    /\ copier = [t \in TerminalLinks |-> "off"]
    /\ wire = [t \in TerminalLinks |-> <<>>] /\ writer = [t \in TerminalLinks |-> "nobody"]
    /\ transcript = [t \in TerminalLinks |-> <<>>] /\ typed = [t \in TerminalLinks |-> <<>>]
    /\ gone = [t \in TerminalLinks |-> FALSE]
    /\ outputs = [t \in TerminalLinks |-> 0] /\ pings = [t \in TerminalLinks |-> 0]
    /\ row = [t \in TerminalLinks |-> NoRow]

CopierGoto(t, s) == copier' = [copier EXCEPT ![t] = s]
Record(t, entry) == transcript' = [transcript EXCEPT ![t] = Append(@, entry)]
Put(t, x) == wire' = [wire EXCEPT ![t] = Append(@, x)]

-------------------------------------------------------------------------------
(***************************************************************************)
(* safeWrite: one Write for the header and one for the payload, under the  *)
(* mutex.  Once a write has failed, or the request has ended and closed    *)
(* the connection, every later one fails.                                  *)
(***************************************************************************)

\* Mutated form: the frames are written without a mutex.
CanAlwaysWrite(t) == TRUE

CanWrite(t) == writer[t] = "nobody"
Connected(t) == ~ gone[t] /\ stage[t] # "closed"

PutHeader(t, w) ==
    /\ CanWrite(t) /\ Connected(t)
    /\ Put(t, Header(w))
    /\ writer' = [writer EXCEPT ![t] = w]

PutPayload(t, w, n) ==
    /\ Connected(t)
    /\ Put(t, Payload(w, n))
    /\ writer' = [writer EXCEPT ![t] = "nobody"]

-------------------------------------------------------------------------------
(***************************************************************************)
(* The handler: open, then one frame of the browser at a time.             *)
(***************************************************************************)

OpenTerminal(t) ==
    /\ stage[t] = "idle" /\ Goto(t, "connect")
    /\ UNCHANGED <<hostKeyVars, terminalVars>>

\* The shell is there: INSERT the row, and start to copy.
InsertRow(t) ==
    /\ stage[t] = "admitted"
    /\ Goto(t, "frame") /\ CopierGoto(t, "read")
    /\ row' = [row EXCEPT ![t] = OpenRow]
    /\ UNCHANGED <<hostKeyVars, wire, writer, transcript, typed, gone, outputs, pings>>

Type(t) ==
    /\ stage[t] = "frame" /\ Len(typed[t]) < MaxInput
    /\ Goto(t, "forward") /\ Record(t, Input(Len(typed[t]) + 1))
    /\ UNCHANGED <<hostKeyVars, copier, wire, writer, typed, gone, outputs, pings, row>>

Forward(t) ==
    /\ stage[t] = "forward"
    /\ \/ Goto(t, "frame") /\ typed' = [typed EXCEPT ![t] = Append(@, Len(@) + 1)]
       \/ Goto(t, "save") /\ UNCHANGED typed
    /\ UNCHANGED <<hostKeyVars, copier, wire, writer, transcript, gone, outputs, pings, row>>

Ping(t) ==
    /\ stage[t] = "frame" /\ pings[t] < MaxPings
    /\ Goto(t, "pong") /\ pings' = [pings EXCEPT ![t] = @ + 1]
    /\ UNCHANGED <<hostKeyVars, copier, wire, writer, transcript, typed, gone, outputs, row>>

\* A frame without a mask is answered with the code of a protocol error.
BadFrame(t) ==
    /\ stage[t] = "frame" /\ Goto(t, "protocol error")
    /\ UNCHANGED <<hostKeyVars, terminalVars>>

\* A close frame, or the connection breaks.
Leave(t) ==
    /\ stage[t] = "frame" /\ Goto(t, "save")
    /\ UNCHANGED <<hostKeyVars, terminalVars>>

AnswerHeader(t) ==
    /\ stage[t] \in {"pong", "protocol error"} /\ writer[t] # "handler"
    /\ PutHeader(t, "handler")
    /\ UNCHANGED <<stage, hostKeyVars, copier, transcript, typed, gone, outputs, pings, row>>

AnswerPayload(t) ==
    /\ stage[t] \in {"pong", "protocol error"} /\ writer[t] = "handler"
    /\ PutPayload(t, "handler", 0)
    /\ Goto(t, IF stage[t] = "pong" THEN "frame" ELSE "save")
    /\ UNCHANGED <<hostKeyVars, copier, transcript, typed, gone, outputs, pings, row>>

\* The error of a write is ignored.
AnswerFails(t) ==
    /\ stage[t] \in {"pong", "protocol error"} /\ ~ Connected(t)
    /\ Goto(t, IF stage[t] = "pong" THEN "frame" ELSE "save")
    /\ CanWrite(t) \/ writer[t] = "handler"
    /\ writer' = [writer EXCEPT ![t] = "nobody"]
    /\ UNCHANGED <<hostKeyVars, copier, wire, transcript, typed, gone, outputs, pings, row>>

\* transcript.String() takes no lock: a chunk being recorded may leave garbage at
\* the end.  The UPDATE may fail; the deferred calls close the device and the browser.
Save(t) ==
    /\ stage[t] = "save" /\ Goto(t, "closed")
    /\ \E tail \in {<<>>} \cup (IF copier[t] = "record" THEN {<<Garbage>>} ELSE {}) :
           row' \in {row, [row EXCEPT ![t] = SavedRow(transcript[t] \o tail)]}
    /\ UNCHANGED <<hostKeyVars, copier, wire, writer, transcript, typed, gone, outputs, pings>>

-------------------------------------------------------------------------------
(***************************************************************************)
(* The goroutine that copies the device's output.                          *)
(***************************************************************************)

CopierRead(t) ==
    /\ copier[t] = "read"
    /\ \/ /\ stage[t] # "closed" /\ outputs[t] < MaxOutput
          /\ outputs' = [outputs EXCEPT ![t] = @ + 1] /\ CopierGoto(t, "record")
       \/ CopierGoto(t, "bye") /\ UNCHANGED outputs
    /\ UNCHANGED <<stage, hostKeyVars, wire, writer, transcript, typed, gone, pings, row>>

\* Mutated form: the browser is shown the output before it is recorded.
CopierRecordLater(t) ==
    /\ copier[t] = "record"
    /\ CopierGoto(t, "header") /\ UNCHANGED transcript
    /\ UNCHANGED <<stage, hostKeyVars, wire, writer, typed, gone, outputs, pings, row>>

CopierRecord(t) ==
    /\ copier[t] = "record"
    /\ CopierGoto(t, "header") /\ Record(t, Output(outputs[t]))
    /\ UNCHANGED <<stage, hostKeyVars, wire, writer, typed, gone, outputs, pings, row>>

CopierHeader(t) ==
    /\ copier[t] = "header"
    /\ PutHeader(t, "copier") /\ CopierGoto(t, "payload")
    /\ UNCHANGED <<stage, hostKeyVars, transcript, typed, gone, outputs, pings, row>>

CopierPayload(t) ==
    /\ copier[t] = "payload"
    /\ PutPayload(t, "copier", outputs[t]) /\ CopierGoto(t, "read")
    /\ UNCHANGED <<stage, hostKeyVars, transcript, typed, gone, outputs, pings, row>>

\* The goroutine returns, or ignores that its last frame is lost.
CopierFails(t) ==
    /\ copier[t] \in {"header", "payload", "bye"} /\ ~ Connected(t)
    /\ CanWrite(t) \/ copier[t] = "payload"
    /\ CopierGoto(t, "off")
    /\ writer' = [writer EXCEPT ![t] = "nobody"]
    /\ UNCHANGED <<stage, hostKeyVars, wire, transcript, typed, gone, outputs, pings, row>>

\* The device has closed the shell: a close frame, which has no payload.
CopierBye(t) ==
    /\ copier[t] = "bye" /\ Connected(t) /\ CanWrite(t)
    /\ Put(t, Bare("copier")) /\ CopierGoto(t, "off")
    /\ UNCHANGED <<stage, hostKeyVars, writer, transcript, typed, gone, outputs, pings, row>>

\* The browser, or the network before it, goes away.
BrowserGoes(t) ==
    /\ copier[t] # "off" /\ ~ gone[t]
    /\ gone' = [gone EXCEPT ![t] = TRUE]
    /\ UNCHANGED <<stage, hostKeyVars, copier, wire, writer, transcript, typed, outputs, pings,
                   row>>

\* Both goroutines are done; the link is free for the next terminal of the device.
Clear(t) ==
    /\ stage[t] = "closed" /\ copier[t] = "off" /\ Goto(t, "idle")
    /\ wire' = [wire EXCEPT ![t] = <<>>] /\ transcript' = [transcript EXCEPT ![t] = <<>>]
    /\ typed' = [typed EXCEPT ![t] = <<>>] /\ gone' = [gone EXCEPT ![t] = FALSE]
    /\ outputs' = [outputs EXCEPT ![t] = 0] /\ pings' = [pings EXCEPT ![t] = 0]
    /\ row' = [row EXCEPT ![t] = NoRow]
    /\ UNCHANGED <<hostKeyVars, copier, writer>>

HandlerStep(t) ==
    \/ OpenTerminal(t) \/ InsertRow(t) \/ Type(t) \/ Forward(t) \/ Ping(t) \/ BadFrame(t)
    \/ Leave(t) \/ AnswerHeader(t) \/ AnswerPayload(t) \/ AnswerFails(t) \/ Save(t)

CopierStep(t) ==
    \/ CopierRead(t) \/ CopierRecord(t) \/ CopierHeader(t) \/ CopierPayload(t)
    \/ CopierFails(t) \/ CopierBye(t)

TerminalStep(t) == HandlerStep(t) \/ CopierStep(t) \/ BrowserGoes(t) \/ Clear(t)

Entry == [from : {"device", "browser", "torn read"}, chunk : 0 .. MaxOutput + MaxInput + 1]
Piece == [part : {"header", "frame without payload"}, by : {"copier", "handler"}]
         \cup [part : {"payload"}, by : {"copier", "handler"}, chunk : 0 .. MaxOutput]

TerminalTypeOK ==
    \A t \in TerminalLinks :
        /\ copier[t] \in {"off", "read", "record", "header", "payload", "bye"}
        /\ wire[t] \in Seq(Piece) /\ writer[t] \in {"nobody", "copier", "handler"}
        /\ transcript[t] \in Seq(Entry) /\ typed[t] \in Seq(1 .. MaxInput)
        /\ gone[t] \in BOOLEAN /\ outputs[t] \in 0 .. MaxOutput /\ pings[t] \in 0 .. MaxPings
        /\ row[t] \in [state : {"none", "open", "saved"}, transcript : Seq(Entry)]

-------------------------------------------------------------------------------
(***************************************************************************)
(* What the browser receives is a sequence of whole frames: no header is   *)
(* followed by anything but its own payload, though two goroutines write   *)
(* (terminal.go, safeWrite, writeFrame).                                   *)
(***************************************************************************)
FramesAreWhole ==
    \A t \in TerminalLinks : \A i \in 1 .. Len(wire[t]) - 1 :
        wire[t][i].part = "header" <=>
            wire[t][i + 1].part = "payload" /\ wire[t][i + 1].by = wire[t][i].by

Chunks(entries, from) ==
    LET theirs == SelectSeq(entries, LAMBDA e : e.from = from)
    IN  [i \in 1 .. Len(theirs) |-> theirs[i].chunk]

Shown(t) ==
    LET payloads == SelectSeq(wire[t], LAMBDA p : p.part = "payload" /\ p.by = "copier")
    IN  [i \in 1 .. Len(payloads) |-> payloads[i].chunk]

(***************************************************************************)
(* When the transcript is saved it holds, in order, everything the device  *)
(* was sent and everything the browser was shown until then, though it is  *)
(* read while the other goroutine may be appending to it (terminal.go,     *)
(* Handler).  Output that arrives during or after the save is not in it.   *)
(***************************************************************************)
SavedCoversTheSession ==
    [][\A t \in TerminalLinks :
           row[t].state # "saved" /\ row'[t].state = "saved" =>
               /\ IsPrefix(typed[t], Chunks(row'[t].transcript, "browser"))
               /\ IsPrefix(Shown(t), Chunks(row'[t].transcript, "device"))]_row
===============================================================================
