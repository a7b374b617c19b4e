----------------------------- MODULE PushRunProofs -----------------------------
(***************************************************************************)
(* Proofs about PushRun, for any number of runs, devices, slots and faults. *)
(***************************************************************************)
EXTENDS PushRun, FiniteSetTheorems, TLAPS

WentThrough == {"applied", "rolled_back"}
Alarming == {"failed", "rolled_back"}

\* What a result, decided or reported, says of the device.
Truthful(r, d, result) ==
    /\ result \in Results
    /\ result \in WentThrough <=> d \in pushed[r]

\* A failure has its audit row, as long as nothing made the statement fail.
Noted(r, d, result) ==
    result \in Alarming /\ alive[r] /\ faults = 0 => d \in audited[r]

WorkerInv(r, d) ==
    /\ worker[r][d] # "none" => d \in targets[r]
    /\ worker[r][d] \in {"none", "render", "preflight", "execute"} => d \notin pushed[r]
    /\ worker[r][d] = "poll" => d \in pushed[r]
    /\ worker[r][d] = "audit" => outcome[r][d] \in Alarming
    /\ worker[r][d] \in {"audit", "report"} => Truthful(r, d, outcome[r][d])
    /\ worker[r][d] = "report" => Noted(r, d, outcome[r][d])

ResultInv(r, d) ==
    /\ out[r][d] # "none" =>
          worker[r][d] = "done" /\ Truthful(r, d, out[r][d]) /\ Noted(r, d, out[r][d])
    /\ worker[r][d] = "done" /\ out[r][d] = "none" => stage[r] = "ended"
    /\ rows[r][d] # "none" => rows[r][d] = out[r][d]
    /\ d \in lost[r] => out[r][d] # "none" /\ rows[r][d] = "none"

AllReported(r) == \A d \in targets[r] : out[r][d] # "none"

RunInv(r) ==
    /\ stage[r] \in {"idle", "begin"} => \A d \in Devices : worker[r][d] = "none"
    /\ stage[r] = "store" => AllReported(r)
    /\ runStatus[r] \in Concluded =>
          stage[r] = "ended" /\ alive[r] /\ AllReported(r) /\ Unstored(r) = {} /\ runStatus[r] = Summary(r)

Local(r) == RunInv(r) /\ \A d \in Devices : WorkerInv(r, d) /\ ResultInv(r, d)

IInv == PushTypeOK /\ \A r \in Runs : Local(r)

--------------------------------------------------------------------------------
(***************************************************************************)
(* Types.                                                                  *)
(***************************************************************************)

\* A run of a function of two arguments changes at one place.
LEMMA Update2 ==
    ASSUME NEW S, NEW f \in [Runs -> [Devices -> S]], NEW r \in Runs, NEW d \in Devices, NEW v \in S
    PROVE  /\ [f EXCEPT ![r][d] = v] \in [Runs -> [Devices -> S]]
           /\ [f EXCEPT ![r][d] = v][r][d] = v
           /\ \A e \in Devices : e # d => [f EXCEPT ![r][d] = v][r][e] = f[r][e]
           /\ \A q \in Runs : q # r => [f EXCEPT ![r][d] = v][q] = f[q]
  OBVIOUS

LEMMA GrowSet ==
    ASSUME NEW f \in [Runs -> SUBSET Devices], NEW r \in Runs, NEW d \in Devices
    PROVE  /\ [f EXCEPT ![r] = @ \cup {d}] \in [Runs -> SUBSET Devices]
           /\ [f EXCEPT ![r] = @ \cup {d}][r] = f[r] \cup {d}
           /\ \A q \in Runs : q # r => [f EXCEPT ![r] = @ \cup {d}][q] = f[q]
  OBVIOUS

LEMMA FaultsGrow ==
    ASSUME PushTypeOK, NEW r \in Runs, Refused(r)
    PROVE  /\ faults' \in 0 .. MaxFaults /\ faults' >= faults
           /\ ~alive[r] \/ faults' > 0
  BY PushBounds DEF PushTypeOK, Refused

LEMMA SummaryType == \A r \in Runs : Summary(r) \in Concluded
  BY DEF Summary, Concluded

--------------------------------------------------------------------------------
(***************************************************************************)
(* A step of one run leaves the facts about the others alone.              *)
(***************************************************************************)

Frame(r) ==
    /\ runStatus'[r] = runStatus[r] /\ rows'[r] = rows[r] /\ audited'[r] = audited[r]
    /\ stage'[r] = stage[r] /\ alive'[r] = alive[r] /\ targets'[r] = targets[r]
    /\ worker'[r] = worker[r] /\ outcome'[r] = outcome[r] /\ out'[r] = out[r]
    /\ pushed'[r] = pushed[r] /\ lost'[r] = lost[r]

LEMMA FrameKeeps ==
    ASSUME IInv, PushTypeOK', NEW r \in Runs, Frame(r), faults' >= faults
    PROVE  Local(r)'
  <1>1. faults' = 0 => faults = 0
    BY PushBounds DEF IInv, PushTypeOK
  <1>2. Local(r)
    BY DEF IInv
  <1>3. RunInv(r)'
    BY <1>2 DEF Local, RunInv, Frame, AllReported, Unstored, Summary
  <1>4. ASSUME NEW d \in Devices PROVE WorkerInv(r, d)' /\ ResultInv(r, d)'
    <2>1. WorkerInv(r, d) /\ ResultInv(r, d)
      BY <1>2 DEF Local
    <2> QED BY <1>1, <2>1 DEF WorkerInv, ResultInv, Frame, Truthful, Noted
  <1> QED BY <1>3, <1>4 DEF Local

LEMMA OneRun ==
    ASSUME IInv, PushTypeOK', NEW r \in Runs, \A q \in Runs : q # r => Frame(q), faults' >= faults,
           Local(r)'
    PROVE  IInv'
  BY FrameKeeps DEF IInv

\* So does the step of one goroutine, while its device has not been reported.
WorkFrame(r, d) ==
    /\ \A q \in Runs : q # r => Frame(q)
    /\ runStatus'[r] = runStatus[r] /\ rows'[r] = rows[r] /\ lost'[r] = lost[r]
    /\ stage'[r] = stage[r] /\ alive'[r] = alive[r] /\ targets'[r] = targets[r]
    /\ audited[r] \subseteq audited'[r]
    /\ \A e \in Devices : e # d =>
          /\ worker'[r][e] = worker[r][e] /\ outcome'[r][e] = outcome[r][e]
          /\ out'[r][e] = out[r][e] /\ (e \in pushed'[r] <=> e \in pushed[r])

LEMMA WorkKeeps ==
    ASSUME IInv, PushTypeOK', NEW r \in Runs, NEW d \in Devices, worker[r][d] \in Busy,
           WorkFrame(r, d), faults' >= faults, WorkerInv(r, d)', ResultInv(r, d)'
    PROVE  IInv'
  <1>1. faults' = 0 => faults = 0
    BY PushBounds DEF IInv, PushTypeOK
  <1>2. Local(r)
    BY DEF IInv
  <1>3. d \in targets[r] /\ out[r][d] = "none" /\ worker[r][d] # "none"
    BY <1>2 DEF Local, WorkerInv, ResultInv, Busy
  <1>4. stage[r] \notin {"idle", "begin", "store"} /\ runStatus[r] \notin Concluded
    BY <1>2, <1>3 DEF Local, RunInv, AllReported
  <1>5. RunInv(r)'
    BY <1>4 DEF RunInv, WorkFrame
  <1>6. ASSUME NEW e \in Devices, e # d PROVE WorkerInv(r, e)' /\ ResultInv(r, e)'
    <2>1. WorkerInv(r, e) /\ ResultInv(r, e)
      BY <1>2 DEF Local
    <2> QED BY <1>1, <1>6, <2>1 DEF WorkerInv, ResultInv, WorkFrame, Truthful, Noted
  <1>7. Local(r)'
    BY <1>5, <1>6 DEF Local
  <1> QED BY <1>7, OneRun DEF WorkFrame

--------------------------------------------------------------------------------
(***************************************************************************)
(* The steps of a goroutine.                                               *)
(***************************************************************************)

\* A step that decides what the result of the device is, or will be.
LEMMA DecideStep ==
    ASSUME IInv, NEW r \in Runs, NEW d \in Devices, NEW result \in Results \cup {"none"},
           NEW step \in {"preflight", "execute", "poll", "audit", "report"},
           worker[r][d] \in Busy, Decide(r, d, result, step),
           pushed' = pushed \/ pushed' = [pushed EXCEPT ![r] = @ \cup {d}],
           step \in {"preflight", "execute"} => d \notin pushed'[r],
           step = "poll" => d \in pushed'[r],
           step = "audit" => result \in Alarming,
           step = "report" => result \in {"applied", "render_error"},
           step \in {"audit", "report"} => (result \in WentThrough <=> d \in pushed'[r])
    PROVE  IInv'
  <1>1. /\ outcome' = [outcome EXCEPT ![r][d] = result]
        /\ worker' = [worker EXCEPT ![r][d] = step]
        /\ UNCHANGED <<members, runStatus, rows, audited, stage, alive, targets, safe, out, regrouped, faults,
                       lost>>
    BY DEF Decide, WorkerGoto, control
  <1>2. /\ pushed' \in [Runs -> SUBSET Devices]
        /\ \A q \in Runs : q # r => pushed'[q] = pushed[q]
        /\ \A e \in Devices : e # d => (e \in pushed'[r] <=> e \in pushed[r])
    <2>1. pushed \in [Runs -> SUBSET Devices]
      BY DEF IInv, PushTypeOK
    <2>2. CASE pushed' = pushed
      BY <2>1, <2>2
    <2>3. CASE pushed' = [pushed EXCEPT ![r] = @ \cup {d}]
      BY <2>1, <2>3, GrowSet
    <2> QED BY <2>2, <2>3
  <1>3. /\ worker' \in [Runs -> [Devices -> Busy \cup {"none", "done"}]]
        /\ worker'[r][d] = step
        /\ \A e \in Devices : e # d => worker'[r][e] = worker[r][e]
        /\ \A q \in Runs : q # r => worker'[q] = worker[q]
    <2>1. step \in Busy \cup {"none", "done"}
      BY DEF Busy
    <2>2. worker \in [Runs -> [Devices -> Busy \cup {"none", "done"}]]
      BY DEF IInv, PushTypeOK
    <2> QED BY <1>1, <2>1, <2>2, Update2
  <1>4. /\ outcome' \in [Runs -> [Devices -> Results \cup {"none"}]]
        /\ outcome'[r][d] = result
        /\ \A e \in Devices : e # d => outcome'[r][e] = outcome[r][e]
        /\ \A q \in Runs : q # r => outcome'[q] = outcome[q]
    <2>1. outcome \in [Runs -> [Devices -> Results \cup {"none"}]]
      BY DEF IInv, PushTypeOK
    <2> QED BY <1>1, <2>1, Update2
  <1>5. PushTypeOK'
    BY <1>1, <1>2, <1>3, <1>4 DEF IInv, PushTypeOK
  <1>6. WorkFrame(r, d)
    BY <1>1, <1>2, <1>3, <1>4 DEF WorkFrame, Frame
  <1>7. WorkerInv(r, d) /\ ResultInv(r, d)
    BY DEF IInv, Local
  <1>8. out[r][d] = "none" /\ d \in targets[r]
    BY <1>7 DEF ResultInv, WorkerInv, Busy
  <1>9. WorkerInv(r, d)'
    BY <1>1, <1>3, <1>4, <1>8
       DEF WorkerInv, Truthful, Noted, Alarming, Results, WentThrough
  <1>10. ResultInv(r, d)'
    BY <1>1, <1>3, <1>7, <1>8 DEF ResultInv
  <1>11. faults' >= faults
    BY <1>1, PushBounds DEF IInv, PushTypeOK
  <1> QED BY <1>5, <1>6, <1>9, <1>10, <1>11, WorkKeeps

LEMMA DecidingSteps ==
    ASSUME IInv, NEW r \in Runs, NEW d \in Devices,
           \/ Render(r, d) \/ PreFlightPasses(r, d) \/ PreFlightFails(r, d)
           \/ ExecutorSucceeds(r, d) \/ ExecutorFails(r, d)
           \/ DeviceAnswers(r, d) \/ PollFails(r, d)
    PROVE  IInv'
  <1>1. WorkerInv(r, d) /\ pushed \in [Runs -> SUBSET Devices]
    BY DEF IInv, Local, PushTypeOK
  <1> USE DEF Busy, WorkerInv, Results, Alarming, WentThrough
  <1>2. CASE Render(r, d)
    <2>1. CASE Decide(r, d, "render_error", "report")
      BY <1>1, <1>2, <2>1, DecideStep DEF Render
    <2>2. CASE Decide(r, d, "none", "preflight")
      BY <1>1, <1>2, <2>2, DecideStep DEF Render
    <2> QED BY <1>2, <2>1, <2>2 DEF Render
  <1>3. CASE PreFlightPasses(r, d)
    BY <1>1, <1>3, DecideStep DEF PreFlightPasses
  <1>4. CASE PreFlightFails(r, d)
    BY <1>1, <1>4, DecideStep DEF PreFlightFails
  <1>5. CASE ExecutorSucceeds(r, d)
    <2>1. d \in pushed'[r]
      BY <1>1, <1>5, GrowSet DEF ExecutorSucceeds
    <2>2. CASE safe[r]
      BY <1>1, <1>5, <2>1, <2>2, DecideStep DEF ExecutorSucceeds
    <2>3. CASE ~safe[r]
      BY <1>1, <1>5, <2>1, <2>3, DecideStep DEF ExecutorSucceeds
    <2> QED BY <2>2, <2>3
  <1>6. CASE ExecutorFails(r, d)
    BY <1>1, <1>6, DecideStep DEF ExecutorFails
  <1>7. CASE DeviceAnswers(r, d)
    BY <1>1, <1>7, DecideStep DEF DeviceAnswers
  <1>8. CASE PollFails(r, d)
    BY <1>1, <1>8, DecideStep DEF PollFails
  <1> QED BY <1>2, <1>3, <1>4, <1>5, <1>6, <1>7, <1>8

LEMMA AuditStep ==
    ASSUME IInv, NEW r \in Runs, NEW d \in Devices, Audit(r, d) PROVE IInv'
  <1>1. /\ worker[r][d] = "audit" /\ worker' = [worker EXCEPT ![r][d] = "report"]
        /\ UNCHANGED <<members, runStatus, rows, stage, alive, targets, safe, outcome, out, regrouped, pushed,
                       lost>>
    BY DEF Audit, WorkerGoto, control
  <1>2. /\ worker' \in [Runs -> [Devices -> Busy \cup {"none", "done"}]]
        /\ worker'[r][d] = "report"
        /\ \A e \in Devices : e # d => worker'[r][e] = worker[r][e]
        /\ \A q \in Runs : q # r => worker'[q] = worker[q]
    <2>1. "report" \in Busy \cup {"none", "done"}
      BY DEF Busy
    <2>2. worker \in [Runs -> [Devices -> Busy \cup {"none", "done"}]]
      BY DEF IInv, PushTypeOK
    <2> QED BY <1>1, <2>1, <2>2, Update2
  <1>3. /\ audited' \in [Runs -> SUBSET Devices] /\ audited[r] \subseteq audited'[r]
        /\ \A q \in Runs : q # r => audited'[q] = audited[q]
        /\ faults' \in 0 .. MaxFaults /\ faults' >= faults
        /\ alive[r] /\ faults' = 0 => d \in audited'[r]
    <2>0. audited \in [Runs -> SUBSET Devices] /\ faults \in 0 .. MaxFaults /\ PushTypeOK
      BY DEF IInv, PushTypeOK
    <2>1. CASE alive[r] /\ audited' = [audited EXCEPT ![r] = @ \cup {d}] /\ UNCHANGED faults
      BY <2>0, <2>1, GrowSet, PushBounds
    <2>2. CASE Refused(r) /\ UNCHANGED audited
      BY <2>0, <2>2, FaultsGrow
    <2> QED BY <2>1, <2>2 DEF Audit
  <1>4. PushTypeOK'
    BY <1>1, <1>2, <1>3 DEF IInv, PushTypeOK
  <1>5. WorkFrame(r, d)
    BY <1>1, <1>2, <1>3 DEF WorkFrame, Frame
  <1>6. WorkerInv(r, d) /\ ResultInv(r, d)
    BY DEF IInv, Local
  <1>7. WorkerInv(r, d)'
    BY <1>1, <1>2, <1>3, <1>6 DEF WorkerInv, Truthful, Noted
  <1>8. ResultInv(r, d)'
    BY <1>1, <1>2, <1>6 DEF ResultInv
  <1>9. worker[r][d] \in Busy
    BY <1>1 DEF Busy
  <1> QED BY <1>3, <1>4, <1>5, <1>7, <1>8, <1>9, WorkKeeps

LEMMA ReportStep ==
    ASSUME IInv, NEW r \in Runs, NEW d \in Devices, Report(r, d) PROVE IInv'
  <1>1. /\ worker[r][d] = "report" /\ worker' = [worker EXCEPT ![r][d] = "done"]
        /\ out' = [out EXCEPT ![r][d] = outcome[r][d]]
        /\ UNCHANGED <<members, runStatus, rows, stage, alive, targets, safe, outcome, audited, regrouped,
                       faults, pushed, lost>>
    BY DEF Report, WorkerGoto, control
  <1>2. /\ worker' \in [Runs -> [Devices -> Busy \cup {"none", "done"}]]
        /\ worker'[r][d] = "done"
        /\ \A e \in Devices : e # d => worker'[r][e] = worker[r][e]
        /\ \A q \in Runs : q # r => worker'[q] = worker[q]
    <2>1. worker \in [Runs -> [Devices -> Busy \cup {"none", "done"}]]
      BY DEF IInv, PushTypeOK
    <2> QED BY <1>1, <2>1, Update2
  <1>3. /\ out' \in [Runs -> [Devices -> Results \cup {"none"}]]
        /\ out'[r][d] = outcome[r][d]
        /\ \A e \in Devices : e # d => out'[r][e] = out[r][e]
        /\ \A q \in Runs : q # r => out'[q] = out[q]
    <2>1. out \in [Runs -> [Devices -> Results \cup {"none"}]]
          /\ outcome[r][d] \in Results \cup {"none"}
      BY DEF IInv, PushTypeOK
    <2> QED BY <1>1, <2>1, Update2
  <1>4. PushTypeOK'
    BY <1>1, <1>2, <1>3 DEF IInv, PushTypeOK
  <1>5. WorkFrame(r, d)
    BY <1>1, <1>2, <1>3 DEF WorkFrame, Frame
  <1>6. WorkerInv(r, d) /\ ResultInv(r, d)
    BY DEF IInv, Local
  <1>7. WorkerInv(r, d)'
    BY <1>1, <1>2, <1>6 DEF WorkerInv
  <1>8. out[r][d] = "none" /\ rows[r][d] = "none" /\ outcome[r][d] # "none"
    BY <1>1, <1>6 DEF ResultInv, WorkerInv, Truthful, Results
  <1>9. ResultInv(r, d)'
    BY <1>1, <1>2, <1>3, <1>6, <1>8 DEF ResultInv, WorkerInv, Truthful, Noted
  <1>10. worker[r][d] \in Busy /\ faults' >= faults
    BY <1>1, PushBounds DEF Busy, IInv, PushTypeOK
  <1> QED BY <1>4, <1>5, <1>7, <1>9, <1>10, WorkKeeps

--------------------------------------------------------------------------------
(***************************************************************************)
(* The steps of Run outside of its goroutines.                             *)
(***************************************************************************)

\* A step that neither starts a goroutine nor touches a row of results.
LEMMA PlainStep ==
    ASSUME IInv, PushTypeOK', NEW r \in Runs, \A q \in Runs : q # r => Frame(q), faults' >= faults,
           rows' = rows, audited' = audited, lost' = lost, worker' = worker, outcome' = outcome,
           out' = out, pushed' = pushed, alive' = alive, RunInv(r)',
           \A d \in Devices : worker[r][d] # "none" => d \in targets'[r],
           \A d \in Devices : worker[r][d] = "done" /\ out[r][d] = "none" => stage'[r] = "ended"
    PROVE  IInv'
  <1>1. faults' = 0 => faults = 0
    BY PushBounds DEF IInv, PushTypeOK
  <1>2. ASSUME NEW d \in Devices PROVE WorkerInv(r, d)' /\ ResultInv(r, d)'
    <2>1. WorkerInv(r, d) /\ ResultInv(r, d)
      BY DEF IInv, Local
    <2> QED BY <1>1, <2>1 DEF WorkerInv, ResultInv, Truthful, Noted
  <1>3. Local(r)'
    BY <1>2 DEF Local
  <1> QED BY <1>3, OneRun

LEMMA BeginningSteps ==
    ASSUME IInv, NEW r \in Runs, ListTargets(r) \/ InsertRun(r) \/ InsertRunFails(r)
    PROVE  IInv'
  <1> USE DEF tables, control, goroutines
  <1>1. /\ stage[r] \in {"idle", "begin"} /\ stage' = [stage EXCEPT ![r] = stage'[r]]
        /\ stage'[r] \in {"begin", "spawn", "ended"}
        /\ stage'[r] = "begin" => runStatus' = runStatus
        /\ UNCHANGED <<members, rows, audited, alive, safe, worker, outcome, out, regrouped, faults,
                       pushed, lost>>
    BY DEF ListTargets, InsertRun, InsertRunFails, RunGoto, IInv, PushTypeOK
  <1>2. targets' \in [Runs -> SUBSET Devices]
        /\ \A q \in Runs : q # r => targets'[q] = targets[q]
    BY DEF ListTargets, InsertRun, InsertRunFails, IInv, PushTypeOK
  <1>3. /\ runStatus' \in [Runs -> {"none", "running"} \cup Concluded]
        /\ \A q \in Runs : q # r => runStatus'[q] = runStatus[q]
        /\ runStatus'[r] \in {runStatus[r], "running"}
    BY DEF ListTargets, InsertRun, InsertRunFails, IInv, PushTypeOK
  <1>4. PushTypeOK' /\ \A q \in Runs : q # r => Frame(q)
    <2>1. stage' \in [Runs -> {"idle", "begin", "spawn", "store", "ended"}]
      BY <1>1 DEF IInv, PushTypeOK
    <2>2. safe' \in [Runs -> BOOLEAN] /\ \A q \in Runs : q # r => stage'[q] = stage[q]
      BY <1>1 DEF IInv, PushTypeOK
    <2>3. PushTypeOK'
      BY <1>1, <1>2, <1>3, <2>1, <2>2 DEF IInv, PushTypeOK
    <2> QED
      BY <1>1, <1>2, <1>3, <2>2, <2>3 DEF Frame
  <1>5. RunInv(r) /\ (\A d \in Devices : worker[r][d] = "none") /\ runStatus'[r] \notin Concluded
    BY <1>1, <1>3 DEF IInv, Local, RunInv, Concluded
  <1>6. RunInv(r)'
    BY <1>1, <1>5 DEF RunInv
  <1>7. faults' >= faults
    BY <1>1, PushBounds DEF IInv, PushTypeOK
  <1>8. \A d \in Devices : worker[r][d] = "none"
    BY <1>5
  <1> QED BY <1>1, <1>2, <1>3, <1>4, <1>6, <1>7, <1>8, PlainStep DEF IInv, PushTypeOK

LEMMA SpawnStep ==
    ASSUME IInv, NEW r \in Runs, Spawn(r) PROVE IInv'
  <1>1. PICK d \in Unspawned(r) : worker' = [worker EXCEPT ![r][d] = "render"]
    BY DEF Spawn
  <1>2. /\ stage[r] = "spawn"
        /\ UNCHANGED <<members, runStatus, rows, audited, stage, alive, targets, safe, outcome, out, regrouped,
                       faults, pushed, lost>>
    BY DEF Spawn, tables, control
  <1>3. d \in targets[r] /\ d \in Devices /\ worker[r][d] = "none"
    BY DEF Unspawned, IInv, PushTypeOK
  <1>4. /\ worker' \in [Runs -> [Devices -> Busy \cup {"none", "done"}]]
        /\ worker'[r][d] = "render"
        /\ \A e \in Devices : e # d => worker'[r][e] = worker[r][e]
        /\ \A q \in Runs : q # r => worker'[q] = worker[q]
    <2>1. worker \in [Runs -> [Devices -> Busy \cup {"none", "done"}]] /\ "render" \in Busy
      BY DEF IInv, PushTypeOK, Busy
    <2> QED BY <1>1, <1>3, <2>1, Update2
  <1>5. PushTypeOK' /\ \A q \in Runs : q # r => Frame(q)
    BY <1>2, <1>4 DEF IInv, PushTypeOK, Frame
  <1>6. RunInv(r)'
    BY <1>2 DEF IInv, Local, RunInv
  <1>7. ASSUME NEW e \in Devices PROVE WorkerInv(r, e)' /\ ResultInv(r, e)'
    <2>1. WorkerInv(r, e) /\ ResultInv(r, e)
      BY DEF IInv, Local
    <2>2. CASE e = d
      BY <1>2, <1>3, <1>4, <2>1, <2>2 DEF WorkerInv, ResultInv
    <2>3. CASE e # d
      BY <1>2, <1>4, <2>1, <2>3 DEF WorkerInv, ResultInv, Truthful, Noted
    <2> QED BY <2>2, <2>3
  <1>8. Local(r)' /\ faults' >= faults
    BY <1>2, <1>6, <1>7, PushBounds DEF Local, IInv, PushTypeOK
  <1> QED BY <1>5, <1>8, OneRun

LEMMA WaitStep ==
    ASSUME IInv, NEW r \in Runs, WaitAll(r) PROVE IInv'
  <1>1. /\ stage[r] = "spawn" /\ Unspawned(r) = {} /\ AllDone(r)
        /\ stage' = [stage EXCEPT ![r] = "store"]
        /\ UNCHANGED <<members, runStatus, rows, audited, alive, targets, safe, worker, outcome, out,
                       regrouped, faults, pushed, lost>>
    BY DEF WaitAll, RunGoto, tables, goroutines
  <1>2. PushTypeOK' /\ stage'[r] = "store" /\ \A q \in Runs : q # r => Frame(q)
    BY <1>1 DEF IInv, PushTypeOK, Frame
  <1>3. ASSUME NEW d \in Devices
        PROVE  /\ d \in targets[r] => out[r][d] # "none"
               /\ worker[r][d] # "none" => d \in targets[r]
               /\ ~(worker[r][d] = "done" /\ out[r][d] = "none")
    <2>1. WorkerInv(r, d) /\ ResultInv(r, d) /\ worker[r][d] \in Busy \cup {"none", "done"}
      BY DEF IInv, Local, PushTypeOK
    <2>2. worker[r][d] \notin Busy
      BY <1>1 DEF AllDone, BusyWorkers
    <2>3. d \in targets[r] => worker[r][d] # "none"
      BY <1>1 DEF Unspawned
    <2> QED BY <1>1, <2>1, <2>2, <2>3 DEF WorkerInv, ResultInv
  <1>4. targets[r] \subseteq Devices /\ runStatus[r] \notin Concluded
    BY <1>1 DEF IInv, PushTypeOK, Local, RunInv
  <1>5. RunInv(r)'
    BY <1>1, <1>2, <1>3, <1>4 DEF RunInv, AllReported
  <1>6. faults' >= faults
    BY <1>1, PushBounds DEF IInv, PushTypeOK
  <1> QED BY <1>1, <1>2, <1>3, <1>5, <1>6, PlainStep

LEMMA StoreStep ==
    ASSUME IInv, NEW r \in Runs, StoreResult(r) PROVE IInv'
  <1>1. PICK d \in Unstored(r) : rows' = [rows EXCEPT ![r][d] = out[r][d]]
    BY DEF StoreResult
  <1>2. /\ stage[r] = "store"
        /\ UNCHANGED <<members, runStatus, audited, stage, alive, targets, safe, worker, outcome, out, regrouped,
                       faults, pushed, lost>>
    BY DEF StoreResult, control, goroutines
  <1>3. d \in Devices /\ d \notin lost[r] /\ out[r][d] \in Results \cup {"none"}
    BY DEF Unstored, IInv, PushTypeOK
  <1>4. /\ rows' \in [Runs -> [Devices -> Results \cup {"none"}]]
        /\ rows'[r][d] = out[r][d]
        /\ \A e \in Devices : e # d => rows'[r][e] = rows[r][e]
        /\ \A q \in Runs : q # r => rows'[q] = rows[q]
    <2>1. rows \in [Runs -> [Devices -> Results \cup {"none"}]]
      BY DEF IInv, PushTypeOK
    <2> QED BY <1>1, <1>3, <2>1, Update2
  <1>5. PushTypeOK' /\ \A q \in Runs : q # r => Frame(q)
    BY <1>2, <1>4 DEF IInv, PushTypeOK, Frame
  <1>6. RunInv(r)'
    BY <1>2 DEF IInv, Local, RunInv, AllReported
  <1>7. ASSUME NEW e \in Devices PROVE WorkerInv(r, e)' /\ ResultInv(r, e)'
    <2>1. WorkerInv(r, e) /\ ResultInv(r, e)
      BY DEF IInv, Local
    <2>2. WorkerInv(r, e)'
      BY <1>2, <2>1 DEF WorkerInv, Truthful, Noted
    <2>3. ResultInv(r, e)'
      BY <1>2, <1>3, <1>4, <2>1 DEF ResultInv, Truthful, Noted
    <2> QED BY <2>2, <2>3
  <1>8. Local(r)' /\ faults' >= faults
    BY <1>2, <1>6, <1>7, PushBounds DEF Local, IInv, PushTypeOK
  <1> QED BY <1>5, <1>8, OneRun

LEMMA LoseStep ==
    ASSUME IInv, NEW r \in Runs, LoseResult(r) PROVE IInv'
  <1>1. PICK d \in Unstored(r) : lost' = [lost EXCEPT ![r] = @ \cup {d}]
    BY DEF LoseResult
  <1>2. /\ stage[r] = "store" /\ Refused(r)
        /\ UNCHANGED <<members, runStatus, rows, audited, stage, alive, targets, safe, worker, outcome, out,
                       regrouped, pushed>>
    BY DEF LoseResult, tables, control, goroutines
  <1>3. d \in Devices /\ out[r][d] # "none" /\ rows[r][d] = "none"
    BY DEF Unstored
  <1>4. /\ lost' \in [Runs -> SUBSET Devices] /\ lost'[r] = lost[r] \cup {d}
        /\ \A q \in Runs : q # r => lost'[q] = lost[q]
    <2>1. lost \in [Runs -> SUBSET Devices]
      BY DEF IInv, PushTypeOK
    <2> QED BY <1>1, <1>3, <2>1, GrowSet
  <1>5. faults' \in 0 .. MaxFaults /\ faults' >= faults /\ (faults' = 0 => faults = 0)
    BY <1>2, FaultsGrow, PushBounds DEF IInv, PushTypeOK
  <1>6. PushTypeOK' /\ \A q \in Runs : q # r => Frame(q)
    BY <1>2, <1>4, <1>5 DEF IInv, PushTypeOK, Frame
  <1>7. RunInv(r)'
    BY <1>2 DEF IInv, Local, RunInv, AllReported
  <1>8. ASSUME NEW e \in Devices PROVE WorkerInv(r, e)' /\ ResultInv(r, e)'
    <2>1. WorkerInv(r, e) /\ ResultInv(r, e)
      BY DEF IInv, Local
    <2>2. WorkerInv(r, e)'
      BY <1>2, <1>5, <2>1 DEF WorkerInv, Truthful, Noted
    <2>3. ResultInv(r, e)'
      BY <1>2, <1>3, <1>4, <1>5, <2>1 DEF ResultInv, Truthful, Noted
    <2> QED BY <2>2, <2>3
  <1>9. Local(r)'
    BY <1>7, <1>8 DEF Local
  <1> QED BY <1>5, <1>6, <1>9, OneRun

LEMMA ConcludingSteps ==
    ASSUME IInv, NEW r \in Runs, Conclude(r) \/ ConcludeFails(r) PROVE IInv'
  <1>1. /\ stage[r] = "store" /\ Unstored(r) = {} /\ stage' = [stage EXCEPT ![r] = "ended"]
        /\ UNCHANGED <<members, rows, audited, alive, targets, safe, worker, outcome, out, regrouped,
                       pushed, lost>>
    BY DEF Conclude, ConcludeFails, RunGoto, tables, goroutines
  <1>2. faults' \in 0 .. MaxFaults /\ faults' >= faults
    BY FaultsGrow, PushBounds DEF Conclude, ConcludeFails, IInv, PushTypeOK
  <1>3. runStatus' = runStatus \/ (alive[r] /\ runStatus' = [runStatus EXCEPT ![r] = Summary(r)])
    BY DEF Conclude, ConcludeFails, tables
  <1>4. runStatus' \in [Runs -> {"none", "running"} \cup Concluded]
        /\ \A q \in Runs : q # r => runStatus'[q] = runStatus[q]
    <2>1. runStatus \in [Runs -> {"none", "running"} \cup Concluded]
      BY DEF IInv, PushTypeOK
    <2> QED BY <1>3, <2>1, SummaryType
  <1>5. PushTypeOK' /\ stage'[r] = "ended" /\ \A q \in Runs : q # r => Frame(q)
    BY <1>1, <1>2, <1>4 DEF IInv, PushTypeOK, Frame
  <1>6. RunInv(r)
    BY DEF IInv, Local
  <1>7. runStatus'[r] \in Concluded => alive[r] /\ runStatus'[r] = Summary(r)
    BY <1>1, <1>3, <1>6 DEF RunInv, IInv, PushTypeOK
  <1>8. AllReported(r) /\ AllReported(r)' /\ Unstored(r)' = {} /\ Summary(r)' = Summary(r)
    BY <1>1, <1>6 DEF RunInv, AllReported, Unstored, Summary
  <1>9. RunInv(r)'
    BY <1>1, <1>5, <1>7, <1>8 DEF RunInv
  <1>10. \A d \in Devices : worker[r][d] # "none" => d \in targets'[r]
    BY <1>1 DEF IInv, Local, WorkerInv
  <1> QED BY <1>1, <1>2, <1>5, <1>9, <1>10, PlainStep

--------------------------------------------------------------------------------
(***************************************************************************)
(* The environment.                                                        *)
(***************************************************************************)

LEMMA MoveStep ==
    ASSUME IInv, MoveDevice PROVE IInv'
  <1>1. UNCHANGED <<runStatus, rows, audited, stage, alive, targets, safe, worker, outcome, out, faults,
                    pushed, lost>>
    BY DEF MoveDevice, control, goroutines
  <1>2. members' \subseteq Devices /\ regrouped' \in 0 .. MaxMoves
    BY PushBounds DEF MoveDevice, IInv, PushTypeOK
  <1>3. PushTypeOK' /\ (\A r \in Runs : Frame(r)) /\ faults' >= faults
    BY <1>1, <1>2, PushBounds DEF IInv, PushTypeOK, Frame
  <1> QED BY <1>3, FrameKeeps DEF IInv

LEMMA CancelStep ==
    ASSUME IInv, NEW r \in Runs, ClientLeaves(r) PROVE IInv'
  <1>1. /\ stage[r] # "ended" /\ alive' = [alive EXCEPT ![r] = FALSE]
        /\ UNCHANGED <<members, runStatus, rows, audited, stage, targets, safe, worker, outcome, out, regrouped,
                       faults, pushed, lost>>
    BY DEF ClientLeaves, tables, goroutines
  <1>2. alive' \in [Runs -> BOOLEAN] /\ ~alive'[r] /\ \A q \in Runs : q # r => alive'[q] = alive[q]
    BY <1>1 DEF IInv, PushTypeOK
  <1>3. PushTypeOK' /\ \A q \in Runs : q # r => Frame(q)
    BY <1>1, <1>2 DEF IInv, PushTypeOK, Frame
  <1>4. RunInv(r)'
    BY <1>1 DEF IInv, Local, RunInv, AllReported
  <1>5. ASSUME NEW d \in Devices PROVE WorkerInv(r, d)' /\ ResultInv(r, d)'
    <2>1. WorkerInv(r, d) /\ ResultInv(r, d)
      BY DEF IInv, Local
    <2> QED BY <1>1, <1>2, <2>1 DEF WorkerInv, ResultInv, Truthful, Noted
  <1>6. Local(r)' /\ faults' >= faults
    BY <1>1, <1>4, <1>5, PushBounds DEF Local, IInv, PushTypeOK
  <1> QED BY <1>3, <1>6, OneRun

\* A crash is a fault, so that nothing is promised of audit rows afterwards.
LEMMA CrashStep ==
    ASSUME IInv, Crash PROVE IInv'
  <1>1. /\ stage' = [r \in Runs |-> IF stage[r] = "idle" THEN "idle" ELSE "ended"]
        /\ worker' = [r \in Runs |->
                         [d \in Devices |-> IF worker[r][d] = "none" THEN "none" ELSE "done"]]
        /\ UNCHANGED <<members, runStatus, rows, audited, alive, targets, safe, outcome, out, regrouped,
                       pushed, lost>>
    BY DEF Crash, tables
  <1>2. faults' \in 0 .. MaxFaults /\ faults' # 0
    BY PushBounds DEF Crash, IInv, PushTypeOK
  <1>3. PushTypeOK'
    BY <1>1, <1>2 DEF IInv, PushTypeOK
  <1>4. ASSUME NEW r \in Runs PROVE Local(r)'
    <2>1. RunInv(r) /\ stage[r] \in {"idle", "begin", "spawn", "store", "ended"}
      BY DEF IInv, Local, PushTypeOK
    <2>2. stage'[r] = IF stage[r] = "idle" THEN "idle" ELSE "ended"
      BY <1>1
    <2>3. \A d \in Devices : worker'[r][d] = IF worker[r][d] = "none" THEN "none" ELSE "done"
      BY <1>1
    <2>4. stage'[r] = "idle" => \A d \in Devices : worker'[r][d] = "none"
      BY <2>1, <2>2, <2>3 DEF RunInv
    <2>5. Unstored(r)' = Unstored(r) /\ Summary(r)' = Summary(r) /\ AllReported(r)' = AllReported(r)
      BY <1>1 DEF Unstored, Summary, AllReported
    <2>6. runStatus[r] \in Concluded => stage'[r] = "ended"
      BY <2>1, <2>2 DEF RunInv
    <2>7. RunInv(r)'
      BY <1>1, <2>1, <2>2, <2>4, <2>5, <2>6 DEF RunInv
    <2>8. ASSUME NEW d \in Devices PROVE WorkerInv(r, d)' /\ ResultInv(r, d)'
      <3>1. WorkerInv(r, d) /\ ResultInv(r, d)
        BY DEF IInv, Local
      <3>2. worker'[r][d] = IF worker[r][d] = "none" THEN "none" ELSE "done"
        BY <2>3
      <3>3. WorkerInv(r, d)'
        BY <1>1, <3>1, <3>2 DEF WorkerInv
      <3>4. worker'[r][d] = "done" => stage'[r] = "ended"
        BY <2>1, <2>2, <3>2 DEF RunInv
      <3>5. ResultInv(r, d)'
        BY <1>1, <1>2, <3>1, <3>2, <3>4 DEF ResultInv, Truthful, Noted
      <3> QED BY <3>3, <3>5
    <2> QED BY <2>7, <2>8 DEF Local
  <1> QED BY <1>3, <1>4 DEF IInv

--------------------------------------------------------------------------------
(***************************************************************************)
(* The theorems.                                                           *)
(***************************************************************************)

LEMMA InitIInv == PushInit => IInv
  <1> SUFFICES ASSUME PushInit PROVE IInv
    OBVIOUS
  <1>1. PushTypeOK
    BY PushBounds DEF PushInit, Blank, PushTypeOK, Results, Busy, Concluded
  <1>2. ASSUME NEW r \in Runs PROVE Local(r)
    BY DEF PushInit, Blank, Local, RunInv, WorkerInv, ResultInv, Concluded
  <1> QED BY <1>1, <1>2 DEF IInv

LEMMA NextIInv == IInv /\ [PushNext]_pushVars => IInv'
  <1> SUFFICES ASSUME IInv, [PushNext]_pushVars PROVE IInv'
    OBVIOUS
  <1>1. ASSUME NEW r \in Runs, Proceed(r) PROVE IInv'
    BY <1>1, BeginningSteps, SpawnStep, WaitStep, StoreStep, LoseStep, ConcludingSteps DEF Proceed
  <1>2. ASSUME NEW r \in Runs, NEW d \in Devices, Work(r, d) PROVE IInv'
    BY <1>2, DecidingSteps, AuditStep, ReportStep DEF Work
  <1>3. CASE UNCHANGED pushVars
    <2>1. /\ UNCHANGED <<members, runStatus, rows, audited, stage, alive, targets, safe, worker, outcome>>
          /\ UNCHANGED <<out, regrouped, faults, pushed, lost>>
      BY <1>3 DEF pushVars, tables, control, goroutines
    <2>2. PushTypeOK' /\ (\A r \in Runs : Frame(r)) /\ faults' >= faults
      BY <2>1, PushBounds DEF IInv, PushTypeOK, Frame
    <2> QED BY <2>2, FrameKeeps DEF IInv
  <1> QED BY <1>1, <1>2, <1>3, CancelStep, MoveStep, CrashStep DEF PushNext

\* What a run has decided, reported and stored agrees, at every step and for any
\* number of goroutines, with what was done to its devices (automation.go, Run).
THEOREM InductiveInvariant == PushSpec => []IInv
  BY InitIInv, NextIInv, PTL DEF PushSpec

\* The types of Run's locals and of the tables it writes.
THEOREM TypeCorrect == PushSpec => []PushTypeOK
  <1>1. IInv => PushTypeOK
    BY DEF IInv
  <1> QED BY <1>1, InductiveInvariant, PTL

\* A concluded run has a row for every device it listed, with what happened, but
\* for those whose INSERT failed by itself (automation.go, the loop over results).
THEOREM ResultsAreComplete == PushSpec => []ResultsAreWhole
  <1>1. ASSUME IInv PROVE ResultsAreWhole
    <2> SUFFICES ASSUME NEW r \in Runs, runStatus[r] \in Concluded
                 PROVE  /\ {d \in Devices : rows[r][d] # "none"} = targets[r] \ lost[r]
                        /\ \A d \in targets[r] \ lost[r] :
                              rows[r][d] \in {"applied", "rolled_back"} <=> d \in pushed[r]
      BY DEF ResultsAreWhole
    <2>1. AllReported(r) /\ Unstored(r) = {} /\ targets[r] \subseteq Devices
      BY <1>1 DEF IInv, Local, RunInv, PushTypeOK
    <2>2. ASSUME NEW d \in Devices PROVE WorkerInv(r, d) /\ ResultInv(r, d)
      BY <1>1 DEF IInv, Local
    <2>3. ASSUME NEW d \in Devices PROVE rows[r][d] # "none" <=> d \in targets[r] \ lost[r]
      BY <2>1, <2>2 DEF AllReported, Unstored, WorkerInv, ResultInv
    <2>4. ASSUME NEW d \in targets[r] \ lost[r]
          PROVE  rows[r][d] \in {"applied", "rolled_back"} <=> d \in pushed[r]
      <3>1. rows[r][d] # "none" /\ d \in Devices
        BY <2>1, <2>3
      <3>2. rows[r][d] = out[r][d] /\ Truthful(r, d, out[r][d])
        BY <2>2, <3>1 DEF ResultInv
      <3> QED BY <3>2 DEF Truthful, WentThrough
    <2> QED BY <2>1, <2>3, <2>4
  <1> QED BY <1>1, InductiveInvariant, PTL

\* A run says "success" only if the push got through on every device it listed,
\* stored or not (automation.go, summary).
THEOREM SuccessIsEarned == PushSpec => []SuccessMeansPushed
  <1>1. ASSUME IInv PROVE SuccessMeansPushed
    <2> SUFFICES ASSUME NEW r \in Runs, runStatus[r] = "success", NEW d \in targets[r]
                 PROVE  d \in pushed[r]
      BY DEF SuccessMeansPushed
    <2>1. runStatus[r] \in Concluded
      BY DEF Concluded
    <2>2. AllReported(r) /\ Summary(r) = "success" /\ d \in Devices
      BY <1>1, <2>1 DEF IInv, Local, RunInv, PushTypeOK
    <2>3. out[r][d] # "none" /\ ~IsFailure(out[r][d])
      BY <2>2 DEF AllReported, Summary
    <2>4. Truthful(r, d, out[r][d])
      BY <1>1, <2>2, <2>3 DEF IInv, Local, ResultInv
    <2> QED BY <2>3, <2>4 DEF Truthful, IsFailure, Results, WentThrough
  <1> QED BY <1>1, InductiveInvariant, PTL

\* No goroutine outlives the conclusion of its run (automation.go, wg.Wait).
THEOREM ConcludedRunsAreQuiet == PushSpec => []ConcludedMeansQuiet
  <1>1. ASSUME IInv PROVE ConcludedMeansQuiet
    <2> SUFFICES ASSUME NEW r \in Runs, runStatus[r] \in Concluded, NEW d \in Devices,
                        worker[r][d] \in Busy
                 PROVE  FALSE
      BY DEF ConcludedMeansQuiet, BusyWorkers
    <2>1. AllReported(r) /\ WorkerInv(r, d) /\ ResultInv(r, d)
      BY <1>1 DEF IInv, Local, RunInv
    <2> QED BY <2>1 DEF AllReported, WorkerInv, ResultInv, Busy
  <1> QED BY <1>1, InductiveInvariant, PTL

\* Without a fault, every failed or rolled back push of a concluded run has its
\* row of audit (automation.go, recordHighPriorityRollbackScaffold).
THEOREM AuditIsComplete == PushSpec => []FailuresAreAudited
  <1>1. ASSUME IInv PROVE FailuresAreAudited
    <2> SUFFICES ASSUME NEW r \in Runs, runStatus[r] \in Concluded, faults = 0, NEW d \in Devices,
                        rows[r][d] \in Alarming
                 PROVE  d \in audited[r]
      BY DEF FailuresAreAudited, Alarming
    <2>1. alive[r] /\ ResultInv(r, d)
      BY <1>1 DEF IInv, Local, RunInv
    <2> QED BY <2>1 DEF ResultInv, Noted, Alarming
  <1> QED BY <1>1, InductiveInvariant, PTL

--------------------------------------------------------------------------------
(***************************************************************************)
(* The semaphore.                                                          *)
(***************************************************************************)

\* Goroutines that stop give their slots back.
LEMMA FewerWorkers ==
    ASSUME BoundedWorkers, \A r \in Runs : BusyWorkers(r)' \subseteq BusyWorkers(r)
    PROVE  BoundedWorkers'
  <1> SUFFICES ASSUME NEW r \in Runs PROVE Cardinality(BusyWorkers(r)') <= Capacity
    BY DEF BoundedWorkers
  <1>1. IsFiniteSet(BusyWorkers(r)) /\ BusyWorkers(r)' \subseteq BusyWorkers(r)
    BY DevicesAssumption, FS_Subset DEF BusyWorkers
  <1>2. /\ Cardinality(BusyWorkers(r)') <= Cardinality(BusyWorkers(r))
        /\ Cardinality(BusyWorkers(r)) \in Nat /\ Cardinality(BusyWorkers(r)') \in Nat
    BY <1>1, FS_Subset, FS_CardinalityType
  <1>3. Cardinality(BusyWorkers(r)) <= Capacity
    BY DEF BoundedWorkers
  <1> QED BY <1>2, <1>3, CapacityAssumption

LEMMA SpawnTakesASlot ==
    ASSUME PushTypeOK, BoundedWorkers, NEW r \in Runs, Spawn(r) PROVE BoundedWorkers'
  <1>1. PICK d \in Unspawned(r) : worker' = [worker EXCEPT ![r][d] = "render"]
    BY DEF Spawn
  <1>2. d \in Devices /\ worker \in [Runs -> [Devices -> Busy \cup {"none", "done"}]]
        /\ worker[r][d] \notin Busy /\ "render" \in Busy
    BY DEF Unspawned, PushTypeOK, Busy
  <1>3. /\ worker'[r][d] = "render" /\ \A e \in Devices : e # d => worker'[r][e] = worker[r][e]
        /\ \A q \in Runs : q # r => worker'[q] = worker[q]
    BY <1>1, <1>2, Update2
  <1>4. BusyWorkers(r)' = BusyWorkers(r) \cup {d} /\ d \notin BusyWorkers(r)
    BY <1>2, <1>3 DEF BusyWorkers
  <1>5. IsFiniteSet(BusyWorkers(r))
    BY DevicesAssumption, FS_Subset DEF BusyWorkers
  <1>6. Cardinality(BusyWorkers(r)') = Cardinality(BusyWorkers(r)) + 1
        /\ Cardinality(BusyWorkers(r)) \in Nat
    BY <1>4, <1>5, FS_AddElement, FS_CardinalityType
  <1>7. Cardinality(BusyWorkers(r)) < Capacity
    BY DEF Spawn, HasSlot
  <1>8. Cardinality(BusyWorkers(r)') <= Capacity
    BY <1>6, <1>7, CapacityAssumption
  <1>9. ASSUME NEW q \in Runs, q # r PROVE BusyWorkers(q)' = BusyWorkers(q)
    BY <1>3, <1>9 DEF BusyWorkers
  <1> QED BY <1>8, <1>9 DEF BoundedWorkers

LEMMA NextBounded == PushTypeOK /\ BoundedWorkers /\ [PushNext]_pushVars => BoundedWorkers'
  <1> SUFFICES ASSUME PushTypeOK, BoundedWorkers, [PushNext]_pushVars PROVE BoundedWorkers'
    OBVIOUS
  <1>1. CASE worker' = worker
    BY <1>1, FewerWorkers DEF BusyWorkers
  <1>2. ASSUME NEW r \in Runs, NEW d \in Devices, Work(r, d) PROVE BoundedWorkers'
    <2>1. worker[r][d] \in Busy
      BY <1>2 DEF Work, Render, PreFlightPasses, PreFlightFails, ExecutorSucceeds, ExecutorFails,
                  DeviceAnswers, PollFails, Audit, Report, Busy
    <2>2. \E step \in Busy \cup {"none", "done"} : worker' = [worker EXCEPT ![r][d] = step]
      BY <1>2 DEF Work, Render, PreFlightPasses, PreFlightFails, ExecutorSucceeds, ExecutorFails,
                  DeviceAnswers, PollFails, Audit, Report, Decide, WorkerGoto, Busy
    <2>3. worker \in [Runs -> [Devices -> Busy \cup {"none", "done"}]]
      BY DEF PushTypeOK
    <2>4. /\ \A e \in Devices : e # d => worker'[r][e] = worker[r][e]
          /\ \A q \in Runs : q # r => worker'[q] = worker[q]
      BY <2>2, <2>3, Update2
    <2>5. ASSUME NEW q \in Runs PROVE BusyWorkers(q)' \subseteq BusyWorkers(q)
      BY <2>1, <2>4 DEF BusyWorkers
    <2> QED BY <2>5, FewerWorkers
  <1>3. CASE Crash
    <2>1. worker' = [r \in Runs |->
                       [d \in Devices |-> IF worker[r][d] = "none" THEN "none" ELSE "done"]]
      BY <1>3 DEF Crash
    <2>2. ASSUME NEW r \in Runs PROVE BusyWorkers(r)' \subseteq BusyWorkers(r)
      BY <2>1 DEF BusyWorkers, Busy
    <2> QED BY <2>2, FewerWorkers
  <1>4. ASSUME NEW r \in Runs, Proceed(r) PROVE BoundedWorkers'
    <2>1. CASE Spawn(r)
      BY <2>1, SpawnTakesASlot
    <2>2. CASE ~Spawn(r)
      <3>1. worker' = worker
        BY <1>4, <2>2 DEF Proceed, ListTargets, InsertRun, InsertRunFails, WaitAll, StoreResult,
                          LoseResult, Conclude, ConcludeFails, goroutines
      <3> QED BY <3>1, <1>1
    <2> QED BY <2>1, <2>2
  <1>5. ASSUME MoveDevice \/ UNCHANGED pushVars \/ \E r \in Runs : ClientLeaves(r) PROVE BoundedWorkers'
    <2>1. worker' = worker
      BY <1>5 DEF MoveDevice, ClientLeaves, pushVars, goroutines
    <2> QED BY <2>1, <1>1
  <1> QED BY <1>2, <1>3, <1>4, <1>5 DEF PushNext

\* No run ever has more goroutines at work than the concurrency it was called with
\* (automation.go, the semaphore).
THEOREM ConcurrencyIsBounded == PushSpec => []BoundedWorkers
  <1>1. PushInit => BoundedWorkers
    <2> SUFFICES ASSUME PushInit, NEW r \in Runs PROVE Cardinality(BusyWorkers(r)) <= Capacity
      BY DEF BoundedWorkers
    <2>1. BusyWorkers(r) = {}
      BY DEF PushInit, Blank, BusyWorkers, Busy
    <2> QED BY <2>1, FS_EmptySet, CapacityAssumption
  <1> QED BY <1>1, NextBounded, TypeCorrect, PTL DEF PushSpec

================================================================================
