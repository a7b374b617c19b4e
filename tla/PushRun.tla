-------------------------------- MODULE PushRun --------------------------------
(***************************************************************************)
(* Push runs (internal/automation): Run renders a job for each device of a *)
(* group, tries the device, pushes, in safe mode looks whether the device  *)
(* is still there, all in goroutines bounded by a semaphore; then it       *)
(* stores the results and concludes the row of the run, statement by       *)
(* statement and under the context of a request that may go away.          *)
(***************************************************************************)
EXTENDS Naturals, FiniteSets

CONSTANTS Runs,       \* calls of Run
          Devices,    \* numbered in the order of their names
          Capacity,   \* the concurrency a caller asks for
          MaxMoves,   \* bound: devices entering or leaving the group
          MaxFaults   \* bound: statements that fail by themselves, and crashes

ASSUME DevicesAssumption == Devices \subseteq Nat /\ IsFiniteSet(Devices)
ASSUME CapacityAssumption == Capacity \in Nat \ {0}
ASSUME PushBounds == MaxMoves \in Nat /\ MaxFaults \in Nat

VARIABLES
    members,         \* devices of the job's group
    runStatus, rows, \* push_runs.status and push_results of each run
    audited,         \* of each run, the devices with a row in audit_log
    stage, alive,    \* of each run: its next step, and whether its context is
    targets, safe,   \* the devices it listed, and the job's safe mode
    worker, outcome, \* its goroutines, and what each is about to report
    out,             \* what was reported
    regrouped, faults,
    \* history variables
    pushed,          \* of each run, the devices on which the executor succeeded
    lost             \* of each run, the devices whose result was not stored

tables == <<members, runStatus, rows, audited>>
control == <<stage, alive, targets, safe>>
goroutines == <<worker, outcome, out>>
pushVars == <<tables, control, goroutines, regrouped, faults, pushed, lost>>

Results == {"applied", "failed", "render_error", "rolled_back"}
Concluded == {"success", "partial"}
Busy == {"render", "preflight", "execute", "poll", "audit", "report"}

Blank == [r \in Runs |-> [d \in Devices |-> "none"]]

PushInit ==
    /\ members \in SUBSET Devices
    /\ runStatus = [r \in Runs |-> "none"] /\ rows = Blank
    /\ audited = [r \in Runs |-> {}]
    /\ stage = [r \in Runs |-> "idle"] /\ alive = [r \in Runs |-> TRUE]
    /\ targets = [r \in Runs |-> {}]
    /\ safe \in [Runs -> BOOLEAN]
    /\ worker = Blank /\ outcome = Blank /\ out = Blank
    /\ regrouped = 0 /\ faults = 0
    /\ pushed = [r \in Runs |-> {}] /\ lost = [r \in Runs |-> {}]

--------------------------------------------------------------------------------
(***************************************************************************)
(* Run, outside of its goroutines.                                         *)
(***************************************************************************)

RunGoto(r, step) == stage' = [stage EXCEPT ![r] = step]

\* GetJob and the devices of its group as they are now.
ListTargets(r) ==
    /\ stage[r] = "idle"
    /\ targets' = [targets EXCEPT ![r] = members]
    /\ RunGoto(r, "begin")
    /\ UNCHANGED <<tables, alive, safe, goroutines, regrouped, faults, pushed, lost>>

InsertRun(r) ==
    /\ stage[r] = "begin"
    /\ alive[r]
    /\ runStatus' = [runStatus EXCEPT ![r] = "running"]
    /\ RunGoto(r, "spawn")
    /\ UNCHANGED <<members, rows, audited, alive, targets, safe, goroutines,
                   regrouped, faults, pushed, lost>>

\* Without a row, Run returns the error and pushes nothing.
InsertRunFails(r) ==
    /\ stage[r] = "begin"
    /\ ~alive[r]
    /\ RunGoto(r, "ended")
    /\ UNCHANGED <<tables, alive, targets, safe, goroutines, regrouped, faults, pushed, lost>>

\* Mutated form: a goroutine that returns early keeps its slot.
BusyWorkersLeaked(r) ==
    {d \in Devices : worker[r][d] \in Busy \/ (worker[r][d] = "done" /\ out[r][d] = "render_error")}

BusyWorkers(r) == {d \in Devices : worker[r][d] \in Busy}

HasSlot(r) == Cardinality(BusyWorkers(r)) < Capacity

Unspawned(r) == {d \in targets[r] : worker[r][d] = "none"}

\* The semaphore is taken before the goroutine of the next device is started,
\* whether or not the context is still alive.
Spawn(r) ==
    /\ stage[r] = "spawn"
    /\ HasSlot(r)
    /\ \E d \in Unspawned(r) :
          /\ \A other \in Unspawned(r) : d <= other
          /\ worker' = [worker EXCEPT ![r][d] = "render"]
    /\ UNCHANGED <<tables, control, outcome, out, regrouped, faults, pushed, lost>>

AllDone(r) == BusyWorkers(r) = {}

\* wg.Wait().
WaitAll(r) ==
    /\ stage[r] = "spawn"
    /\ Unspawned(r) = {}
    /\ AllDone(r)
    /\ RunGoto(r, "store")
    /\ UNCHANGED <<tables, alive, targets, safe, goroutines, regrouped, faults, pushed, lost>>

\* Mutated form: what was never sent has no row.
UnstoredSent(r) ==
    {d \in Devices : out[r][d] \notin {"none", "render_error"} /\ rows[r][d] = "none"} \ lost[r]

Unstored(r) == {d \in Devices : out[r][d] # "none" /\ rows[r][d] = "none"} \ lost[r]

\* A statement fails because the context ended, or by itself.
Refused(r) ==
    \/ ~alive[r] /\ UNCHANGED faults
    \/ alive[r] /\ faults < MaxFaults /\ faults' = faults + 1

\* INSERT INTO push_results, one result after the other.
StoreResult(r) ==
    /\ stage[r] = "store"
    /\ alive[r]
    /\ \E d \in Unstored(r) : rows' = [rows EXCEPT ![r][d] = out[r][d]]
    /\ UNCHANGED <<members, runStatus, audited, control, goroutines, regrouped, faults,
                   pushed, lost>>

\* The error is ignored.
LoseResult(r) ==
    /\ stage[r] = "store"
    /\ Refused(r)
    /\ \E d \in Unstored(r) : lost' = [lost EXCEPT ![r] = @ \cup {d}]
    /\ UNCHANGED <<tables, control, goroutines, regrouped, pushed>>

\* Mutated form: what could not be rendered does not count.
IsFailureOfDevice(result) == result = "failed"

IsFailure(result) == result \in {"failed", "render_error"}

Summary(r) == IF \E d \in Devices : IsFailure(out[r][d]) THEN "partial" ELSE "success"

\* UPDATE push_runs.
Conclude(r) ==
    /\ stage[r] = "store"
    /\ Unstored(r) = {}
    /\ alive[r]
    /\ runStatus' = [runStatus EXCEPT ![r] = Summary(r)]
    /\ RunGoto(r, "ended")
    /\ UNCHANGED <<members, rows, audited, alive, targets, safe, goroutines,
                   regrouped, faults, pushed, lost>>

ConcludeFails(r) ==
    /\ stage[r] = "store"
    /\ Unstored(r) = {}
    /\ Refused(r)
    /\ RunGoto(r, "ended")
    /\ UNCHANGED <<tables, alive, targets, safe, goroutines, regrouped, pushed, lost>>

--------------------------------------------------------------------------------
(***************************************************************************)
(* The goroutine of a device.                                              *)
(***************************************************************************)

WorkerGoto(r, d, step) ==
    /\ worker' = [worker EXCEPT ![r][d] = step]
    /\ UNCHANGED <<members, runStatus, rows, control, regrouped, lost>>

Decide(r, d, result, step) ==
    /\ outcome' = [outcome EXCEPT ![r][d] = result]
    /\ WorkerGoto(r, d, step)
    /\ UNCHANGED <<audited, out, faults>>

Render(r, d) ==
    /\ worker[r][d] = "render"
    /\ \/ Decide(r, d, "render_error", "report")
       \/ Decide(r, d, "none", "preflight")
    /\ UNCHANGED pushed

PreFlightPasses(r, d) ==
    /\ worker[r][d] = "preflight"
    /\ alive[r]
    /\ Decide(r, d, "none", "execute")
    /\ UNCHANGED pushed

PreFlightFails(r, d) ==
    /\ worker[r][d] = "preflight"
    /\ Decide(r, d, "failed", "audit")
    /\ UNCHANGED pushed

\* The executor is inside a session; it may get through although the context ends.
ExecutorSucceeds(r, d) ==
    /\ worker[r][d] = "execute"
    /\ Decide(r, d, "applied", IF safe[r] THEN "poll" ELSE "report")
    /\ pushed' = [pushed EXCEPT ![r] = @ \cup {d}]

ExecutorFails(r, d) ==
    /\ worker[r][d] = "execute"
    /\ Decide(r, d, "failed", "audit")
    /\ UNCHANGED pushed

DeviceAnswers(r, d) ==
    /\ worker[r][d] = "poll"
    /\ alive[r]
    /\ Decide(r, d, "applied", "report")
    /\ UNCHANGED pushed

\* The timeout passed, or the context ended: in either case the result says that
\* the push was rolled back.  Nothing is sent to the device.
PollFails(r, d) ==
    /\ worker[r][d] = "poll"
    /\ Decide(r, d, "rolled_back", "audit")
    /\ UNCHANGED pushed

\* recordHighPriorityRollbackScaffold and recordRollback; errors are ignored.
Audit(r, d) ==
    /\ worker[r][d] = "audit"
    /\ \/ alive[r] /\ audited' = [audited EXCEPT ![r] = @ \cup {d}] /\ UNCHANGED faults
       \/ Refused(r) /\ UNCHANGED audited
    /\ WorkerGoto(r, d, "report")
    /\ UNCHANGED <<outcome, out, pushed>>

\* The append under the mutex, and the deferred release of the slot.
Report(r, d) ==
    /\ worker[r][d] = "report"
    /\ out' = [out EXCEPT ![r][d] = outcome[r][d]]
    /\ WorkerGoto(r, d, "done")
    /\ UNCHANGED <<outcome, audited, faults, pushed>>

--------------------------------------------------------------------------------
(***************************************************************************)
(* The environment.                                                        *)
(***************************************************************************)

\* A device enters or leaves the group, or is deleted.
MoveDevice ==
    /\ regrouped < MaxMoves
    /\ regrouped' = regrouped + 1
    /\ \E d \in Devices :
          members' = IF d \in members THEN members \ {d} ELSE members \cup {d}
    /\ UNCHANGED <<runStatus, rows, audited, control, goroutines, faults, pushed, lost>>

\* The client of the request goes away.
ClientLeaves(r) ==
    /\ stage[r] # "ended"
    /\ alive[r]
    /\ alive' = [alive EXCEPT ![r] = FALSE]
    /\ UNCHANGED <<tables, stage, targets, safe, goroutines, regrouped, faults, pushed, lost>>

\* The process dies with all its runs.
Crash ==
    /\ faults < MaxFaults
    /\ faults' = faults + 1
    /\ \E r \in Runs : stage[r] \notin {"idle", "ended"}
    /\ stage' = [r \in Runs |-> IF stage[r] = "idle" THEN "idle" ELSE "ended"]
    /\ worker' = [r \in Runs |->
                     [d \in Devices |-> IF worker[r][d] = "none" THEN "none" ELSE "done"]]
    /\ UNCHANGED <<tables, alive, targets, safe, outcome, out, regrouped, pushed, lost>>

Proceed(r) ==
    \/ ListTargets(r) \/ InsertRun(r) \/ InsertRunFails(r) \/ Spawn(r) \/ WaitAll(r)
    \/ StoreResult(r) \/ LoseResult(r) \/ Conclude(r) \/ ConcludeFails(r)

Work(r, d) ==
    \/ Render(r, d) \/ PreFlightPasses(r, d) \/ PreFlightFails(r, d)
    \/ ExecutorSucceeds(r, d) \/ ExecutorFails(r, d)
    \/ DeviceAnswers(r, d) \/ PollFails(r, d) \/ Audit(r, d) \/ Report(r, d)

PushNext ==
    \/ \E r \in Runs : Proceed(r) \/ ClientLeaves(r) \/ \E d \in Devices : Work(r, d)
    \/ MoveDevice \/ Crash

PushSpec == PushInit /\ [][PushNext]_pushVars

\* Goroutines go on; the check before a push and the wait of safe mode have
\* timeouts.  The push itself need not come back: neither a command run through
\* exec nor the handshake before it minds the context (README, section 5).
PushFairness ==
    /\ \A r \in Runs : WF_pushVars(stage[r] # "idle" /\ Proceed(r))
    /\ \A r \in Runs, d \in Devices : WF_pushVars(worker[r][d] # "execute" /\ Work(r, d))

PushFairSpec == PushSpec /\ PushFairness

--------------------------------------------------------------------------------
(***************************************************************************)
(* Properties.                                                             *)
(***************************************************************************)

PushTypeOK ==
    /\ members \subseteq Devices
    /\ runStatus \in [Runs -> {"none", "running"} \cup Concluded]
    /\ rows \in [Runs -> [Devices -> Results \cup {"none"}]]
    /\ audited \in [Runs -> SUBSET Devices]
    /\ stage \in [Runs -> {"idle", "begin", "spawn", "store", "ended"}]
    /\ alive \in [Runs -> BOOLEAN]
    /\ targets \in [Runs -> SUBSET Devices]
    /\ safe \in [Runs -> BOOLEAN]
    /\ worker \in [Runs -> [Devices -> Busy \cup {"none", "done"}]]
    /\ outcome \in [Runs -> [Devices -> Results \cup {"none"}]]
    /\ out \in [Runs -> [Devices -> Results \cup {"none"}]]
    /\ regrouped \in 0 .. MaxMoves /\ faults \in 0 .. MaxFaults
    /\ pushed \in [Runs -> SUBSET Devices]
    /\ lost \in [Runs -> SUBSET Devices]

\* A run that was concluded has a row for each device it listed, but for those
\* whose INSERT failed by itself, and no other; each row tells whether the push
\* got through.  That a client left in the middle cannot leave a concluded run
\* with some of its rows rests on the order of the statements.
ResultsAreWhole ==
    \A r \in Runs : runStatus[r] \in Concluded =>
        /\ {d \in Devices : rows[r][d] # "none"} = targets[r] \ lost[r]
        /\ \A d \in targets[r] \ lost[r] :
              rows[r][d] \in {"applied", "rolled_back"} <=> d \in pushed[r]

\* "success" is said only where the push got through on every device, also on
\* those whose row was lost.
SuccessMeansPushed ==
    \A r \in Runs : runStatus[r] = "success" => targets[r] \subseteq pushed[r]

\* No goroutine of a concluded run is still at work on a device.
ConcludedMeansQuiet ==
    \A r \in Runs : runStatus[r] \in Concluded => BusyWorkers(r) = {}

\* A concluded run has an audit row for every failed or rolled back push, unless
\* a statement failed by itself: for the client was there to the end.
FailuresAreAudited ==
    \A r \in Runs : runStatus[r] \in Concluded /\ faults = 0 =>
        \A d \in Devices : rows[r][d] \in {"failed", "rolled_back"} => d \in audited[r]

\* The semaphore.
BoundedWorkers == \A r \in Runs : Cardinality(BusyWorkers(r)) <= Capacity

\* The executor comes back from every device of the run.
PushesReturn(r) == \A d \in Devices : []<>(worker[r][d] # "execute")

\* A run whose pushes return comes to its end, whatever goes wrong on the devices,
\* in the statements or with the client: no goroutine keeps its slot.
EveryRunEnds ==
    \A r \in Runs : PushesReturn(r) => (stage[r] # "idle" ~> stage[r] = "ended")

================================================================================
