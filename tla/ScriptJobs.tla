------------------------------ MODULE ScriptJobs ------------------------------
(***************************************************************************)
(* A batch script job: the handler writes the job and an execution for     *)
(* each server, then a goroutine of its own runs the executions in batches *)
(* and settles the job.  Statements whose error the goroutine ignores, and *)
(* the process dying under it, are the faults.  Jobs share nothing, so one *)
(* is modelled.  A simulated run cannot time out: the timeout is a whole   *)
(* number of seconds, above the 200 ms of a simulated execution.           *)
(***************************************************************************)
EXTENDS Integers, Sequences, FiniteSets

CONSTANTS
  Targets,      \* servers a request may name
  Widths,       \* concurrencies a request may ask for
  MaxFaults     \* bound on database statements that fail

ASSUME ScriptAssumption == IsFiniteSet(Targets) /\ Widths \subseteq Int /\ MaxFaults \in Nat

VARIABLES
  operable,     \* targets that exist and are neither retired nor scrapped
  remote,       \* SSH_OPERATIONS_MODE is ssh
  job,          \* the script_jobs row
  executions,   \* script_executions rows, in id order
  runner,       \* the handler, then its goroutine
  session,      \* goroutines of the batch: what each one will report
  outcome,      \* how the script of each execution really ended
  faults,       \* statements that failed so far
  lost          \* executions of which a write was lost

scriptVars == <<operable, remote, job, executions, runner, session, outcome, faults, lost>>

NoJob == [status |-> "none", servers |-> <<>>, concurrency |-> 0]
Resting == [pc |-> "idle", list |-> 0, from |-> 1, at |-> 1, failed |-> FALSE]

X_Concurrency(asked, n) == IF asked <= 0 THEN 5 ELSE asked

(* CreateJob's default, cap and refusal of the requested concurrency. *)
Concurrency(asked, n) ==
  LET width == IF asked <= 0 THEN 5 ELSE asked IN IF width > n THEN n ELSE width

(* validateScriptTargets: each server once, and able to run a script. *)
Accepted(ids) ==
  /\ ids # <<>> /\ \A i, j \in DOMAIN ids : ids[i] = ids[j] => i = j
  /\ \A i \in DOMAIN ids : ids[i] \in operable

Batch == {i \in runner.from..(runner.from + job.concurrency - 1) : i <= runner.list}
Goto(pc) == runner' = [runner EXCEPT !.pc = pc]
Faulty == faults < MaxFaults /\ faults' = faults + 1

ScriptInit ==
  /\ operable \in SUBSET Targets /\ remote \in BOOLEAN
  /\ job = NoJob /\ executions = <<>> /\ runner = Resting
  /\ session = [i \in {} |-> "none"] /\ outcome = [i \in {} |-> "none"] /\ faults = 0 /\ lost = {}

(* POST /ops/script-jobs, up to the row of the job. *)
CreateJob(ids, asked) ==
  /\ runner.pc = "idle" /\ job = NoJob
  /\ Accepted(ids) /\ asked <= 50
  /\ job' = [status |-> "running", servers |-> ids, concurrency |-> Concurrency(asked, Len(ids))]
  /\ Goto("insert")
  /\ UNCHANGED <<operable, remote, executions, session, outcome, faults, lost>>

(* One execution row after the other; an error ends the request with the *)
(* job left running and no goroutine for it.                             *)
InsertExecution ==
  /\ runner.pc = "insert" /\ Len(executions) < Len(job.servers)
  /\ \/ executions' = Append(executions, "pending") /\ UNCHANGED <<runner, faults>>
     \/ Faulty /\ Goto("abandoned") /\ UNCHANGED executions
  /\ UNCHANGED <<operable, remote, job, session, outcome, lost>>

(* go s.run: the job is read again. *)
StartRun ==
  /\ runner.pc = "insert" /\ Len(executions) = Len(job.servers)
  /\ \/ Goto("read") /\ UNCHANGED faults
     \/ Faulty /\ Goto("abandoned")
  /\ UNCHANGED <<operable, remote, job, executions, session, outcome, lost>>

(* The executions; the error of this query is dropped. *)
ReadExecutions ==
  /\ runner.pc = "read"
  /\ \/ runner' = [runner EXCEPT !.pc = "mark", !.list = Len(executions)] /\ UNCHANGED faults
     \/ Faulty /\ Goto("mark")
  /\ UNCHANGED <<operable, remote, job, executions, session, outcome, lost>>

(* A write to the row of execution i, whose error is dropped. *)
Write(i, status) ==
  \/ executions' = [executions EXCEPT ![i] = status] /\ UNCHANGED <<faults, lost>>
  \/ Faulty /\ lost' = lost \union {i} /\ UNCHANGED executions

MarkRunning ==
  /\ runner.pc = "mark" /\ runner.at \in Batch
  /\ Write(runner.at, "running")
  /\ runner' = [runner EXCEPT !.at = @ + 1]
  /\ UNCHANGED <<operable, remote, job, session, outcome>>

(* The batch is marked: one goroutine for each execution of it. *)
StartBatch ==
  /\ runner.pc = "mark" /\ Batch # {} /\ runner.at \notin Batch
  /\ session' = [i \in Batch |-> "none"]
  /\ Goto("wait")
  /\ UNCHANGED <<operable, remote, job, executions, outcome, faults, lost>>

(* A script ends on its server: an exit status, an error of the connection *)
(* or the timeout, which closes the connection.  Simulated ones succeed.   *)
RunSession(i) ==
  /\ runner.pc = "wait" /\ i \in DOMAIN session /\ session[i] = "none"
  /\ \E how \in IF remote THEN {"success", "failed"} ELSE {"success"} :
       /\ session' = [session EXCEPT ![i] = how]
       /\ outcome' = [n \in DOMAIN outcome \union {i} |-> IF n = i THEN how ELSE outcome[n]]
       /\ Write(i, how)
  /\ UNCHANGED <<operable, remote, job, runner>>

X_Joined == \A i \in DOMAIN session : session[i] = "success"

(* wg.Wait. *)
Joined == \A i \in DOMAIN session : session[i] # "none"

X_EndBatch ==
  /\ runner.pc = "wait" /\ Joined
  /\ runner' = [runner EXCEPT !.pc = "mark", !.from = @ + job.concurrency, !.at = runner.from + job.concurrency,
                              !.failed = \E i \in DOMAIN session : session[i] = "failed"]
  /\ session' = [i \in {} |-> "none"]
  /\ UNCHANGED <<operable, remote, job, executions, outcome, faults, lost>>

(* The next batch; a failure of any batch is remembered. *)
EndBatch ==
  /\ runner.pc = "wait" /\ Joined
  /\ runner' = [runner EXCEPT !.pc = "mark", !.from = @ + job.concurrency, !.at = runner.from + job.concurrency,
                              !.failed = @ \/ \E i \in DOMAIN session : session[i] = "failed"]
  /\ session' = [i \in {} |-> "none"]
  /\ UNCHANGED <<operable, remote, job, executions, outcome, faults, lost>>

FinishJob ==
  /\ runner.pc = "mark" /\ Batch = {}
  /\ \/ job' = [job EXCEPT !.status = IF runner.failed THEN "failed" ELSE "success"] /\ UNCHANGED faults
     \/ Faulty /\ UNCHANGED job
  /\ Goto("ended")
  /\ UNCHANGED <<operable, remote, executions, session, outcome, lost>>

(* The process stops; nothing resumes a job when it starts again. *)
CrashRun ==
  /\ runner.pc \in {"insert", "read", "mark", "wait"}
  /\ Goto("crashed") /\ session' = [i \in {} |-> "none"]
  /\ UNCHANGED <<operable, remote, job, executions, outcome, faults, lost>>

RunnerStep ==
  \/ InsertExecution \/ StartRun \/ ReadExecutions \/ MarkRunning \/ StartBatch \/ EndBatch \/ FinishJob

ScriptNext ==
  \/ \E n \in 1..Cardinality(Targets) : \E ids \in [1..n -> Targets], asked \in Widths : CreateJob(ids, asked)
  \/ RunnerStep
  \/ \E i \in DOMAIN session : RunSession(i)
  \/ CrashRun

(* The goroutine is scheduled, and every script ends: its connection is *)
(* closed when the timeout passes.                                      *)
ScriptFairness ==
  /\ WF_scriptVars(RunnerStep)
  /\ WF_scriptVars(\E i \in DOMAIN session : RunSession(i))

ScriptSpec == ScriptInit /\ [][ScriptNext]_scriptVars /\ ScriptFairness

ScriptTypeOK ==
  /\ operable \subseteq Targets /\ remote \in BOOLEAN /\ faults \in 0..MaxFaults
  /\ job.status \in {"none", "running", "success", "failed"}
  /\ job.concurrency \in 0..Cardinality(Targets) /\ Len(job.servers) <= Cardinality(Targets)
  /\ Len(executions) <= Len(job.servers)
  /\ \A i \in DOMAIN executions : executions[i] \in {"pending", "running", "success", "failed"}
  /\ runner.pc \in {"idle", "insert", "abandoned", "read", "mark", "wait", "ended", "crashed"}
  /\ DOMAIN session \subseteq DOMAIN executions /\ DOMAIN outcome \subseteq DOMAIN executions
  /\ lost \subseteq DOMAIN executions

(* A settled job tells what happened on its servers: it succeeded only if *)
(* every script succeeded and its row says so, and failed only if a       *)
(* script failed.  Statements of the goroutine that failed unnoticed are  *)
(* the one excuse (ScriptService.run, runSSHBatch).                       *)
JobOutcomeExplained ==
  /\ job.status = "success" =>
       \/ runner.list = 0 /\ faults > 0
       \/ \A i \in DOMAIN executions :
            i \in DOMAIN outcome /\ outcome[i] = "success" /\ (executions[i] = "success" \/ i \in lost)
  /\ job.status = "failed" =>
       /\ \E i \in DOMAIN outcome : outcome[i] = "failed"
       /\ \A i \in DOMAIN executions : executions[i] = outcome[i] \/ i \in lost

(* The goroutine of a job comes to its end, whatever statement of it is *)
(* lost, unless the process dies; and the job is settled then, unless a *)
(* statement was lost, which may have been the last write.              *)
ScriptJobEnds ==
  runner.pc = "read" ~>
    \/ runner.pc = "crashed"
    \/ runner.pc = "ended" /\ (job.status \in {"success", "failed"} \/ faults > 0)
===============================================================================
