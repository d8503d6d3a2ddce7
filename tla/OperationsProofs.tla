----------------------------- MODULE OperationsProofs --------------------------
(***************************************************************************)
(* Proofs about script jobs, terminal sessions and alerts, for any number  *)
(* of servers, goroutines, calls and lost statements, and the types of all *)
(* the services around deployment.                                         *)
(***************************************************************************)
EXTENDS MCOperations, AdministrationProofs

(*****************************************************************************)
(* Script jobs.                                                              *)
(*****************************************************************************)
Statuses == {"pending", "running", "success", "failed"}

ScriptShape ==
  /\ executions \in Seq(Statuses) /\ faults \in Nat
  /\ job \in [status : {"none", "running", "success", "failed"}, servers : Seq(Targets), concurrency : Nat]
  /\ runner \in [pc : {"idle", "insert", "abandoned", "read", "mark", "wait", "ended", "crashed"},
                 list : Nat, from : Nat, at : Nat, failed : BOOLEAN]
  /\ runner.from >= 1
  /\ job.status \in {"success", "failed"} => runner.pc = "ended"
  /\ runner.pc = "idle" <=> job.status = "none"
  /\ runner.pc # "idle" => job.concurrency > 0
  /\ runner.pc # "wait" => DOMAIN session = {}

(* The goroutine has the executions of the job, or the query was lost. *)
ListRead ==
  /\ runner.pc \in {"idle", "insert", "read"} =>
       runner.list = 0 /\ runner.from = 1 /\ runner.at = 1 /\ ~runner.failed /\ DOMAIN outcome = {}
  /\ runner.pc \in {"mark", "wait"} => runner.list = Len(executions) \/ (runner.list = 0 /\ faults > 0)

(* An execution whose script ended, with its row saying so. *)
Told(i) ==
  /\ i \in DOMAIN outcome /\ i \in DOMAIN executions /\ outcome[i] \in {"success", "failed"}
  /\ executions[i] = outcome[i] \/ i \in lost

(* The batches done are told, and the goroutine knows of their failures. *)
BatchesTold ==
  runner.pc \in {"mark", "wait"} =>
    /\ runner.at >= runner.from
    /\ \A i \in 1..runner.list : i < runner.from => Told(i)
    /\ \A i \in DOMAIN outcome : i \in Nat /\ (i < runner.from \/ (runner.pc = "wait" /\ i \in Batch))
    /\ runner.failed => runner.list > 0 /\ \E i \in DOMAIN outcome : outcome[i] = "failed"
    /\ ~runner.failed => \A i \in 1..runner.list : i < runner.from => outcome[i] = "success"

(* The batch under way. *)
BatchUnderWay ==
  runner.pc = "wait" =>
    /\ DOMAIN session = Batch /\ Batch # {}
    /\ \A i \in Batch : IF session[i] = "none" THEN i \notin DOMAIN outcome ELSE session[i] = outcome[i] /\ Told(i)

ScriptInv == ScriptShape /\ ListRead /\ BatchesTold /\ BatchUnderWay /\ JobOutcomeExplained

LEMMA ScriptInvInit == ScriptInit => ScriptInv
<1> SUFFICES ASSUME ScriptInit PROVE ScriptInv
  OBVIOUS
<1>1. ScriptShape /\ ListRead
  BY DEF ScriptInit, ScriptShape, ListRead, Resting, NoJob, Statuses
<1>2. BatchesTold /\ BatchUnderWay /\ JobOutcomeExplained
  BY DEF ScriptInit, BatchesTold, BatchUnderWay, JobOutcomeExplained, Resting, NoJob
<1> QED
  BY <1>1, <1>2 DEF ScriptInv

(* A job not settled explains nothing yet. *)
LEMMA Unsettled == ASSUME job.status \notin {"success", "failed"} PROVE JobOutcomeExplained
  BY DEF JobOutcomeExplained

LEMMA CreateJobKeeps ==
  ASSUME ScriptInv, NEW n \in Nat, NEW ids \in [1..n -> Targets], NEW asked \in Widths, CreateJob(ids, asked)
  PROVE ScriptInv'
<1>1. Concurrency(asked, Len(ids)) \in Nat \ {0}
  <2>1. ids # <<>> /\ ids \in Seq(Targets)
    BY DEF CreateJob, Accepted
  <2>2. Len(ids) \in Nat \ {0} /\ asked \in Int
    BY <2>1, ScriptAssumption
  <2> QED
    BY <2>2 DEF Concurrency
<1>2. /\ runner' \in [pc : {"insert"}, list : Nat, from : Nat, at : Nat, failed : BOOLEAN]
      /\ runner'.list = runner.list /\ runner'.from = runner.from /\ runner'.at = runner.at
      /\ runner'.failed = runner.failed /\ runner.pc = "idle"
  BY DEF CreateJob, Goto, ScriptInv, ScriptShape
<1>3. /\ job' \in [status : {"running"}, servers : Seq(Targets), concurrency : Nat]
      /\ job'.status = "running" /\ job'.concurrency > 0
  BY <1>1 DEF CreateJob
<1>4. UNCHANGED <<executions, session, outcome, faults, lost>>
  BY DEF CreateJob
<1>5. ScriptShape' /\ ListRead'
  BY <1>2, <1>3, <1>4 DEF ScriptInv, ScriptShape, ListRead
<1>6. BatchesTold' /\ BatchUnderWay'
  BY <1>2 DEF BatchesTold, BatchUnderWay
<1>7. JobOutcomeExplained'
  BY <1>3 DEF JobOutcomeExplained
<1> QED
  BY <1>5, <1>6, <1>7 DEF ScriptInv

(* Where the goroutine goes on without touching what the job tells. *)
LEMMA GotoKeeps ==
  ASSUME ScriptInv, NEW pc \in {"insert", "abandoned", "read", "crashed"}, Goto(pc), runner.pc \in {"insert", "read", "mark", "wait"},
         pc \in {"insert", "read"} => runner.pc = "insert", executions' \in Seq(Statuses), faults' \in Nat,
         DOMAIN session' = {}, UNCHANGED <<job, outcome, lost>>
  PROVE ScriptInv'
<1>1. /\ runner' \in [pc : {pc}, list : Nat, from : Nat, at : Nat, failed : BOOLEAN]
      /\ runner'.list = runner.list /\ runner'.from = runner.from /\ runner'.at = runner.at
      /\ runner'.failed = runner.failed
  BY DEF Goto, ScriptInv, ScriptShape
<1>2. ScriptShape' /\ ListRead'
  BY <1>1 DEF ScriptInv, ScriptShape, ListRead
<1>3. BatchesTold' /\ BatchUnderWay'
  BY <1>1 DEF BatchesTold, BatchUnderWay
<1>4. job'.status \notin {"success", "failed"}
  BY DEF ScriptInv, ScriptShape
<1>5. JobOutcomeExplained'
  BY <1>4 DEF JobOutcomeExplained
<1> QED
  BY <1>2, <1>3, <1>5 DEF ScriptInv

LEMMA EarlyKeeps ==
  ASSUME ScriptInv, InsertExecution \/ StartRun \/ CrashRun PROVE ScriptInv'
<1>1. /\ executions \in Seq(Statuses) /\ faults \in Nat /\ (runner.pc # "wait" => DOMAIN session = {})
      /\ runner \in [pc : {"idle", "insert", "abandoned", "read", "mark", "wait", "ended", "crashed"},
                     list : Nat, from : Nat, at : Nat, failed : BOOLEAN]
  BY DEF ScriptInv, ScriptShape
<1>2. CASE InsertExecution
  <2>1. CASE executions' = Append(executions, "pending") /\ UNCHANGED <<runner, faults>>
    <3>1. executions' \in Seq(Statuses)
      BY <1>1, <2>1 DEF Statuses
    <3>2. Goto("insert")
      BY <1>1, <1>2, <2>1 DEF Goto, InsertExecution
    <3> QED
      BY <1>1, <1>2, <2>1, <3>1, <3>2, GotoKeeps DEF InsertExecution
  <2>2. CASE Faulty /\ Goto("abandoned") /\ UNCHANGED executions
    BY <1>1, <1>2, <2>2, GotoKeeps DEF InsertExecution, Faulty
  <2> QED
    BY <1>2, <2>1, <2>2 DEF InsertExecution
<1>3. CASE StartRun
  BY <1>1, <1>3, GotoKeeps DEF StartRun, Faulty
<1>4. CASE CrashRun
  BY <1>1, <1>4, GotoKeeps DEF CrashRun
<1> QED
  BY <1>2, <1>3, <1>4

LEMMA ReadExecutionsKeeps ==
  ASSUME ScriptInv, ReadExecutions PROVE ScriptInv'
<1>1. /\ executions \in Seq(Statuses) /\ Len(executions) \in Nat /\ runner.pc = "read" /\ DOMAIN session = {}
      /\ runner.list = 0 /\ runner.from = 1 /\ runner.at = 1 /\ ~runner.failed /\ faults \in Nat
      /\ runner \in [pc : {"read"}, list : Nat, from : Nat, at : Nat, failed : BOOLEAN] /\ DOMAIN outcome = {}
      /\ UNCHANGED <<job, executions, session, outcome, lost>>
  BY DEF ScriptInv, ScriptShape, ListRead, ReadExecutions
<1>2. /\ runner' \in [pc : {"mark"}, list : Nat, from : Nat, at : Nat, failed : BOOLEAN]
      /\ runner'.from = 1 /\ runner'.at = 1 /\ runner'.failed = runner.failed /\ faults' \in Nat
      /\ runner'.list = Len(executions) \/ (runner'.list = 0 /\ faults' > 0)
  <2>1. CASE runner' = [runner EXCEPT !.pc = "mark", !.list = Len(executions)] /\ UNCHANGED faults
    BY <1>1, <2>1
  <2>2. CASE Faulty /\ Goto("mark")
    BY <1>1, <2>2 DEF Faulty, Goto
  <2> QED
    BY <2>1, <2>2 DEF ReadExecutions
<1>3. ScriptShape' /\ ListRead'
  BY <1>1, <1>2 DEF ScriptInv, ScriptShape, ListRead
<1>4. BatchesTold' /\ BatchUnderWay'
  BY <1>1, <1>2 DEF BatchesTold, BatchUnderWay
<1>5. JobOutcomeExplained'
  BY <1>1 DEF ScriptInv, ScriptShape, JobOutcomeExplained
<1> QED
  BY <1>3, <1>4, <1>5 DEF ScriptInv

(* A write to one row, which is taken or lost, leaves the others told. *)
LEMMA WriteTells ==
  ASSUME executions \in Seq(Statuses), NEW i \in DOMAIN executions, NEW status \in Statuses, faults \in Nat, Write(i, status)
  PROVE /\ executions' \in Seq(Statuses) /\ DOMAIN executions' = DOMAIN executions /\ Len(executions') = Len(executions)
        /\ faults' \in Nat /\ faults' >= faults /\ lost \subseteq lost'
        /\ executions'[i] = status \/ i \in lost'
        /\ \A j \in DOMAIN executions : j # i => executions'[j] = executions[j]
<1>1. CASE executions' = [executions EXCEPT ![i] = status] /\ UNCHANGED <<faults, lost>>
  BY <1>1
<1>2. CASE Faulty /\ lost' = lost \union {i} /\ UNCHANGED executions
  BY <1>2 DEF Faulty
<1> QED
  BY <1>1, <1>2 DEF Write

LEMMA MarkRunningKeeps ==
  ASSUME ScriptInv, MarkRunning PROVE ScriptInv'
<1> DEFINE i == runner.at
<1>1. /\ runner.pc = "mark" /\ i \in Batch /\ UNCHANGED <<job, session, outcome>> /\ Write(i, "running")
      /\ executions \in Seq(Statuses) /\ faults \in Nat /\ DOMAIN session = {} /\ job.status = "running"
      /\ runner \in [pc : {"mark"}, list : Nat, from : Nat, at : Nat, failed : BOOLEAN]
      /\ job.concurrency \in Nat
  BY DEF MarkRunning, ScriptInv, ScriptShape
<1>2. i >= runner.from /\ i <= runner.list /\ i \in Nat /\ runner.list = Len(executions) /\ i \in DOMAIN executions
  <2>1. i >= runner.from /\ i <= runner.list /\ i \in Nat
    BY <1>1 DEF Batch
  <2>2. runner.list = Len(executions)
    <3>1. i >= 1
      BY <1>1, <2>1 DEF ScriptInv, ScriptShape
    <3> QED
      BY <1>1, <2>1, <3>1 DEF ScriptInv, ListRead
  <2> QED
    BY <1>1, <2>1, <2>2 DEF ScriptInv, ScriptShape
<1>3. /\ runner' \in [pc : {"mark"}, list : Nat, from : Nat, at : Nat, failed : BOOLEAN]
      /\ runner'.list = runner.list /\ runner'.from = runner.from /\ runner'.at = i + 1 /\ runner'.failed = runner.failed
  BY <1>1 DEF MarkRunning
<1> HIDE DEF i
<1>4. /\ executions' \in Seq(Statuses) /\ DOMAIN executions' = DOMAIN executions /\ Len(executions') = Len(executions)
      /\ faults' \in Nat /\ faults' >= faults /\ lost \subseteq lost'
      /\ \A j \in DOMAIN executions : j # i => executions'[j] = executions[j]
  BY <1>1, <1>2, WriteTells DEF Statuses
<1>5. ScriptShape' /\ ListRead'
  BY <1>1, <1>2, <1>3, <1>4 DEF ScriptInv, ScriptShape, ListRead
<1>6. BatchesTold' /\ BatchUnderWay'
  BY <1>1, <1>2, <1>3, <1>4 DEF ScriptInv, BatchesTold, BatchUnderWay, Told
<1>7. JobOutcomeExplained'
  BY <1>1 DEF JobOutcomeExplained
<1> QED
  BY <1>5, <1>6, <1>7 DEF ScriptInv

LEMMA StartBatchKeeps ==
  ASSUME ScriptInv, StartBatch PROVE ScriptInv'
<1>1. /\ runner.pc = "mark" /\ Batch # {} /\ UNCHANGED <<job, executions, outcome, faults, lost>>
      /\ job.status = "running" /\ session' = [i \in Batch |-> "none"]
  BY DEF StartBatch, ScriptInv, ScriptShape
<1>2. /\ runner' \in [pc : {"wait"}, list : Nat, from : Nat, at : Nat, failed : BOOLEAN]
      /\ runner'.list = runner.list /\ runner'.from = runner.from /\ runner'.at = runner.at
      /\ runner'.failed = runner.failed
  BY DEF StartBatch, Goto, ScriptInv, ScriptShape
<1>3. Batch' = Batch
  BY <1>1, <1>2 DEF Batch
<1>4. ScriptShape' /\ ListRead'
  BY <1>1, <1>2 DEF ScriptInv, ScriptShape, ListRead
<1>5. BatchesTold'
  BY <1>1, <1>2, <1>3 DEF ScriptInv, BatchesTold, Told
<1>6. BatchUnderWay'
  <2>1. \A i \in Batch : i \notin DOMAIN outcome
    BY <1>1 DEF Batch, ScriptInv, ScriptShape, BatchesTold
  <2> QED
    BY <1>1, <1>3, <2>1 DEF BatchUnderWay
<1>7. JobOutcomeExplained'
  BY <1>1 DEF JobOutcomeExplained
<1> QED
  BY <1>4, <1>5, <1>6, <1>7 DEF ScriptInv

LEMMA RunSessionKeeps ==
  ASSUME ScriptInv, NEW i \in DOMAIN session, RunSession(i) PROVE ScriptInv'
<1>1. /\ runner.pc = "wait" /\ DOMAIN session = Batch /\ i \in Batch /\ UNCHANGED <<job, runner>>
      /\ executions \in Seq(Statuses) /\ faults \in Nat /\ job.status = "running"
      /\ runner \in [pc : {"wait"}, list : Nat, from : Nat, at : Nat, failed : BOOLEAN]
      /\ job.concurrency \in Nat /\ session[i] = "none"
  BY DEF RunSession, ScriptInv, ScriptShape, BatchUnderWay
<1>2. PICK how \in {"success", "failed"} :
        /\ session' = [session EXCEPT ![i] = how]
        /\ outcome' = [n \in DOMAIN outcome \union {i} |-> IF n = i THEN how ELSE outcome[n]]
        /\ Write(i, how)
  BY DEF RunSession
<1>3. i >= runner.from /\ i <= runner.list /\ i \in Nat /\ i >= 1
  BY <1>1 DEF Batch, ScriptInv, ScriptShape
<1>4. runner.list = Len(executions) /\ i \in DOMAIN executions
  BY <1>1, <1>3 DEF ScriptInv, ListRead
<1>5. /\ executions' \in Seq(Statuses) /\ DOMAIN executions' = DOMAIN executions /\ Len(executions') = Len(executions)
      /\ faults' \in Nat /\ faults' >= faults /\ lost \subseteq lost'
      /\ executions'[i] = how \/ i \in lost'
      /\ \A j \in DOMAIN executions : j # i => executions'[j] = executions[j]
  BY <1>1, <1>2, <1>4, WriteTells DEF Statuses
<1>6. /\ DOMAIN outcome \subseteq DOMAIN outcome' /\ i \in DOMAIN outcome' /\ outcome'[i] = how
      /\ \A j \in DOMAIN outcome : j # i => outcome'[j] = outcome[j]
      /\ DOMAIN session' = Batch /\ session'[i] = how /\ \A j \in Batch : j # i => session'[j] = session[j]
  BY <1>1, <1>2
<1>7. Batch' = Batch
  BY <1>1 DEF Batch
<1>8. /\ Told(i)'
      /\ \A j \in DOMAIN executions : j # i /\ Told(j) => Told(j)'
  BY <1>4, <1>5, <1>6 DEF Told
<1>9. ScriptShape' /\ ListRead'
  BY <1>1, <1>4, <1>5, <1>6 DEF ScriptInv, ScriptShape, ListRead
<1>10. BatchUnderWay'
  <2>1. ASSUME NEW j \in Batch
        PROVE IF session'[j] = "none" THEN j \notin DOMAIN outcome' ELSE session'[j] = outcome'[j] /\ Told(j)'
    <3>1. CASE j = i
      BY <1>2, <1>6, <1>8, <3>1
    <3>2. CASE j # i /\ session[j] = "none"
      <4>1. j \notin DOMAIN outcome
        BY <1>1, <3>2 DEF ScriptInv, BatchUnderWay
      <4> QED
        BY <1>2, <1>6, <3>2, <4>1
    <3>3. CASE j # i /\ session[j] # "none"
      <4>1. session[j] = outcome[j] /\ Told(j)
        BY <1>1, <3>3 DEF ScriptInv, BatchUnderWay
      <4>2. j \in DOMAIN executions /\ j \in DOMAIN outcome
        BY <4>1 DEF Told
      <4> QED
        BY <1>6, <1>8, <3>3, <4>1, <4>2
    <3> QED
      BY <3>1, <3>2, <3>3
  <2> QED
    BY <1>1, <1>6, <1>7, <2>1 DEF BatchUnderWay, Told
<1>11. BatchesTold'
  <2>1. /\ runner.at >= runner.from
        /\ \A j \in 1..runner.list : j < runner.from => Told(j)
        /\ \A j \in DOMAIN outcome : j \in Nat /\ (j < runner.from \/ j \in Batch)
        /\ runner.failed => runner.list > 0 /\ \E j \in DOMAIN outcome : outcome[j] = "failed"
        /\ ~runner.failed => \A j \in 1..runner.list : j < runner.from => outcome[j] = "success"
    BY <1>1 DEF ScriptInv, BatchesTold
  <2>2. \A j \in 1..runner.list : j < runner.from => Told(j)' /\ outcome'[j] = outcome[j]
    BY <1>1, <1>3, <1>6, <1>8, <2>1 DEF Told
  <2>3. runner.failed => \E j \in DOMAIN outcome' : outcome'[j] = "failed"
    <3> SUFFICES ASSUME runner.failed PROVE \E j \in DOMAIN outcome' : outcome'[j] = "failed"
      OBVIOUS
    <3>1. PICK j \in DOMAIN outcome : outcome[j] = "failed"
      BY <2>1
    <3>2. i \notin DOMAIN outcome
      BY <1>1 DEF ScriptInv, BatchUnderWay
    <3> QED
      BY <1>6, <3>1, <3>2
  <2>4. \A j \in DOMAIN outcome' : j \in Nat /\ (j < runner.from \/ j \in Batch)
    BY <1>1, <1>2, <1>3, <2>1
  <2> QED
    BY <1>1, <1>7, <2>1, <2>2, <2>3, <2>4 DEF BatchesTold, Told
<1>12. JobOutcomeExplained'
  BY <1>1 DEF JobOutcomeExplained
<1> QED
  BY <1>9, <1>10, <1>11, <1>12 DEF ScriptInv

LEMMA EndBatchKeeps ==
  ASSUME ScriptInv, EndBatch PROVE ScriptInv'
<1>1. /\ runner.pc = "wait" /\ DOMAIN session = Batch /\ UNCHANGED <<job, executions, outcome, faults, lost>>
      /\ job.status = "running" /\ job.concurrency \in Nat /\ job.concurrency > 0
      /\ runner \in [pc : {"wait"}, list : Nat, from : Nat, at : Nat, failed : BOOLEAN]
      /\ DOMAIN session' = {}
  BY DEF EndBatch, ScriptInv, ScriptShape, BatchUnderWay
<1>2. /\ runner' \in [pc : {"mark"}, list : Nat, from : Nat, at : Nat, failed : BOOLEAN]
      /\ runner'.list = runner.list /\ runner'.from = runner.from + job.concurrency /\ runner'.at = runner'.from
      /\ runner'.failed = (runner.failed \/ \E i \in Batch : session[i] = "failed")
  <2> DEFINE known == runner.failed \/ \E i \in DOMAIN session : session[i] = "failed"
  <2>1. known \in BOOLEAN /\ known = (runner.failed \/ \E i \in Batch : session[i] = "failed")
    BY <1>1
  <2>2. runner' = [runner EXCEPT !.pc = "mark", !.from = @ + job.concurrency, !.at = runner.from + job.concurrency,
                                 !.failed = known]
    BY DEF EndBatch
  <2> HIDE DEF known
  <2>3. /\ runner' \in [pc : {"mark"}, list : Nat, from : Nat, at : Nat, failed : BOOLEAN]
        /\ runner'.list = runner.list /\ runner'.from = runner.from + job.concurrency
        /\ runner'.at = runner'.from /\ runner'.failed = known
    <3> DEFINE from == runner.from + job.concurrency
               marked == [runner EXCEPT !.pc = "mark"]
               moved == [marked EXCEPT !.from = from]
               placed == [moved EXCEPT !.at = from]
    <3>1. from \in Nat
      BY <1>1
    <3>2. runner' = [placed EXCEPT !.failed = known]
      BY <2>2
    <3> HIDE DEF from
    <3>3. /\ marked \in [pc : {"mark"}, list : Nat, from : Nat, at : Nat, failed : BOOLEAN]
          /\ marked.list = runner.list
      BY <1>1
    <3> HIDE DEF marked
    <3>4. /\ moved \in [pc : {"mark"}, list : Nat, from : Nat, at : Nat, failed : BOOLEAN]
          /\ moved.list = runner.list /\ moved.from = from
      BY <3>1, <3>3
    <3> HIDE DEF moved
    <3>5. /\ placed \in [pc : {"mark"}, list : Nat, from : Nat, at : Nat, failed : BOOLEAN]
          /\ placed.list = runner.list /\ placed.from = from /\ placed.at = from
      BY <3>1, <3>4
    <3> HIDE DEF placed
    <3> QED
      BY <2>1, <3>2, <3>5 DEF from
  <2> QED
    BY <2>1, <2>3
<1>3. \A i \in Batch : Told(i) /\ session[i] = outcome[i]
  BY <1>1 DEF ScriptInv, BatchUnderWay, EndBatch, Joined
<1>4. \A i \in 1..runner.list : i < runner'.from => i < runner.from \/ i \in Batch
  BY <1>1, <1>2 DEF Batch
<1>5. ScriptShape' /\ ListRead'
  BY <1>1, <1>2 DEF ScriptInv, ScriptShape, ListRead
<1>6. \A i \in 1..runner.list : i < runner'.from => Told(i)
  BY <1>1, <1>3, <1>4 DEF ScriptInv, BatchesTold
<1>7. runner'.failed => runner.list > 0 /\ \E i \in DOMAIN outcome : outcome[i] = "failed"
  <2>1. \A i \in Batch : runner.list > 0
    BY <1>1 DEF Batch, ScriptInv, ScriptShape
  <2> QED
    BY <1>1, <1>2, <1>3, <2>1 DEF ScriptInv, BatchesTold, Told
<1>8. ~runner'.failed => \A i \in 1..runner.list : i < runner'.from => outcome[i] = "success"
  BY <1>1, <1>2, <1>3, <1>4 DEF ScriptInv, BatchesTold, Told
<1>9. \A i \in DOMAIN outcome : i \in Nat /\ i < runner'.from
  <2>1. \A i \in Batch : i < runner'.from
    BY <1>1, <1>2 DEF Batch
  <2> QED
    BY <1>1, <1>2, <2>1 DEF ScriptInv, BatchesTold
<1>11. BatchesTold'
  BY <1>1, <1>2, <1>6, <1>7, <1>8, <1>9 DEF BatchesTold, Told
<1>10. BatchUnderWay' /\ JobOutcomeExplained'
  BY <1>1, <1>2 DEF BatchUnderWay, JobOutcomeExplained
<1> QED
  BY <1>5, <1>10, <1>11 DEF ScriptInv

(* Every batch is done: the failures the goroutine knows of are all there are. *)
LEMMA FinishJobKeeps ==
  ASSUME ScriptInv, FinishJob PROVE ScriptInv'
<1>1. /\ runner.pc = "mark" /\ Batch = {} /\ UNCHANGED <<executions, session, outcome, lost>>
      /\ job.status = "running" /\ job.concurrency \in Nat /\ job.concurrency > 0 /\ faults \in Nat
      /\ runner \in [pc : {"mark"}, list : Nat, from : Nat, at : Nat, failed : BOOLEAN]
      /\ executions \in Seq(Statuses) /\ DOMAIN session = {} /\ runner.from >= 1
  BY DEF FinishJob, ScriptInv, ScriptShape
<1>2. /\ runner' \in [pc : {"ended"}, list : Nat, from : Nat, at : Nat, failed : BOOLEAN]
      /\ runner'.list = runner.list /\ runner'.from = runner.from
  BY <1>1 DEF FinishJob, Goto
<1>3. /\ job' \in [status : {"running", "success", "failed"}, servers : Seq(Targets), concurrency : Nat]
      /\ job'.status = "running" \/ (faults' = faults /\ job'.status = IF runner.failed THEN "failed" ELSE "success")
      /\ job'.concurrency = job.concurrency /\ faults' \in Nat
  BY <1>1 DEF FinishJob, Faulty, ScriptInv, ScriptShape
<1>4. ScriptShape' /\ ListRead'
  BY <1>1, <1>2, <1>3 DEF ScriptInv, ScriptShape, ListRead
<1>5. BatchesTold' /\ BatchUnderWay'
  BY <1>2 DEF BatchesTold, BatchUnderWay
<1>6. \A i \in 1..runner.list : i < runner.from
  <2>1. runner.from \notin Batch
    BY <1>1
  <2>2. runner.from > runner.list
    BY <1>1, <2>1 DEF Batch
  <2> QED
    BY <1>1, <2>2
<1>7. \A i \in 1..runner.list : Told(i)
  BY <1>1, <1>6 DEF ScriptInv, BatchesTold
<1>8. ASSUME job'.status = "running" PROVE JobOutcomeExplained'
  BY <1>8 DEF JobOutcomeExplained
<1>9. ASSUME faults' = faults, ~runner.failed, job'.status = "success" PROVE JobOutcomeExplained'
  <2>1. \A i \in 1..runner.list : outcome[i] = "success"
    BY <1>1, <1>6, <1>9 DEF ScriptInv, BatchesTold
  <2>2. CASE runner.list = 0 /\ faults > 0
    BY <1>2, <1>9, <2>2 DEF JobOutcomeExplained
  <2>3. CASE runner.list = Len(executions)
    BY <1>1, <1>2, <1>7, <1>9, <2>1, <2>3 DEF JobOutcomeExplained, Told
  <2> QED
    BY <1>1, <2>2, <2>3 DEF ScriptInv, ListRead
<1>10. ASSUME faults' = faults, runner.failed, job'.status = "failed" PROVE JobOutcomeExplained'
  <2>1. \E i \in DOMAIN outcome : outcome[i] = "failed"
    BY <1>1, <1>10 DEF ScriptInv, BatchesTold
  <2>2. runner.list = Len(executions)
    BY <1>1, <1>10 DEF ScriptInv, ListRead, BatchesTold
  <2> QED
    BY <1>1, <1>2, <1>7, <1>10, <2>1, <2>2 DEF JobOutcomeExplained, Told
<1> QED
  BY <1>3, <1>4, <1>5, <1>8, <1>9, <1>10 DEF ScriptInv

LEMMA ScriptInvStep == ScriptInv /\ [ScriptNext]_scriptVars => ScriptInv'
<1> SUFFICES ASSUME ScriptInv, [ScriptNext]_scriptVars PROVE ScriptInv'
  OBVIOUS
<1>1. CASE ScriptNext
  <2>1. ASSUME NEW n \in 1..Cardinality(Targets), NEW ids \in [1..n -> Targets], NEW asked \in Widths, CreateJob(ids, asked)
        PROVE ScriptInv'
    BY <2>1, CreateJobKeeps
  <2> QED
    BY <1>1, <2>1, EarlyKeeps, ReadExecutionsKeeps, MarkRunningKeeps, StartBatchKeeps, RunSessionKeeps, EndBatchKeeps,
       FinishJobKeeps DEF ScriptNext, RunnerStep
<1>2. CASE UNCHANGED scriptVars
  BY <1>2 DEF scriptVars, ScriptInv, ScriptShape, ListRead, BatchesTold, BatchUnderWay,
     JobOutcomeExplained, Told, Batch
<1> QED
  BY <1>1, <1>2

(* For any servers, concurrency and faults, a settled job tells what *)
(* happened on its servers (ScriptService.run, runSSHBatch).         *)
THEOREM OutcomeExplained == ScriptSpec => []JobOutcomeExplained
<1>1. ScriptInv => JobOutcomeExplained
  BY DEF ScriptInv
<1> QED
  BY <1>1, ScriptInvInit, ScriptInvStep, PTL DEF ScriptSpec

(*****************************************************************************)
(* Terminal sessions.                                                        *)
(*****************************************************************************)
CallNumbers == 0 .. MaxCalls

LEMMA CallNumbersAre == MaxCalls \in Nat /\ 0 \in CallNumbers /\ CallNumbers \subseteq Nat
  BY TerminalAssumption DEF CallNumbers

(* The entries a transcript must hold: no copy that lacks them is held. *)
Settled(s) == entries[s] \ contended[s]

SessionRows == [status : {"active", "closed"}, transcript : SUBSET CallNumbers]
Dues == UNION {[D -> SUBSET CallNumbers] : D \in SUBSET Sessions}
CallRecords == [pc : {"idle", "command", "close", "expiry"}, call : CallNumbers, session : Sessions \union {0},
                copy : SUBSET CallNumbers, due : Dues]

TermShape ==
  /\ DOMAIN sessions \subseteq Sessions /\ sessions \in [DOMAIN sessions -> SessionRows]
  /\ expired \subseteq DOMAIN sessions /\ calls \in CallNumbers
  /\ caller \in [Callers -> CallRecords]
  /\ entries \in [Sessions -> SUBSET CallNumbers] /\ contended \in [Sessions -> SUBSET CallNumbers]
  /\ \A s \in Sessions : contended[s] \subseteq entries[s]

(* Where a call is, it names sessions there are. *)
CallsPlaced ==
  \A h \in Callers :
    /\ caller[h].pc \in {"command", "close"} => caller[h].session \in DOMAIN sessions
    /\ DOMAIN caller[h].due \subseteq DOMAIN sessions
    /\ caller[h].pc # "expiry" => DOMAIN caller[h].due = {}

(* The copy of a row a call will write back is no older than what is settled. *)
CopiesHold ==
  \A h \in Callers :
    /\ caller[h].pc \in {"command", "close"} => Settled(caller[h].session) \subseteq caller[h].copy
    /\ \A s \in DOMAIN caller[h].due : Settled(s) \subseteq caller[h].due[s]

NothingEarly == \A s \in Sessions \ DOMAIN sessions : entries[s] = {}

TermInv == TermShape /\ CallsPlaced /\ CopiesHold /\ NothingEarly /\ EntriesKept

LEMMA DuesOf == ASSUME NEW D \in SUBSET Sessions, NEW due \in [D -> SUBSET CallNumbers] PROVE due \in Dues
  BY DEF Dues

LEMMA DuesAre ==
  ASSUME NEW due \in Dues
  PROVE DOMAIN due \subseteq Sessions /\ due \in [DOMAIN due -> SUBSET CallNumbers]
  BY DEF Dues

(* The session CloseExpired takes next is one of those it has left. *)
LEMMA LeastOf == ASSUME NEW T \in SUBSET Nat, T # {} PROVE \E x \in T : \A y \in T : x <= y
<1> DEFINE R == {pair \in Nat \X Nat : pair[1] < pair[2]}
<1>1. IsWellFoundedOn(R, Nat)
  BY NatLessThanWellFounded DEF OpToRel
<1>2. PICK x \in T : \A y \in T : ~(<<y, x>> \in R)
  <2> HIDE DEF R
  <2> QED
    BY <1>1, WFMin
<1>3. \A y \in T : ~(y < x)
  BY <1>2
<1> QED
  BY <1>3

(* A caller at rest holds nothing. *)
LEMMA AtRest == Waiting \in CallRecords /\ Waiting.pc = "idle" /\ DOMAIN Waiting.due = {}
<1>1. [s \in {} |-> {}] \in Dues
  <2>1. [s \in {} |-> {}] \in [{} -> SUBSET CallNumbers]
    OBVIOUS
  <2> QED
    BY <2>1, DuesOf
<1> QED
  BY <1>1, CallNumbersAre DEF Waiting, CallRecords

LEMMA TermInvInit == TermInit => TermInv
<1> SUFFICES ASSUME TermInit PROVE TermInv
  OBVIOUS
<1>1. \A h \in Callers : caller[h] \in CallRecords /\ caller[h].pc = "idle" /\ DOMAIN caller[h].due = {}
  BY AtRest DEF TermInit
<1>2. DOMAIN sessions = {}
  BY DEF TermInit
<1>3. TermShape
  BY <1>1, <1>2, CallNumbersAre DEF TermInit, TermShape
<1>4. CallsPlaced /\ CopiesHold
  BY <1>1 DEF CallsPlaced, CopiesHold
<1>5. NothingEarly /\ EntriesKept
  BY <1>2 DEF NothingEarly, EntriesKept, TermInit
<1> QED
  BY <1>3, <1>4, <1>5 DEF TermInv

(* Reading rows, all that a call does at first. *)
LEMMA ReadingKeeps ==
  ASSUME TermInv, NEW h \in Callers, NEW record \in CallRecords,
         caller' = [caller EXCEPT ![h] = record], calls' \in CallNumbers,
         record.pc \in {"command", "close"} =>
           record.session \in DOMAIN sessions /\ record.copy = sessions[record.session].transcript,
         DOMAIN record.due \subseteq DOMAIN sessions,
         record.pc # "expiry" => DOMAIN record.due = {},
         \A s \in DOMAIN record.due : Settled(s) \subseteq record.due[s],
         UNCHANGED <<sessions, expired, entries, contended>>
  PROVE TermInv'
<1>1. \A g \in Callers : caller'[g] = IF g = h THEN record ELSE caller[g]
  BY DEF TermInv, TermShape
<1>2. TermShape'
  BY DEF TermInv, TermShape
<1>3. CallsPlaced'
  BY <1>1 DEF TermInv, CallsPlaced
<1>4. CopiesHold'
  BY <1>1 DEF TermInv, CopiesHold, EntriesKept, Settled
<1>5. NothingEarly' /\ EntriesKept'
  BY DEF TermInv, NothingEarly, EntriesKept
<1> QED
  BY <1>2, <1>3, <1>4, <1>5 DEF TermInv

LEMMA CallKeeps ==
  ASSUME TermInv, NEW h \in Callers, NEW s \in DOMAIN sessions, NEW pc \in {"command", "close"}, Call(h, pc, s)
  PROVE TermInv'
<1> DEFINE record == [pc |-> pc, call |-> calls + 1, session |-> s,
                      copy |-> sessions[s].transcript, due |-> Waiting.due]
<1>1. /\ caller[h] \in CallRecords /\ sessions[s] \in SessionRows /\ s \in Sessions /\ calls \in CallNumbers
      /\ calls + 1 \in CallNumbers
  BY CallNumbersAre DEF TermInv, TermShape, Call, CallNumbers
<1>2. /\ caller' = [caller EXCEPT ![h] = record] /\ calls' \in CallNumbers
      /\ UNCHANGED <<sessions, expired, entries, contended>>
  BY <1>1 DEF Call
<1>3. sessions[s].transcript \in SUBSET CallNumbers /\ Waiting.due \in Dues
  BY <1>1, AtRest DEF SessionRows, CallRecords
<1>4. record \in CallRecords
  BY <1>1, <1>3 DEF CallRecords
<1>5. /\ record.pc = pc /\ record.session = s /\ DOMAIN record.due = {}
      /\ record.copy = sessions[s].transcript
  BY AtRest
<1> HIDE DEF record
<1> QED
  BY <1>2, <1>4, <1>5, ReadingKeeps

LEMMA StartExpiryKeeps ==
  ASSUME TermInv, NEW h \in Callers, StartExpiry(h) PROVE TermInv'
<1> DEFINE dues == {s \in expired : sessions[s].status = "active"}
           copies == [s \in dues |-> sessions[s].transcript]
           record == [pc |-> "expiry", call |-> calls + 1, session |-> 0, copy |-> {}, due |-> copies]
<1>1. /\ caller[h] \in CallRecords /\ dues \subseteq DOMAIN sessions /\ dues \subseteq Sessions
      /\ calls \in CallNumbers /\ calls + 1 \in CallNumbers
  BY CallNumbersAre DEF TermInv, TermShape, StartExpiry, CallNumbers
<1>2. copies \in Dues /\ DOMAIN copies = dues
  <2>1. \A s \in DOMAIN sessions : sessions[s].transcript \subseteq CallNumbers
    BY DEF TermInv, TermShape, SessionRows
  <2>2. copies \in [dues -> SUBSET CallNumbers]
    BY <1>1, <2>1
  <2> QED
    BY <1>1, <2>2, DuesOf
<1>3. \A s \in dues : copies[s] = sessions[s].transcript /\ Settled(s) \subseteq copies[s]
  BY <1>1 DEF TermInv, EntriesKept, Settled
<1>4. caller' = [caller EXCEPT ![h] = record] /\ calls' \in CallNumbers
  BY <1>1 DEF StartExpiry
<1>5. UNCHANGED <<sessions, expired, entries, contended>>
  BY DEF StartExpiry
<1> HIDE DEF dues, copies
<1>6. record \in CallRecords /\ record.pc = "expiry" /\ record.due = copies
  BY <1>1, <1>2 DEF CallRecords
<1> HIDE DEF record
<1> QED
  BY <1>1, <1>2, <1>3, <1>4, <1>5, <1>6, ReadingKeeps

(* Writing a row: whoever holds a copy of it makes the entry contended, so *)
(* what is settled of it does not grow under him.                          *)
LEMMA WritingKeeps ==
  ASSUME TermInv, NEW h \in Callers, NEW s \in DOMAIN sessions, NEW row \in SessionRows, NEW copy \in SUBSET CallNumbers,
         Settled(s) \subseteq copy, row.transcript = Appended(copy, caller[h].call), Store(h, s, row),
         NEW record \in CallRecords, caller' = [caller EXCEPT ![h] = record],
         record.pc \in {"idle", "expiry"}, record.pc = "idle" => DOMAIN record.due = {},
         DOMAIN record.due \subseteq DOMAIN caller[h].due \ {s},
         \A t \in DOMAIN record.due : record.due[t] = caller[h].due[t],
         UNCHANGED <<expired, calls>>
  PROVE TermInv'
<1>1. s \in Sessions /\ caller[h] \in CallRecords /\ caller[h].call \in CallNumbers
  BY DEF TermInv, TermShape, CallRecords
<1>2. \A g \in Callers : caller'[g] = IF g = h THEN record ELSE caller[g]
  BY DEF TermInv, TermShape
<1>3. /\ DOMAIN sessions' = DOMAIN sessions
      /\ \A t \in DOMAIN sessions : sessions'[t] = IF t = s THEN row ELSE sessions[t]
      /\ \A t \in Sessions : entries'[t] = IF t = s THEN entries[t] \union {caller[h].call} ELSE entries[t]
      /\ \A t \in Sessions : t # s => contended'[t] = contended[t]
      /\ contended[s] \subseteq contended'[s]
      /\ Holders(h, s) # {} => caller[h].call \in contended'[s]
  BY <1>1 DEF Store, TermInv, TermShape
<1>4. TermShape'
  <2>1. sessions' \in [DOMAIN sessions' -> SessionRows]
    BY DEF Store, TermInv, TermShape
  <2>2. entries' \in [Sessions -> SUBSET CallNumbers] /\ contended' \in [Sessions -> SUBSET CallNumbers]
    BY <1>1 DEF Store, TermInv, TermShape
  <2>3. \A t \in Sessions : contended'[t] \subseteq entries'[t]
    <3>1. contended' = [contended EXCEPT ![s] = IF Holders(h, s) = {} THEN @ ELSE @ \union {caller[h].call}]
      BY DEF Store
    <3>2. contended'[s] \subseteq contended[s] \union {caller[h].call}
      BY <1>1, <3>1 DEF TermInv, TermShape
    <3> QED
      BY <1>1, <1>3, <3>2 DEF TermInv, TermShape
  <2> QED
    BY <1>3, <2>1, <2>2, <2>3 DEF TermInv, TermShape
<1>5. CallsPlaced'
  BY <1>2, <1>3 DEF TermInv, CallsPlaced
<1>6. \A t \in Sessions : t # s => Settled(t)' = Settled(t)
  BY <1>3 DEF Settled
<1>7. ASSUME NEW g \in Callers \ {h}, caller[g].pc # "idle", caller[g].session = s \/ s \in DOMAIN caller[g].due
      PROVE Settled(s)' \subseteq Settled(s)
  <2>1. caller[h].call \in contended'[s]
    BY <1>3, <1>7 DEF Holders
  <2> QED
    BY <1>1, <1>3, <2>1 DEF Settled
<1>10. ASSUME NEW g \in Callers, caller'[g].pc \in {"command", "close"}
       PROVE \A t \in Sessions : t = caller'[g].session => Settled(t)' \subseteq caller'[g].copy
  <2>1. g # h /\ caller'[g] = caller[g] /\ caller[g].pc \in {"command", "close"}
    BY <1>2, <1>10
  <2>2. Settled(caller[g].session) \subseteq caller[g].copy
    BY <2>1 DEF TermInv, CopiesHold
  <2> QED
    BY <1>6, <1>7, <2>1, <2>2
<1>11. ASSUME NEW g \in Callers, NEW t \in DOMAIN caller'[g].due
       PROVE Settled(t)' \subseteq caller'[g].due[t]
  <2>1. CASE g = h
    <3>1. t # s /\ t \in Sessions /\ Settled(t) \subseteq caller[h].due[t] /\ caller'[g].due[t] = caller[h].due[t]
      BY <1>2, <1>11, <2>1 DEF TermInv, TermShape, CallsPlaced, CopiesHold
    <3> QED
      BY <1>6, <3>1
  <2>2. CASE g # h
    <3>1. caller'[g] = caller[g] /\ t \in Sessions /\ Settled(t) \subseteq caller[g].due[t] /\ caller[g].pc # "idle"
      BY <1>2, <1>11, <2>2 DEF TermInv, TermShape, CallsPlaced, CopiesHold
    <3>2. t = s => Settled(s)' \subseteq Settled(s)
      BY <1>7, <1>11, <2>2, <3>1
    <3> QED
      BY <1>6, <3>1, <3>2
  <2> QED
    BY <2>1, <2>2
<1>12. CopiesHold'
  <2>1. \A g \in Callers : caller'[g].pc \in {"command", "close"} => caller'[g].session \in Sessions
    BY <1>4, <1>5 DEF TermShape, CallsPlaced
  <2> QED
    BY <1>10, <1>11, <2>1 DEF CopiesHold, Settled
<1>8. NothingEarly'
  BY <1>3 DEF TermInv, NothingEarly
<1>9. EntriesKept'
  BY <1>1, <1>3, <1>6 DEF TermInv, TermShape, EntriesKept, Settled, Appended
<1> QED
  BY <1>4, <1>5, <1>8, <1>9, <1>12 DEF TermInv

LEMMA EndCommandKeeps ==
  ASSUME TermInv, NEW h \in Callers, EndCommand(h) PROVE TermInv'
<1> DEFINE s == caller[h].session
           row == [sessions[s] EXCEPT !.transcript = Appended(caller[h].copy, caller[h].call)]
<1>1. s \in DOMAIN sessions /\ Settled(s) \subseteq caller[h].copy /\ caller[h] \in CallRecords /\ sessions[s] \in SessionRows
  BY DEF EndCommand, TermInv, TermShape, CallsPlaced, CopiesHold
<1>2. caller[h].copy \in SUBSET CallNumbers /\ caller[h].call \in CallNumbers
  BY <1>1 DEF CallRecords
<1>3. row \in SessionRows /\ row.transcript = Appended(caller[h].copy, caller[h].call)
  BY <1>1, <1>2 DEF SessionRows, Appended
<1>4. Store(h, s, row) /\ caller' = [caller EXCEPT ![h] = Waiting] /\ UNCHANGED <<expired, calls>>
  BY DEF EndCommand, Rest
<1> HIDE DEF s, row
<1> QED
  BY <1>1, <1>2, <1>3, <1>4, AtRest, WritingKeeps

LEMMA EndCloseKeeps ==
  ASSUME TermInv, NEW h \in Callers, EndClose(h) PROVE TermInv'
<1> DEFINE s == caller[h].session
           row == [status |-> "closed", transcript |-> Appended(caller[h].copy, caller[h].call)]
<1>1. s \in DOMAIN sessions /\ Settled(s) \subseteq caller[h].copy /\ caller[h] \in CallRecords
  BY DEF EndClose, TermInv, TermShape, CallsPlaced, CopiesHold
<1>2. caller[h].copy \in SUBSET CallNumbers /\ caller[h].call \in CallNumbers
  BY <1>1 DEF CallRecords
<1>3. row \in SessionRows /\ row.transcript = Appended(caller[h].copy, caller[h].call)
  BY <1>2 DEF SessionRows, Appended
<1>4. Store(h, s, row) /\ caller' = [caller EXCEPT ![h] = Waiting] /\ UNCHANGED <<expired, calls>>
  BY DEF EndClose, Rest
<1> HIDE DEF s, row
<1> QED
  BY <1>1, <1>2, <1>3, <1>4, AtRest, WritingKeeps

LEMMA ExpireNextKeeps ==
  ASSUME TermInv, NEW h \in Callers, ExpireNext(h) PROVE TermInv'
<1> DEFINE due == caller[h].due
           s == CHOOSE i \in DOMAIN due : \A j \in DOMAIN due : i <= j
           row == [status |-> "closed", transcript |-> Appended(due[s], caller[h].call)]
           left == [t \in DOMAIN due \ {s} |-> due[t]]
           record == [caller[h] EXCEPT !.due = left]
<1>1. caller[h] \in CallRecords /\ due \in Dues
  BY DEF TermInv, TermShape, CallRecords
<1>2. DOMAIN due \subseteq Sessions /\ due \in [DOMAIN due -> SUBSET CallNumbers]
  BY <1>1, DuesAre
<1>3. s \in DOMAIN due
  <2>1. \E i \in DOMAIN due : \A j \in DOMAIN due : i <= j
    BY <1>2, LeastOf, TerminalAssumption DEF ExpireNext
  <2> QED
    BY <2>1
<1>4. s \in DOMAIN sessions /\ Settled(s) \subseteq due[s] /\ due[s] \in SUBSET CallNumbers /\ caller[h].call \in CallNumbers
  BY <1>1, <1>2, <1>3 DEF TermInv, CallsPlaced, CopiesHold, CallRecords
<1>5. left \in Dues /\ DOMAIN left = DOMAIN due \ {s} /\ \A t \in DOMAIN left : left[t] = due[t]
  <2>1. left \in [DOMAIN due \ {s} -> SUBSET CallNumbers]
    BY <1>2
  <2> QED
    BY <1>2, <2>1, DuesOf
<1>6. caller[h].pc = "expiry" /\ caller' = [caller EXCEPT ![h] = record] /\ UNCHANGED <<expired, calls>>
  BY DEF ExpireNext
<1>7. \/ Store(h, s, row)
      \/ UNCHANGED <<sessions, entries, contended>>
  BY DEF ExpireNext
<1>8. row \in SessionRows /\ row.transcript = Appended(due[s], caller[h].call)
  BY <1>4 DEF SessionRows, Appended
<1> HIDE DEF s, row, left
<1>9. record \in CallRecords /\ record.pc = "expiry" /\ record.due = left
  BY <1>1, <1>5, <1>6 DEF CallRecords
<1> HIDE DEF record
<1>10. CASE Store(h, s, row)
  BY <1>4, <1>5, <1>6, <1>8, <1>9, <1>10, WritingKeeps
<1>11. CASE UNCHANGED <<sessions, entries, contended>>
  <2>1. calls' \in CallNumbers
    BY <1>6 DEF TermInv, TermShape
  <2>2. DOMAIN left \subseteq DOMAIN sessions /\ \A t \in DOMAIN left : Settled(t) \subseteq left[t]
    BY <1>5 DEF TermInv, CallsPlaced, CopiesHold
  <2> QED
    BY <1>6, <1>9, <1>11, <2>1, <2>2, ReadingKeeps
<1> QED
  BY <1>7, <1>10, <1>11

LEMMA EndExpiryKeeps ==
  ASSUME TermInv, NEW h \in Callers, EndExpiry(h) PROVE TermInv'
<1>1. caller' = [caller EXCEPT ![h] = Waiting] /\ calls' \in CallNumbers /\ UNCHANGED <<sessions, expired, entries, contended>>
  BY DEF EndExpiry, Rest, TermInv, TermShape
<1> QED
  BY <1>1, AtRest, ReadingKeeps

LEMMA OpenSessionKeeps ==
  ASSUME TermInv, NEW s \in Sessions, OpenSession(s) PROVE TermInv'
<1> DEFINE row == [status |-> "active", transcript |-> {0}]
<1>1. row \in SessionRows
  BY CallNumbersAre DEF SessionRows
<1>2. /\ DOMAIN sessions' = DOMAIN sessions \union {s}
      /\ \A t \in DOMAIN sessions : sessions'[t] = sessions[t]
      /\ sessions'[s] = row
      /\ s \notin DOMAIN sessions /\ UNCHANGED <<expired, caller, calls, entries, contended>>
  BY DEF OpenSession
<1>3. sessions' \in [DOMAIN sessions' -> SessionRows]
  BY <1>1 DEF OpenSession, TermInv, TermShape
<1>4. TermShape'
  BY <1>2, <1>3 DEF TermInv, TermShape
<1>5. CallsPlaced' /\ CopiesHold'
  BY <1>2 DEF TermInv, CallsPlaced, CopiesHold, Settled
<1>6. NothingEarly' /\ EntriesKept'
  BY <1>2 DEF TermInv, NothingEarly, EntriesKept
<1> QED
  BY <1>4, <1>5, <1>6 DEF TermInv

LEMMA PassTTLKeeps ==
  ASSUME TermInv, NEW s \in DOMAIN sessions, PassTTL(s) PROVE TermInv'
  BY DEF PassTTL, TermInv, TermShape, CallsPlaced, CopiesHold, NothingEarly, EntriesKept, Settled

LEMMA TermInvStep == TermInv /\ [TermNext]_termVars => TermInv'
<1> SUFFICES ASSUME TermInv, [TermNext]_termVars PROVE TermInv'
  OBVIOUS
<1>1. CASE TermNext
  <2>1. ASSUME NEW h \in Callers, NEW s \in DOMAIN sessions, StartCommand(h, s) \/ StartClose(h, s) PROVE TermInv'
    BY <2>1, CallKeeps DEF StartCommand, StartClose
  <2> QED
    BY <1>1, <2>1, OpenSessionKeeps, PassTTLKeeps, StartExpiryKeeps, EndCommandKeeps, EndCloseKeeps,
       ExpireNextKeeps, EndExpiryKeeps DEF TermNext
<1>2. CASE UNCHANGED termVars
  BY <1>2 DEF termVars, TermInv, TermShape, CallsPlaced, CopiesHold, NothingEarly, EntriesKept, Settled
<1> QED
  BY <1>1, <1>2

(* A row that is written keeps "closed" or becomes it. *)
LEMMA ClosedStep ==
  ASSUME TermInv, [TermNext]_termVars, NEW s \in DOMAIN sessions, sessions[s].status = "closed"
  PROVE sessions'[s].status = "closed"
<1> USE DEF TermInv, TermShape
<1>1. sessions[s] \in SessionRows
  OBVIOUS
<1>2. ASSUME NEW t \in Sessions, OpenSession(t) PROVE sessions'[s].status = "closed"
  BY <1>2 DEF OpenSession
<1>3. ASSUME NEW h \in Callers, EndCommand(h) PROVE sessions'[s].status = "closed"
  <2>1. CASE s = caller[h].session
    BY <1>1, <1>3, <2>1 DEF EndCommand, Store, SessionRows
  <2>2. CASE s # caller[h].session
    BY <1>3, <2>2 DEF EndCommand, Store
  <2> QED
    BY <2>1, <2>2
<1>4. ASSUME NEW h \in Callers, EndClose(h) PROVE sessions'[s].status = "closed"
  <2>1. CASE s = caller[h].session
    BY <1>4, <2>1 DEF EndClose, Store
  <2>2. CASE s # caller[h].session
    BY <1>4, <2>2 DEF EndClose, Store
  <2> QED
    BY <2>1, <2>2
<1>5. ASSUME NEW h \in Callers, ExpireNext(h) PROVE sessions'[s].status = "closed"
  BY <1>5 DEF ExpireNext, Store
<1>6. CASE sessions' = sessions
  BY <1>6
<1> QED
  BY <1>2, <1>3, <1>4, <1>5, <1>6 DEF TermNext, termVars, StartCommand, StartClose, Call, StartExpiry, EndExpiry, PassTTL

(* The transcript keeps every entry that no held copy could overwrite. *)
THEOREM TranscriptKept == TermSpec => []EntriesKept
<1>1. TermInv => EntriesKept
  BY DEF TermInv
<1> QED
  BY <1>1, TermInvInit, TermInvStep, PTL DEF TermSpec

(* A session stays closed, whatever was running when it was closed. *)
THEOREM SessionsStayClosed == TermSpec => ClosedStaysClosed
<1>1. TermInv /\ [TermNext]_termVars =>
        [\A s \in DOMAIN sessions : sessions[s].status = "closed" => sessions'[s].status = "closed"]_termVars
  BY ClosedStep
<1> QED
  BY <1>1, TermInvInit, TermInvStep, PTL DEF TermSpec, ClosedStaysClosed

(*****************************************************************************)
(* Alerts.                                                                   *)
(*****************************************************************************)
AlertRows == [server : Hosts, rule : Rules, status : {"firing", "acknowledged", "resolved"}]
SampleRows == [server : Hosts, value : Values, old : BOOLEAN]
JobRows == [server : Hosts, status : {"running", "success", "failed"}, pc : {"collect", "store", "prune", "ended"}]
Visits == [pc : {"idle", "rule", "lookup", "create", "ack", "resolve"}, rules : SUBSET Rules,
           rule : Rules \union {"none"}, servers : SUBSET Hosts, server : Hosts \union {"none"}, alert : Nat]

AlertShape ==
  /\ alerts \in Seq(AlertRows) /\ samples \in Seq(SampleRows) /\ collection \in Seq(JobRows)
  /\ visit \in [Evaluators -> Visits]

(* What a request is about, by the step it is at. *)
VisitsPlaced ==
  \A h \in Evaluators :
    /\ visit[h].pc \in {"lookup", "create"} => visit[h].rule \in Rules
    /\ visit[h].pc = "create" => visit[h].server \in Hosts
    /\ visit[h].pc \in {"ack", "resolve"} => visit[h].alert \in DOMAIN alerts

(* Whoever is about to open an alert still has none before him. *)
NoneFound ==
  \A h \in Evaluators : visit[h].pc = "create" =>
    \/ <<visit[h].server, visit[h].rule>> \in doubled
    \/ OpenFor(visit[h].server, visit[h].rule) = {}

AtMostOne ==
  \A s \in Hosts, r \in Rules : <<s, r>> \in doubled \/ \A a, b \in OpenFor(s, r) : a = b

AlertInv == AlertShape /\ VisitsPlaced /\ NoneFound /\ AtMostOne

(* A set whose members are all one has one at most. *)
LEMMA OneMember == ASSUME NEW S, \A a, b \in S : a = b PROVE Cardinality(S) <= 1
<1>1. CASE S = {}
  BY <1>1, FS_EmptySet
<1>2. CASE S # {}
  <2>1. PICK a \in S : S = {a}
    BY <1>2
  <2> QED
    BY <2>1, FS_Singleton
<1> QED
  BY <1>1, <1>2

LEMMA IntervalSize == ASSUME NEW n \in Nat PROVE IsFiniteSet(1..n) /\ Cardinality(1..n) = n
  BY FS_Interval

LEMMA AlertInvInit == AlertInit => AlertInv
<1> SUFFICES ASSUME AlertInit PROVE AlertInv
  OBVIOUS
<1>1. NoVisit \in Visits /\ NoVisit.pc = "idle"
  BY DEF NoVisit, Visits
<1>2. AlertShape /\ VisitsPlaced /\ NoneFound
  BY <1>1 DEF AlertInit, AlertShape, VisitsPlaced, NoneFound
<1>3. AtMostOne
  BY DEF AlertInit, AtMostOne, OpenFor, Unresolved
<1> QED
  BY <1>2, <1>3 DEF AlertInv

(* A request that goes a step and leaves the alerts alone. *)
LEMMA VisitKeeps ==
  ASSUME AlertInv, NEW h \in Evaluators, NEW request \in Visits, visit' = [visit EXCEPT ![h] = request],
         request.pc \in {"lookup", "create"} => request.rule \in Rules,
         request.pc = "create" => request.server \in Hosts /\ OpenFor(request.server, request.rule) = {},
         request.pc \in {"ack", "resolve"} => request.alert \in DOMAIN alerts,
         UNCHANGED <<collection, samples, alerts, doubled>>
  PROVE AlertInv'
<1>1. \A g \in Evaluators : visit'[g] = IF g = h THEN request ELSE visit[g]
  BY DEF AlertInv, AlertShape
<1>2. AlertShape'
  BY DEF AlertInv, AlertShape
<1>3. VisitsPlaced' /\ NoneFound' /\ AtMostOne'
  BY <1>1 DEF AlertInv, VisitsPlaced, NoneFound, AtMostOne, OpenFor, Unresolved
<1> QED
  BY <1>2, <1>3 DEF AlertInv

(* Collections and rules have no part in it, as long as samples are rows. *)
LEMMA ElsewhereKeeps ==
  ASSUME AlertInv, samples' \in Seq(SampleRows), collection' \in Seq(JobRows), UNCHANGED <<alerts, visit, doubled>>
  PROVE AlertInv'
  BY DEF AlertInv, AlertShape, VisitsPlaced, NoneFound, AtMostOne, OpenFor, Unresolved

LEMMA CollectionKeeps ==
  ASSUME AlertInv, NEW j \in DOMAIN collection, CollectionStep(j) PROVE AlertInv'
<1>1. samples \in Seq(SampleRows) /\ collection \in Seq(JobRows) /\ collection[j] \in JobRows
  BY DEF AlertInv, AlertShape
<1>2. ASSUME Collect(j) PROVE AlertInv'
  <2>1. [collection[j] EXCEPT !.pc = "store"] \in JobRows
    BY <1>1 DEF JobRows
  <2>2. [[collection[j] EXCEPT !.pc = "ended"] EXCEPT !.status = "failed"] \in JobRows
    BY <1>1 DEF JobRows
  <2>3. collection' \in Seq(JobRows)
    <3>1. CASE collection' = [collection EXCEPT ![j].pc = "store"]
      BY <1>1, <2>1, <3>1
    <3>2. CASE collection' = [collection EXCEPT ![j].pc = "ended", ![j].status = "failed"]
      <4>1. collection' = [collection EXCEPT ![j] = [[collection[j] EXCEPT !.pc = "ended"] EXCEPT !.status = "failed"]]
        BY <1>1, <3>2
      <4> QED
        BY <1>1, <2>2, <4>1
    <3> QED
      BY <1>2, <3>1, <3>2 DEF Collect
  <2> QED
    BY <1>1, <1>2, <2>3, ElsewhereKeeps DEF Collect
<1>3. ASSUME StoreSamples(j) PROVE AlertInv'
  <2>1. collection' \in Seq(JobRows)
    BY <1>1, <1>3 DEF StoreSamples, JobRows
  <2>2. ASSUME NEW v \in Values
        PROVE <<[server |-> collection[j].server, value |-> v, old |-> FALSE]>> \o samples \in Seq(SampleRows)
    <3>1. [server |-> collection[j].server, value |-> v, old |-> FALSE] \in SampleRows
      BY <1>1 DEF JobRows, SampleRows
    <3> QED
      BY <1>1, <3>1
  <2>3. samples' \in Seq(SampleRows)
    BY <1>1, <1>3, <2>2 DEF StoreSamples
  <2> QED
    BY <1>3, <2>1, <2>3, ElsewhereKeeps DEF StoreSamples
<1>4. ASSUME SettleCollection(j) PROVE AlertInv'
  <2>1. collection' \in Seq(JobRows)
    BY <1>1, <1>4 DEF SettleCollection, JobRows
  <2>2. Cardinality(Recent) \in 0..Len(samples)
    <3>1. IsFiniteSet(1..Len(samples)) /\ Cardinality(1..Len(samples)) = Len(samples) /\ Len(samples) \in Nat
      <4>1. Len(samples) \in Nat
        BY <1>1
      <4> QED
        BY <4>1, IntervalSize
    <3>2. Recent \subseteq 1..Len(samples)
      BY <1>1 DEF Recent
    <3>3. IsFiniteSet(Recent) /\ Cardinality(Recent) <= Len(samples)
      BY <3>1, <3>2, FS_Subset
    <3> QED
      BY <3>1, <3>3, FS_CardinalityType
  <2>3. SubSeq(samples, 1, Cardinality(Recent)) \in Seq(SampleRows)
    BY <1>1, <2>2
  <2> QED
    BY <1>4, <2>1, <2>3, ElsewhereKeeps DEF SettleCollection
<1> QED
  BY <1>2, <1>3, <1>4 DEF CollectionStep

LEMMA AlertReadingKeeps ==
  ASSUME AlertInv,
         \/ \E s \in Hosts : StartCollection(s)
         \/ PassRetention
         \/ \E r \in Rules, status \in {"enabled", "disabled"} : UpdateAlertRule(r, status)
  PROVE AlertInv'
<1>1. samples \in Seq(SampleRows) /\ collection \in Seq(JobRows)
  BY DEF AlertInv, AlertShape
<1>2. ASSUME NEW s \in Hosts, StartCollection(s) PROVE AlertInv'
  <2>1. collection' \in Seq(JobRows)
    BY <1>1, <1>2 DEF StartCollection, JobRows
  <2> QED
    BY <1>1, <1>2, <2>1, ElsewhereKeeps DEF StartCollection
<1>3. ASSUME PassRetention PROVE AlertInv'
  <2>1. ASSUME NEW i \in DOMAIN samples PROVE [samples[i] EXCEPT !.old = TRUE] \in SampleRows
    <3>1. samples[i] \in SampleRows
      BY <1>1
    <3> QED
      BY <3>1 DEF SampleRows
  <2>2. samples' \in Seq(SampleRows)
    BY <1>1, <1>3, <2>1 DEF PassRetention
  <2> QED
    BY <1>1, <1>3, <2>2, ElsewhereKeeps DEF PassRetention
<1>4. ASSUME NEW r \in Rules, NEW status \in {"enabled", "disabled"}, UpdateAlertRule(r, status) PROVE AlertInv'
  BY <1>1, <1>4, ElsewhereKeeps DEF UpdateAlertRule
<1> QED
  BY <1>2, <1>3, <1>4

LEMMA EvaluationKeeps ==
  ASSUME AlertInv, NEW h \in Evaluators, StartEvaluation(h) \/ TakeRule(h) \/ LookUp(h) \/ EndEvaluation(h)
  PROVE AlertInv'
<1>1. visit[h] \in Visits /\ visit \in [Evaluators -> Visits] /\ NoVisit \in Visits
  BY DEF AlertInv, AlertShape, NoVisit, Visits
<1>2. ASSUME StartEvaluation(h) PROVE AlertInv'
  <2> DEFINE request == [NoVisit EXCEPT !.pc = "rule", !.rules = {r \in Rules : rules[r].status = "enabled"}]
  <2>1. request \in Visits /\ request.pc = "rule"
    BY DEF NoVisit, Visits
  <2> QED
    BY <1>2, <2>1, VisitKeeps DEF StartEvaluation, Enter
<1>3. ASSUME TakeRule(h) PROVE AlertInv'
  <2>1. PICK r \in visit[h].rules :
          visit' = [visit EXCEPT ![h].pc = "lookup", ![h].rule = r, ![h].rules = @ \ {r}, ![h].servers = Breaching(r)]
    BY <1>3 DEF TakeRule
  <2>2. Breaching(r) \subseteq Hosts
    <3>1. ASSUME NEW i \in Recent PROVE samples[i].server \in Hosts
      <4>1. samples[i] \in SampleRows
        BY DEF Recent, AlertInv, AlertShape
      <4> QED
        BY <4>1 DEF SampleRows
    <3> QED
      BY <3>1 DEF Breaching
  <2>3. /\ visit' = [visit EXCEPT ![h] = visit'[h]]
        /\ visit'[h] \in Visits /\ visit'[h].pc = "lookup" /\ visit'[h].rule \in Rules
    BY <1>1, <2>1, <2>2 DEF Visits
  <2> QED
    BY <1>3, <2>3, VisitKeeps DEF TakeRule
<1>4. ASSUME LookUp(h) PROVE AlertInv'
  <2>1. PICK s \in visit[h].servers :
          visit' = IF Existing(s, visit[h].rule) # {}
                   THEN [visit EXCEPT ![h].servers = @ \ {s}]
                   ELSE [visit EXCEPT ![h].pc = "create", ![h].server = s, ![h].servers = @ \ {s}]
    BY <1>4 DEF LookUp
  <2>2. s \in Hosts /\ visit[h].rule \in Rules /\ visit[h].pc = "lookup"
    BY <1>1, <1>4 DEF Visits, LookUp, AlertInv, VisitsPlaced
  <2>3. CASE Existing(s, visit[h].rule) # {}
    <3>1. /\ visit' = [visit EXCEPT ![h] = visit'[h]]
          /\ visit'[h] \in Visits /\ visit'[h].pc = "lookup" /\ visit'[h].rule = visit[h].rule
      BY <1>1, <2>1, <2>2, <2>3 DEF Visits
    <3> QED
      BY <1>4, <2>2, <3>1, VisitKeeps DEF LookUp
  <2>4. CASE Existing(s, visit[h].rule) = {}
    <3>1. /\ visit' = [visit EXCEPT ![h] = visit'[h]]
          /\ visit'[h] \in Visits /\ visit'[h].pc = "create" /\ visit'[h].rule = visit[h].rule /\ visit'[h].server = s
      BY <1>1, <2>1, <2>2, <2>4 DEF Visits
    <3> QED
      BY <1>4, <2>2, <2>4, <3>1, VisitKeeps DEF LookUp, Existing
  <2> QED
    BY <2>3, <2>4
<1>5. ASSUME EndEvaluation(h) PROVE AlertInv'
  <2>1. CASE visit' = [visit EXCEPT ![h].pc = "rule"]
    <3>1. visit' = [visit EXCEPT ![h] = visit'[h]] /\ visit'[h] \in Visits /\ visit'[h].pc = "rule"
      BY <1>1, <2>1 DEF Visits
    <3> QED
      BY <1>5, <3>1, VisitKeeps DEF EndEvaluation
  <2>2. CASE visit' = [visit EXCEPT ![h] = NoVisit]
    <3>1. NoVisit.pc = "idle"
      BY DEF NoVisit
    <3> QED
      BY <1>1, <1>5, <2>2, <3>1, VisitKeeps DEF EndEvaluation
  <2> QED
    BY <1>5, <2>1, <2>2 DEF EndEvaluation
<1> QED
  BY <1>2, <1>3, <1>4, <1>5

(* The alert opened is the first, or the pair was marked. *)
LEMMA CreateAlertKeeps ==
  ASSUME AlertInv, NEW h \in Evaluators, CreateAlert(h) PROVE AlertInv'
<1> DEFINE s == visit[h].server
           r == visit[h].rule
           n == Len(alerts) + 1
<1>1. s \in Hosts /\ r \in Rules /\ visit[h] \in Visits /\ visit[h].pc = "create" /\ alerts \in Seq(AlertRows)
  BY DEF CreateAlert, AlertInv, AlertShape, VisitsPlaced
<1>2. /\ alerts' \in Seq(AlertRows) /\ DOMAIN alerts' = DOMAIN alerts \union {n} /\ n \notin DOMAIN alerts
      /\ alerts'[n] = [server |-> s, rule |-> r, status |-> "firing"]
      /\ \A a \in DOMAIN alerts : alerts'[a] = alerts[a]
  BY <1>1 DEF CreateAlert, AlertRows
<1>3. /\ visit' \in [Evaluators -> Visits] /\ visit'[h].pc = "lookup" /\ visit'[h].rule = r
      /\ \A g \in Evaluators \ {h} : visit'[g] = visit[g]
  BY <1>1 DEF CreateAlert, AlertInv, AlertShape, Visits
<1>4. /\ doubled \subseteq doubled'
      /\ \A g \in Evaluators \ {h} :
           visit[g].pc = "create" /\ visit[g].server = s /\ visit[g].rule = r => <<s, r>> \in doubled'
  BY DEF CreateAlert
<1>5. \A t \in Hosts, q \in Rules :
        OpenFor(t, q)' = IF t = s /\ q = r THEN OpenFor(s, r) \union {n} ELSE OpenFor(t, q)
  BY <1>2 DEF OpenFor, Unresolved
<1> HIDE DEF s, r, n
<1>6. AlertShape' /\ VisitsPlaced'
  BY <1>1, <1>2, <1>3 DEF CreateAlert, AlertInv, AlertShape, VisitsPlaced
<1>7. NoneFound'
  <2> SUFFICES ASSUME NEW g \in Evaluators, visit'[g].pc = "create"
               PROVE (\/ <<visit[g].server, visit[g].rule>> \in doubled
                      \/ OpenFor(visit[g].server, visit[g].rule) = {})'
    BY DEF NoneFound
  <2>1. g # h /\ visit'[g] = visit[g] /\ visit[g].pc = "create" /\ visit[g].server \in Hosts /\ visit[g].rule \in Rules
    BY <1>3 DEF AlertInv, VisitsPlaced
  <2>2. CASE visit[g].server = s /\ visit[g].rule = r
    BY <1>4, <2>1, <2>2
  <2>3. CASE ~(visit[g].server = s /\ visit[g].rule = r)
    <3>1. \A t \in Hosts, q \in Rules : t = visit[g].server /\ q = visit[g].rule => OpenFor(t, q)' = OpenFor(t, q)
      BY <1>5, <2>3
    <3> QED
      BY <1>4, <2>1, <3>1 DEF AlertInv, NoneFound, OpenFor
  <2> QED
    BY <2>2, <2>3
<1>8. AtMostOne'
  <2>1. <<s, r>> \in doubled \/ OpenFor(s, r) = {}
    BY <1>1 DEF AlertInv, NoneFound, s, r
  <2>2. ASSUME NEW t \in Hosts, NEW q \in Rules, <<t, q>> \notin doubled'
        PROVE \A a, b \in OpenFor(t, q)' : a = b
    <3>1. CASE t = s /\ q = r
      <4>1. OpenFor(s, r) = {}
        BY <1>4, <2>1, <2>2, <3>1
      <4> QED
        BY <1>5, <3>1, <4>1
    <3>2. CASE ~(t = s /\ q = r)
      BY <1>4, <1>5, <2>2, <3>2 DEF AlertInv, AtMostOne
    <3> QED
      BY <3>1, <3>2
  <2> QED
    BY <2>2 DEF AtMostOne, OpenFor
<1> QED
  BY <1>6, <1>7, <1>8 DEF AlertInv

(* The write of a status opens no alert, unless its pair is marked. *)
LEMMA StatusKeeps ==
  ASSUME AlertInv, NEW h \in Evaluators, EndAck(h) \/ EndResolve(h) PROVE AlertInv'
<1> DEFINE a == visit[h].alert
<1>1. a \in DOMAIN alerts /\ alerts \in Seq(AlertRows) /\ alerts[a] \in AlertRows
  BY DEF EndAck, EndResolve, AlertInv, AlertShape, VisitsPlaced
<1>2. PICK status \in {"acknowledged", "resolved"} : alerts' = [alerts EXCEPT ![a].status = status]
                                                  /\ (status = "acknowledged" => EndAck(h))
  BY DEF EndAck, EndResolve
<1>3. /\ alerts' \in Seq(AlertRows) /\ DOMAIN alerts' = DOMAIN alerts
      /\ \A b \in DOMAIN alerts : /\ alerts'[b].server = alerts[b].server /\ alerts'[b].rule = alerts[b].rule
                                  /\ alerts'[b].status = IF b = a THEN status ELSE alerts[b].status
  BY <1>1, <1>2 DEF AlertRows
<1>4. NoVisit \in Visits /\ NoVisit.pc = "idle"
  BY DEF NoVisit, Visits
<1>5. /\ visit' \in [Evaluators -> Visits] /\ visit'[h].pc = "idle"
      /\ \A g \in Evaluators \ {h} : visit'[g] = visit[g]
  BY <1>4 DEF EndAck, EndResolve, AlertInv, AlertShape
<1>6. /\ doubled \subseteq doubled'
      /\ a \notin Unresolved /\ status = "acknowledged" => <<alerts[a].server, alerts[a].rule>> \in doubled'
  BY <1>2 DEF EndAck, EndResolve
<1>7. \A s \in Hosts, r \in Rules : <<s, r>> \in doubled' \/ OpenFor(s, r)' \subseteq OpenFor(s, r)
  <2> SUFFICES ASSUME NEW s \in Hosts, NEW r \in Rules, NEW b \in DOMAIN alerts,
                      alerts'[b].status # "resolved", alerts'[b].server = s, alerts'[b].rule = r,
                      <<s, r>> \notin doubled'
               PROVE b \in OpenFor(s, r)
    BY <1>3 DEF OpenFor, Unresolved
  <2>1. CASE b # a
    BY <1>3, <2>1 DEF OpenFor, Unresolved
  <2>2. CASE b = a
    BY <1>3, <1>6, <2>2 DEF OpenFor
  <2> QED
    BY <2>1, <2>2
<1>8. AlertShape' /\ VisitsPlaced'
  BY <1>3, <1>5 DEF EndAck, EndResolve, AlertInv, AlertShape, VisitsPlaced
<1>9. NoneFound'
  <2> SUFFICES ASSUME NEW g \in Evaluators, visit'[g].pc = "create"
               PROVE (\/ <<visit[g].server, visit[g].rule>> \in doubled
                      \/ OpenFor(visit[g].server, visit[g].rule) = {})'
    BY DEF NoneFound
  <2>1. visit'[g] = visit[g] /\ visit[g].pc = "create" /\ visit[g].server \in Hosts /\ visit[g].rule \in Rules
    BY <1>5 DEF AlertInv, VisitsPlaced
  <2>2. \A t \in Hosts, q \in Rules :
          t = visit[g].server /\ q = visit[g].rule => <<t, q>> \in doubled' \/ OpenFor(t, q)' = {}
    BY <1>6, <1>7, <2>1 DEF AlertInv, NoneFound
  <2> QED
    BY <2>1, <2>2 DEF OpenFor
<1>10. AtMostOne'
  BY <1>6, <1>7 DEF AlertInv, AtMostOne
<1> QED
  BY <1>8, <1>9, <1>10 DEF AlertInv

LEMMA StartAlertKeeps ==
  ASSUME AlertInv, NEW h \in Evaluators, NEW a \in DOMAIN alerts, StartAck(h, a) \/ StartResolve(h, a) PROVE AlertInv'
<1>1. a \in Nat
  BY DEF AlertInv, AlertShape
<1>2. PICK pc \in {"ack", "resolve"} : /\ visit' = [visit EXCEPT ![h] = [NoVisit EXCEPT !.pc = pc, !.alert = a]]
                                       /\ UNCHANGED <<collection, samples, alerts, doubled>>
  BY DEF StartAck, StartResolve, Enter
<1> DEFINE request == [NoVisit EXCEPT !.pc = pc, !.alert = a]
<1>3. request \in Visits /\ request.pc = pc /\ request.alert = a
  BY <1>1 DEF NoVisit, Visits
<1> HIDE DEF request
<1>4. visit' = [visit EXCEPT ![h] = request]
  BY <1>2 DEF request
<1> QED
  BY <1>2, <1>3, <1>4, VisitKeeps

LEMMA AlertInvStep == AlertInv /\ [AlertNext]_alertVars => AlertInv'
<1> SUFFICES ASSUME AlertInv, [AlertNext]_alertVars PROVE AlertInv'
  OBVIOUS
<1>1. CASE AlertNext
  BY <1>1, CollectionKeeps, AlertReadingKeeps, EvaluationKeeps, CreateAlertKeeps, StatusKeeps, StartAlertKeeps DEF AlertNext
<1>2. CASE UNCHANGED alertVars
  BY <1>2 DEF alertVars, AlertInv, AlertShape, VisitsPlaced, NoneFound, AtMostOne, OpenFor, Unresolved
<1> QED
  BY <1>1, <1>2

(* For any numbers of servers, rules and evaluations at once, a rule has at *)
(* most one unresolved alert on a server, unless two requests overlapped    *)
(* (evaluateAlertRules, ackAlert).                                          *)
THEOREM AlertsNotDoubled == AlertSpec => []OneOpenAlert
<1>1. AlertInv => OneOpenAlert
  BY OneMember DEF AlertInv, AtMostOne, OneOpenAlert
<1> QED
  BY <1>1, AlertInvInit, AlertInvStep, PTL DEF AlertSpec

LEMMA TermTypes == TermInv => TermTypeOK
  BY DEF TermInv, TermShape, TermTypeOK, SessionRows, CallRecords, CallNumbers

(* What else is bounded: a job stores one sample at most.                   *)
Stored == {j \in DOMAIN collection : collection[j].pc \in {"prune", "ended"}}
RuleRows == [operator : Operators, threshold : Thresholds, status : {"enabled", "disabled"}]

RuleBounds ==
  /\ rules \in [Rules -> RuleRows] /\ Len(alerts) <= MaxAlerts /\ visits \in 0..MaxVisits /\ doubled \subseteq Hosts \X Rules
JobBounds ==
  /\ \A j \in DOMAIN collection : collection[j].status = "running" <=> collection[j].pc # "ended"
  /\ Len(collection) <= MaxSamples /\ Len(samples) <= Cardinality(Stored)
AlertLimits == RuleBounds /\ JobBounds

LEMMA StoredIs ==
  ASSUME AlertInv
  PROVE  /\ IsFiniteSet(Stored) /\ Cardinality(Stored) \in Nat /\ Cardinality(Stored) <= Len(collection)
         /\ Len(collection) \in Nat /\ Len(samples) \in Nat /\ Len(alerts) \in Nat
<1>1. collection \in Seq(JobRows) /\ samples \in Seq(SampleRows) /\ alerts \in Seq(AlertRows)
  BY DEF AlertInv, AlertShape
<1>2. PICK n : n = Len(collection) /\ n \in Nat /\ DOMAIN collection = 1..n
  BY <1>1
<1>3. IsFiniteSet(1..n) /\ Cardinality(1..n) = n
  BY <1>2, IntervalSize
<1>4. Stored \subseteq 1..n
  BY <1>2 DEF Stored
<1>5. IsFiniteSet(Stored) /\ Cardinality(Stored) <= n
  BY <1>3, <1>4, FS_Subset
<1> QED
  BY <1>1, <1>2, <1>5, FS_CardinalityType

(* A step of one job, which may have stored a sample now.                   *)
LEMMA JobMoves ==
  ASSUME AlertInv, JobBounds, AlertInv', NEW j \in DOMAIN collection, NEW row \in JobRows,
         collection' = [collection EXCEPT ![j] = row], row.status = "running" <=> row.pc # "ended",
         j \in Stored => row.pc \in {"prune", "ended"},
         \/ Len(samples') <= Len(samples)
         \/ j \notin Stored /\ row.pc = "prune" /\ Len(samples') = Len(samples) + 1
  PROVE  JobBounds'
<1>1. collection \in Seq(JobRows) /\ DOMAIN collection' = DOMAIN collection /\ Len(collection') = Len(collection)
  BY DEF AlertInv, AlertShape
<1>2. \A i \in DOMAIN collection : collection'[i] = IF i = j THEN row ELSE collection[i]
  BY <1>1
<1>3. PICK S, T : S = Stored /\ T = Stored' /\ S \subseteq T /\ IsFiniteSet(S) /\ IsFiniteSet(T)
                  /\ Cardinality(S) \in Nat /\ Cardinality(T) \in Nat
  <2>1. Stored \subseteq Stored'
    BY <1>1, <1>2 DEF Stored
  <2>2. IsFiniteSet(Stored) /\ Cardinality(Stored) \in Nat
    BY StoredIs
  <2>3. Stored' \subseteq DOMAIN collection
    BY <1>1 DEF Stored
  <2>4. IsFiniteSet(Stored')
    <3>1. PICK n : n = Len(collection) /\ n \in Nat /\ DOMAIN collection = 1..n
      BY <1>1
    <3> QED
      BY <2>3, <3>1, IntervalSize, FS_Subset
  <2> QED
    BY <2>1, <2>2, <2>4, FS_CardinalityType
<1>4. Cardinality(S) <= Cardinality(T)
  BY <1>3, FS_Subset
<1>5. Len(samples) <= Cardinality(S) /\ Len(samples) \in Nat /\ Len(samples') \in Nat
  BY <1>3, StoredIs DEF JobBounds, AlertInv, AlertShape
<1>6. Len(samples') <= Cardinality(T)
  <2>1. CASE Len(samples') <= Len(samples)
    BY <1>3, <1>4, <1>5, <2>1
  <2>2. CASE j \notin Stored /\ row.pc = "prune" /\ Len(samples') = Len(samples) + 1
    <3>1. T = S \union {j} /\ j \notin S
      BY <1>1, <1>2, <1>3, <2>2 DEF Stored
    <3>2. Cardinality(T) = Cardinality(S) + 1
      BY <1>3, <3>1, FS_AddElement
    <3> QED
      BY <1>3, <1>5, <2>2, <3>2
  <2> QED
    BY <2>1, <2>2
<1>7. \A i \in DOMAIN collection' : collection'[i].status = "running" <=> collection'[i].pc # "ended"
  BY <1>1, <1>2 DEF JobBounds
<1>8. Len(collection') <= MaxSamples
  BY <1>1 DEF JobBounds
<1>9. Len(samples') <= Cardinality(Stored')
  BY <1>3, <1>6
<1> QED
  BY <1>7, <1>8, <1>9 DEF JobBounds, Stored

LEMMA CollectionBounded ==
  ASSUME AlertInv, JobBounds, AlertInv', NEW j \in DOMAIN collection, CollectionStep(j)
  PROVE  JobBounds'
<1>1. samples \in Seq(SampleRows) /\ collection \in Seq(JobRows) /\ collection[j] \in JobRows
  BY DEF AlertInv, AlertShape
<1>2. collection[j].status = "running" <=> collection[j].pc # "ended"
  BY DEF JobBounds
<1>3. ASSUME Collect(j) PROVE JobBounds'
  <2>1. j \notin Stored /\ collection[j].status = "running" /\ samples' = samples
    BY <1>2, <1>3 DEF Collect, Stored
  <2>0. Len(samples') <= Len(samples)
    BY <1>1, <2>1
  <2>2. CASE collection' = [collection EXCEPT ![j].pc = "store"]
    <3>1. PICK row : row = [collection[j] EXCEPT !.pc = "store"]
      OBVIOUS
    <3>2. row \in JobRows /\ row.pc = "store" /\ row.status = "running"
      BY <1>1, <2>1, <3>1 DEF JobRows
    <3>3. collection' = [collection EXCEPT ![j] = row]
      BY <1>1, <2>2, <3>1
    <3> QED
      BY <2>0, <2>1, <3>2, <3>3, JobMoves
  <2>3. CASE collection' = [collection EXCEPT ![j].pc = "ended", ![j].status = "failed"]
    <3>1. PICK row : row = [[collection[j] EXCEPT !.pc = "ended"] EXCEPT !.status = "failed"]
      OBVIOUS
    <3>2. row \in JobRows /\ row.pc = "ended" /\ row.status = "failed"
      BY <1>1, <3>1 DEF JobRows
    <3>3. collection' = [collection EXCEPT ![j] = row]
      BY <1>1, <2>3, <3>1
    <3> QED
      BY <2>0, <2>1, <3>2, <3>3, JobMoves
  <2> QED
    BY <1>3, <2>2, <2>3 DEF Collect
<1>4. ASSUME StoreSamples(j) PROVE JobBounds'
  <2>1. PICK row : row = [collection[j] EXCEPT !.pc = "prune"]
    OBVIOUS
  <2>2. row \in JobRows /\ row.pc = "prune" /\ row.status = collection[j].status
    BY <1>1, <2>1 DEF JobRows
  <2>3. j \notin Stored /\ collection[j].status = "running" /\ collection' = [collection EXCEPT ![j] = row]
    BY <1>1, <1>2, <1>4, <2>1 DEF StoreSamples, Stored
  <2>4. ASSUME NEW v \in Values
        PROVE Len(<<[server |-> collection[j].server, value |-> v, old |-> FALSE]>> \o samples) = Len(samples) + 1
    <3>1. [server |-> collection[j].server, value |-> v, old |-> FALSE] \in SampleRows
      BY <1>1 DEF JobRows, SampleRows
    <3> QED
      BY <1>1, <3>1
  <2>5. Len(samples') <= Len(samples) \/ Len(samples') = Len(samples) + 1
    <3>1. CASE UNCHANGED samples
      BY <1>1, <3>1
    <3>2. CASE \E v \in Values : samples' = <<[server |-> collection[j].server, value |-> v, old |-> FALSE]>> \o samples
      BY <2>4, <3>2
    <3> QED
      BY <1>4, <3>1, <3>2 DEF StoreSamples
  <2> QED
    BY <2>2, <2>3, <2>5, JobMoves
<1>5. ASSUME SettleCollection(j) PROVE JobBounds'
  <2>1. PICK row : row = [[collection[j] EXCEPT !.pc = "ended"] EXCEPT !.status = "success"]
    OBVIOUS
  <2>2. row \in JobRows /\ row.pc = "ended" /\ row.status = "success"
    BY <1>1, <2>1 DEF JobRows
  <2>3. collection' = [collection EXCEPT ![j] = row]
    BY <1>1, <1>5, <2>1 DEF SettleCollection
  <2>4. Cardinality(Recent) \in 0..Len(samples)
    <3>1. PICK n : n = Len(samples) /\ n \in Nat /\ DOMAIN samples = 1..n
      BY <1>1
    <3>2. Recent \subseteq 1..n /\ IsFiniteSet(1..n) /\ Cardinality(1..n) = n
      BY <3>1, IntervalSize DEF Recent
    <3>3. IsFiniteSet(Recent) /\ Cardinality(Recent) <= n
      BY <3>2, FS_Subset
    <3> QED
      BY <3>1, <3>3, FS_CardinalityType
  <2>5. Len(samples') <= Len(samples)
    <3>1. PICK n : n = Cardinality(Recent) /\ n \in 0..Len(samples)
      BY <2>4
    <3>2. samples' = SubSeq(samples, 1, n)
      BY <1>5, <3>1 DEF SettleCollection
    <3> QED
      BY <1>1, <3>1, <3>2
  <2> QED
    BY <2>2, <2>3, <2>5, JobMoves
<1> QED
  BY <1>3, <1>4, <1>5 DEF CollectionStep

LEMMA JobsBounded ==
  ASSUME AlertInv, JobBounds, AlertInv', [AlertNext]_alertVars
  PROVE  JobBounds'
<1>1. /\ samples \in Seq(SampleRows) /\ collection \in Seq(JobRows) /\ Len(samples) \in Nat /\ Len(collection) \in Nat
      /\ Len(samples) <= Cardinality(Stored) /\ MaxSamples \in Nat
  BY AlertAssumption DEF AlertInv, AlertShape, JobBounds
<1>2. ASSUME NEW s \in Hosts, StartCollection(s) PROVE JobBounds'
  <2>1. PICK row, n : row = [server |-> s, status |-> "running", pc |-> "collect"] /\ n = Len(collection) /\ n \in Nat
    BY <1>1
  <2>2. row \in JobRows /\ row.status = "running" /\ row.pc = "collect"
    BY <2>1 DEF JobRows
  <2>3. collection' = Append(collection, row) /\ n < MaxSamples /\ samples' = samples
    BY <1>2, <2>1 DEF StartCollection
  <2>4. /\ Len(collection') = n + 1 /\ DOMAIN collection' = DOMAIN collection \union {n + 1}
        /\ n + 1 \notin DOMAIN collection /\ collection'[n + 1] = row /\ \A j \in DOMAIN collection : collection'[j] = collection[j]
    BY <1>1, <2>1, <2>2, <2>3
  <2>5. Stored' = Stored
    BY <2>2, <2>4 DEF Stored
  <2>6. Len(samples') <= Cardinality(Stored)'
    BY <1>1, <2>3, <2>5
  <2>7. \A j \in DOMAIN collection' : collection'[j].status = "running" <=> collection'[j].pc # "ended"
    BY <2>2, <2>4 DEF JobBounds
  <2>8. Len(collection') <= MaxSamples
    BY <1>1, <2>1, <2>3, <2>4
  <2> QED
    BY <2>6, <2>7, <2>8 DEF JobBounds
<1>3. ASSUME PassRetention PROVE JobBounds'
  <2>1. collection' = collection /\ DOMAIN samples' = DOMAIN samples
    BY <1>3 DEF PassRetention
  <2>2. Len(samples') = Len(samples)
    BY <1>1, <2>1 DEF AlertInv, AlertShape
  <2> QED
    BY <1>1, <2>1, <2>2 DEF JobBounds, Stored
<1>4. CASE UNCHANGED <<samples, collection>>
  BY <1>4 DEF JobBounds, Stored
<1>5. CASE AlertNext
  <2>1. \/ \E s \in Hosts : StartCollection(s)
        \/ PassRetention
        \/ \E j \in DOMAIN collection : CollectionStep(j)
        \/ UNCHANGED <<samples, collection>>
    BY <1>5 DEF AlertNext, UpdateAlertRule, StartEvaluation, TakeRule, LookUp, CreateAlert, EndEvaluation, StartAck, StartResolve,
       EndAck, EndResolve
  <2> QED
    BY <1>2, <1>3, <1>4, <2>1, CollectionBounded
<1> QED
  BY <1>4, <1>5 DEF alertVars

LEMMA RulesBounded ==
  ASSUME AlertInv, RuleBounds, [AlertNext]_alertVars
  PROVE  RuleBounds'
<1>1. /\ alerts \in Seq(AlertRows) /\ Len(alerts) \in Nat /\ rules \in [Rules -> RuleRows] /\ doubled \subseteq Hosts \X Rules
      /\ visits \in 0..MaxVisits /\ MaxVisits \in Nat /\ MaxAlerts \in Nat /\ Len(alerts) <= MaxAlerts
  BY AlertAssumption DEF AlertInv, AlertShape, RuleBounds
<1>2. ASSUME NEW r \in Rules, NEW status \in {"enabled", "disabled"}, UpdateAlertRule(r, status) PROVE RuleBounds'
  <2>1. PICK row : row = [rules[r] EXCEPT !.status = status]
    OBVIOUS
  <2>2. rules[r] \in RuleRows
    BY <1>1
  <2>3. row \in RuleRows
    BY <2>1, <2>2 DEF RuleRows
  <2>4. rules' = [rules EXCEPT ![r] = row] /\ UNCHANGED <<alerts, visits, doubled>>
    BY <1>1, <1>2, <2>1 DEF UpdateAlertRule
  <2> QED
    BY <1>1, <2>3, <2>4 DEF RuleBounds
<1>3. ASSUME visits < MaxVisits, visits' = visits + 1, UNCHANGED <<rules, alerts, doubled>> PROVE RuleBounds'
  BY <1>1, <1>3 DEF RuleBounds
<1>4. ASSUME NEW h \in Evaluators, CreateAlert(h) PROVE RuleBounds'
  <2>1. <<visit[h].server, visit[h].rule>> \in Hosts \X Rules
    BY <1>4 DEF CreateAlert, AlertInv, VisitsPlaced
  <2>2. Len(alerts') = Len(alerts) + 1 /\ Len(alerts) < MaxAlerts
    BY <1>1, <1>4 DEF CreateAlert
  <2>3. doubled' \subseteq Hosts \X Rules /\ UNCHANGED <<rules, visits>>
    BY <1>1, <1>4, <2>1 DEF CreateAlert
  <2> QED
    BY <1>1, <2>2, <2>3 DEF RuleBounds
<1>5. ASSUME NEW h \in Evaluators, EndAck(h) PROVE RuleBounds'
  <2>1. PICK a : a = visit[h].alert
    OBVIOUS
  <2>2. a \in DOMAIN alerts /\ alerts[a] \in AlertRows
    BY <1>1, <1>5, <2>1 DEF EndAck, AlertInv, VisitsPlaced
  <2>3. doubled' \subseteq doubled \union {<<alerts[a].server, alerts[a].rule>>} /\ UNCHANGED <<rules, visits>>
    BY <1>5, <2>1 DEF EndAck
  <2>4. <<alerts[a].server, alerts[a].rule>> \in Hosts \X Rules
    BY <2>2 DEF AlertRows
  <2>5. Len(alerts') = Len(alerts)
    BY <1>1, <1>5 DEF EndAck
  <2> QED
    BY <1>1, <2>3, <2>4, <2>5 DEF RuleBounds
<1>6. ASSUME NEW h \in Evaluators, EndResolve(h) PROVE RuleBounds'
  <2>1. Len(alerts') = Len(alerts)
    BY <1>1, <1>6 DEF EndResolve
  <2> QED
    BY <1>1, <1>6, <2>1 DEF EndResolve, RuleBounds
<1>7. CASE UNCHANGED <<rules, alerts, visits, doubled>>
  BY <1>7 DEF RuleBounds
<1>8. CASE AlertNext
  <2>1. ASSUME NEW h \in Evaluators, StartEvaluation(h) PROVE RuleBounds'
    BY <1>3, <2>1 DEF StartEvaluation, Enter
  <2>2. ASSUME NEW h \in Evaluators, NEW a \in DOMAIN alerts, StartAck(h, a) \/ StartResolve(h, a) PROVE RuleBounds'
    BY <1>3, <2>2 DEF StartAck, StartResolve, Enter
  <2>3. ASSUME NEW h \in Evaluators, TakeRule(h) \/ LookUp(h) \/ EndEvaluation(h) PROVE RuleBounds'
    BY <1>7, <2>3 DEF TakeRule, LookUp, EndEvaluation
  <2>4. ASSUME NEW j, CollectionStep(j) PROVE RuleBounds'
    BY <1>7, <2>4 DEF CollectionStep, Collect, StoreSamples, SettleCollection
  <2>5. ASSUME NEW s, StartCollection(s) PROVE RuleBounds'
    BY <1>7, <2>5 DEF StartCollection
  <2>6. CASE PassRetention
    BY <1>7, <2>6 DEF PassRetention
  <2> QED
    BY <1>2, <1>4, <1>5, <1>6, <1>8, <2>1, <2>2, <2>3, <2>4, <2>5, <2>6 DEF AlertNext
<1> QED
  BY <1>7, <1>8 DEF alertVars

LEMMA AlertLimitsInitially == AlertInit => AlertLimits
<1>1. Cardinality({}) = 0
  BY FS_EmptySet
<1>2. AlertInit => Stored = {} /\ Len(collection) = 0 /\ Len(samples) = 0 /\ Len(alerts) = 0 /\ DOMAIN collection = {}
  BY DEF AlertInit, Stored
<1>3. AlertInit => rules \in [Rules -> RuleRows] /\ visits = 0 /\ doubled = {}
  BY DEF AlertInit, RuleRows
<1>4. MaxSamples \in Nat /\ MaxAlerts \in Nat /\ MaxVisits \in Nat
  BY AlertAssumption
<1>5. AlertInit => RuleBounds
  BY <1>2, <1>3, <1>4 DEF RuleBounds
<1>6. AlertInit => JobBounds
  <2>1. SUFFICES ASSUME AlertInit PROVE JobBounds
    OBVIOUS
  <2>2. Cardinality(Stored) = 0
    BY <1>1, <1>2, <2>1
  <2> QED
    BY <1>2, <1>4, <2>1, <2>2 DEF JobBounds
<1> QED
  BY <1>5, <1>6 DEF AlertLimits

LEMMA AlertTypes == AlertInv /\ AlertLimits => AlertTypeOK
<1> SUFFICES ASSUME AlertInv, AlertLimits PROVE AlertTypeOK
  OBVIOUS
<1>1. /\ alerts \in Seq(AlertRows) /\ collection \in Seq(JobRows) /\ visit \in [Evaluators -> Visits]
      /\ rules \in [Rules -> RuleRows]
  BY DEF AlertInv, AlertShape, AlertLimits, RuleBounds
<1>2. \A r \in Rules : rules[r].status \in {"enabled", "disabled"}
  BY <1>1 DEF RuleRows
<1>3. \A j \in DOMAIN collection : collection[j].status \in {"running", "success", "failed"}
  <2>1. \A j \in DOMAIN collection : collection[j] \in JobRows
    BY <1>1
  <2> QED
    BY <2>1 DEF JobRows
<1>4. \A a \in DOMAIN alerts : alerts[a].status \in {"firing", "acknowledged", "resolved"}
  <2>1. \A a \in DOMAIN alerts : alerts[a] \in AlertRows
    BY <1>1
  <2> QED
    BY <2>1 DEF AlertRows
<1>5. \A h \in Evaluators : visit[h].pc \in {"idle", "rule", "lookup", "create", "ack", "resolve"}
  BY <1>1 DEF Visits
<1>6. Len(samples) <= MaxSamples
  BY StoredIs, AlertAssumption DEF AlertLimits, JobBounds
<1> QED
  BY <1>2, <1>3, <1>4, <1>5, <1>6 DEF AlertTypeOK, AlertLimits, RuleBounds, JobBounds

(* A job is of the servers there are, and its rows are of the job.          *)
ScriptLimits ==
  /\ operable \subseteq Targets /\ remote \in BOOLEAN /\ faults <= MaxFaults
  /\ job.concurrency <= Cardinality(Targets) /\ Len(job.servers) <= Cardinality(Targets)
  /\ Len(executions) <= Len(job.servers) /\ (runner.pc = "idle" => Len(executions) = 0)
  /\ DOMAIN outcome \subseteq DOMAIN executions /\ lost \subseteq DOMAIN executions

LEMMA ScriptIs ==
  ASSUME ScriptInv
  PROVE  /\ executions \in Seq(Statuses) /\ faults \in Nat /\ MaxFaults \in Nat /\ Cardinality(Targets) \in Nat
         /\ job \in [status : {"none", "running", "success", "failed"}, servers : Seq(Targets), concurrency : Nat]
         /\ runner \in [pc : {"idle", "insert", "abandoned", "read", "mark", "wait", "ended", "crashed"},
                        list : Nat, from : Nat, at : Nat, failed : BOOLEAN]
         /\ Len(executions) \in Nat /\ DOMAIN executions = 1 .. Len(executions) /\ Len(job.servers) \in Nat
BY ScriptAssumption, FS_CardinalityType DEF ScriptInv, ScriptShape

(* The batch is of executions there are.                                    *)
LEMMA BatchInside ==
  ASSUME ScriptInv, runner.pc \in {"mark", "wait"}
  PROVE  Batch \subseteq DOMAIN executions
<1>1. /\ runner.list = Len(executions) \/ runner.list = 0
      /\ runner.from >= 1 /\ runner.from \in Nat /\ runner.list \in Nat /\ Len(executions) \in Nat
  BY ScriptIs DEF ScriptInv, ListRead, ScriptShape
<1>2. \A i \in Batch : i \in Int /\ i >= runner.from /\ i <= runner.list
  BY ScriptIs DEF Batch
<1> QED
  BY <1>1, <1>2, ScriptIs

(* A step that adds no row, writes to rows there are and follows scripts of *)
(* executions there are.                                                    *)
LEMMA RowsBounded ==
  ASSUME ScriptInv, ScriptLimits, UNCHANGED <<operable, remote>>, runner'.pc # "idle",
         faults' \in {faults, faults + 1}, faults' # faults => faults < MaxFaults,
         job'.servers = job.servers, job'.concurrency = job.concurrency,
         Len(executions') = Len(executions), DOMAIN executions' = DOMAIN executions,
         DOMAIN outcome' \subseteq DOMAIN executions, lost' \subseteq DOMAIN executions
  PROVE  ScriptLimits'
<1>1. faults' <= MaxFaults
  BY ScriptIs DEF ScriptLimits
<1> QED
  BY <1>1 DEF ScriptLimits

LEMMA CreateJobBounded ==
  ASSUME ScriptInv, ScriptLimits, NEW n \in 1 .. Cardinality(Targets), NEW ids \in [1..n -> Targets], NEW asked \in Widths,
         CreateJob(ids, asked)
  PROVE  ScriptLimits'
<1>1. n \in Nat /\ Cardinality(Targets) \in Nat /\ n <= Cardinality(Targets) /\ asked \in Int /\ n >= 1
  BY ScriptAssumption, ScriptIs
<1>2. Len(ids) = n
  BY <1>1
<1>3. Concurrency(asked, Len(ids)) <= n
  BY <1>1, <1>2 DEF Concurrency
<1>4. Concurrency(asked, Len(ids)) \in Int
  BY <1>1, <1>2 DEF Concurrency
<1>5. job'.servers = ids /\ job'.concurrency = Concurrency(asked, Len(ids)) /\ runner.pc = "idle"
      /\ UNCHANGED <<operable, remote, executions, session, outcome, faults, lost>>
  BY DEF CreateJob
<1>6. runner'.pc = "insert"
  BY ScriptIs DEF CreateJob, Goto
<1>7. job'.concurrency <= Cardinality(Targets) /\ Len(job'.servers) <= Cardinality(Targets)
  BY <1>1, <1>2, <1>3, <1>4, <1>5
<1>8. Len(executions') <= Len(job'.servers)
  BY <1>1, <1>2, <1>5 DEF ScriptLimits
<1> QED
  BY <1>5, <1>6, <1>7, <1>8 DEF ScriptLimits

LEMMA WriteBounded ==
  ASSUME ScriptInv, NEW i \in DOMAIN executions, NEW status \in Statuses, Write(i, status)
  PROVE  /\ Len(executions') = Len(executions) /\ DOMAIN executions' = DOMAIN executions /\ lost' \subseteq lost \union {i}
         /\ faults' \in {faults, faults + 1} /\ (faults' # faults => faults < MaxFaults)
<1>1. Len(executions') = Len(executions) /\ DOMAIN executions' = DOMAIN executions
  BY ScriptIs, WriteTells
<1>2. lost' \subseteq lost \union {i} /\ faults' \in {faults, faults + 1} /\ (faults' # faults => faults < MaxFaults)
  BY DEF Write, Faulty
<1> QED
  BY <1>1, <1>2

LEMMA RunnerBounded ==
  ASSUME ScriptInv, ScriptLimits, RunnerStep
  PROVE  ScriptLimits'
<1>1. DOMAIN outcome \subseteq DOMAIN executions /\ lost \subseteq DOMAIN executions
  BY DEF ScriptLimits
<1>2. ASSUME NEW pc, Goto(pc) PROVE runner'.pc = pc
  BY <1>2, ScriptIs DEF Goto
<1>3. CASE InsertExecution
  <2>1. runner.pc = "insert" /\ Len(executions) < Len(job.servers) /\ UNCHANGED <<operable, remote, job, session, outcome, lost>>
    BY <1>3 DEF InsertExecution
  <2>2. CASE executions' = Append(executions, "pending") /\ UNCHANGED <<runner, faults>>
    <3>1. Len(executions') = Len(executions) + 1 /\ DOMAIN executions' = 1 .. Len(executions) + 1
      BY <2>2, ScriptIs DEF Statuses
    <3>2. Len(executions') <= Len(job.servers) /\ DOMAIN executions \subseteq DOMAIN executions'
      BY <2>1, <3>1, ScriptIs
    <3> QED
      BY <1>1, <2>1, <2>2, <3>2 DEF ScriptLimits
  <2>3. CASE Faulty /\ Goto("abandoned") /\ UNCHANGED executions
    BY <1>1, <1>2, <2>1, <2>3, RowsBounded DEF Faulty
  <2> QED
    BY <1>3, <2>2, <2>3 DEF InsertExecution
<1>4. CASE StartRun
  BY <1>1, <1>2, <1>4, RowsBounded DEF StartRun, Faulty
<1>5. CASE ReadExecutions
  <2>1. runner'.pc = "mark"
    <3>1. CASE runner' = [runner EXCEPT !.pc = "mark", !.list = Len(executions)]
      BY <3>1, ScriptIs
    <3> QED
      BY <1>2, <1>5, <3>1 DEF ReadExecutions
  <2> QED
    BY <1>1, <1>5, <2>1, RowsBounded DEF ReadExecutions, Faulty
<1>6. CASE MarkRunning
  <2>1. PICK i : i = runner.at /\ i \in DOMAIN executions
    BY <1>6, BatchInside DEF MarkRunning
  <2>2. runner.pc = "mark" /\ Write(i, "running") /\ UNCHANGED <<operable, remote, job, session, outcome>>
    BY <1>6, <2>1 DEF MarkRunning
  <2>3. runner'.pc = "mark"
    BY <1>6, ScriptIs DEF MarkRunning
  <2>4. /\ Len(executions') = Len(executions) /\ DOMAIN executions' = DOMAIN executions /\ lost' \subseteq lost \union {i}
        /\ faults' \in {faults, faults + 1} /\ (faults' # faults => faults < MaxFaults)
    BY <2>1, <2>2, WriteBounded DEF Statuses
  <2> QED
    BY <1>1, <2>1, <2>2, <2>3, <2>4, RowsBounded
<1>7. CASE StartBatch
  BY <1>1, <1>2, <1>7, RowsBounded DEF StartBatch
<1>8. CASE EndBatch
  <2>1. runner'.pc = "mark" /\ UNCHANGED <<operable, remote, job, executions, outcome, faults, lost>>
    BY <1>8, ScriptIs DEF EndBatch
  <2> QED
    BY <1>1, <2>1, RowsBounded
<1>9. CASE FinishJob
  <2>1. job'.servers = job.servers /\ job'.concurrency = job.concurrency
    BY <1>9, ScriptIs DEF FinishJob
  <2>2. UNCHANGED <<operable, remote, executions, session, outcome, lost>> /\ runner'.pc = "ended"
        /\ faults' \in {faults, faults + 1} /\ (faults' # faults => faults < MaxFaults)
    BY <1>2, <1>9 DEF FinishJob, Faulty
  <2> QED
    BY <1>1, <2>1, <2>2, RowsBounded
<1> QED
  BY <1>3, <1>4, <1>5, <1>6, <1>7, <1>8, <1>9 DEF RunnerStep

LEMMA ScriptLimitsStep == ScriptInv /\ ScriptLimits /\ [ScriptNext]_scriptVars => ScriptLimits'
<1> SUFFICES ASSUME ScriptInv, ScriptLimits, [ScriptNext]_scriptVars PROVE ScriptLimits'
  OBVIOUS
<1>1. ASSUME NEW i \in DOMAIN session, RunSession(i) PROVE ScriptLimits'
  <2>1. runner.pc = "wait" /\ UNCHANGED <<operable, remote, job, runner>>
    BY <1>1 DEF RunSession
  <2>2. i \in DOMAIN executions
    BY <2>1, BatchInside DEF ScriptInv, BatchUnderWay
  <2>3. PICK how \in {"success", "failed"} : DOMAIN outcome' = DOMAIN outcome \union {i} /\ Write(i, how)
    BY <1>1 DEF RunSession
  <2>4. /\ Len(executions') = Len(executions) /\ DOMAIN executions' = DOMAIN executions /\ lost' \subseteq lost \union {i}
        /\ faults' \in {faults, faults + 1} /\ (faults' # faults => faults < MaxFaults)
    BY <2>2, <2>3, WriteBounded DEF Statuses
  <2>5. DOMAIN outcome' \subseteq DOMAIN executions /\ lost' \subseteq DOMAIN executions
    BY <2>2, <2>3, <2>4 DEF ScriptLimits
  <2> QED
    BY <2>1, <2>4, <2>5, RowsBounded
<1>2. CASE CrashRun
  <2>1. runner'.pc = "crashed" /\ UNCHANGED <<operable, remote, job, executions, outcome, faults, lost>>
    BY <1>2, ScriptIs DEF CrashRun, Goto
  <2>2. DOMAIN outcome \subseteq DOMAIN executions /\ lost \subseteq DOMAIN executions
    BY DEF ScriptLimits
  <2> QED
    BY <2>1, <2>2, RowsBounded
<1>3. CASE UNCHANGED scriptVars
  BY <1>3 DEF scriptVars, ScriptLimits
<1> QED
  BY <1>1, <1>2, <1>3, CreateJobBounded, RunnerBounded DEF ScriptNext

LEMMA ScriptLimitsInitially == ScriptInit => ScriptLimits
<1>1. ScriptInit => Len(executions) = 0 /\ DOMAIN executions = {} /\ Len(job.servers) = 0 /\ job.concurrency = 0
  BY DEF ScriptInit, NoJob
<1>2. Cardinality(Targets) \in Nat /\ MaxFaults \in Nat
  BY ScriptAssumption, FS_CardinalityType
<1> QED
  BY <1>1, <1>2 DEF ScriptInit, ScriptLimits

LEMMA ScriptTypes == ScriptInv /\ ScriptLimits => ScriptTypeOK
<1> SUFFICES ASSUME ScriptInv, ScriptLimits PROVE ScriptTypeOK
  OBVIOUS
<1>1. DOMAIN session \subseteq DOMAIN executions
  BY BatchInside DEF ScriptInv, ScriptShape, BatchUnderWay
<1>2. \A i \in DOMAIN executions : executions[i] \in {"pending", "running", "success", "failed"}
  BY ScriptIs DEF Statuses
<1>3. /\ job.status \in {"none", "running", "success", "failed"} /\ job.concurrency \in Nat
      /\ runner.pc \in {"idle", "insert", "abandoned", "read", "mark", "wait", "ended", "crashed"}
  BY ScriptIs
<1>4. faults \in 0..MaxFaults /\ job.concurrency \in 0..Cardinality(Targets)
  BY <1>3, ScriptIs DEF ScriptLimits
<1> QED
  BY <1>1, <1>2, <1>3, <1>4 DEF ScriptTypeOK, ScriptLimits

(***************************************************************************)
(* The services together.                                                  *)
(***************************************************************************)
OperationsInv ==
  /\ ScriptInv /\ ScriptLimits /\ TermInv /\ AlertInv /\ AlertLimits /\ LimiterInv /\ LimiterLimits
  /\ UserInv /\ UserLimits /\ BackupInv /\ (stage = "assets" => export.pc = "idle")

LEMMA OperationsInitially == MCInit => OperationsInv
<1> SUFFICES ASSUME MCInit PROVE OperationsInv
  OBVIOUS
<1>1. ScriptInit /\ AlertInit /\ TermInit /\ LimiterInit /\ UserInit /\ BackupInit
  BY DEF MCInit
<1>2. ScriptInv /\ ScriptLimits /\ TermInv /\ AlertInv /\ AlertLimits
  BY <1>1, ScriptInvInit, ScriptLimitsInitially, TermInvInit, AlertInvInit, AlertLimitsInitially
<1>3. LimiterInv /\ LimiterLimits /\ UserInv /\ UserLimits /\ BackupInv
  BY <1>1, LimiterInitially, LimiterLimitsInitially, UserInvInit, UserLimitsInitially, BackupInitially
<1>4. export.pc = "idle"
  BY <1>1 DEF BackupInit
<1> QED
  BY <1>2, <1>3, <1>4 DEF OperationsInv

(* Where nothing is exported, the inventory at work is all there is.        *)
LEMMA AssetsWork ==
  ASSUME BackupInv, export.pc = "idle", InventoryNext, UNCHANGED backupVars
  PROVE  BackupNext
<1>1. export' = export /\ payload' = payload /\ restore' = restore
  BY DEF backupVars
<1>2. PICK torn : torn = (export.torn \/ (export.pc = "reading" /\ tables' # tables))
  OBVIOUS
<1>3. torn = export.torn
  BY <1>2, BackupIs DEF Exports
<1>4. export = [export EXCEPT !.torn = torn]
  BY <1>3, BackupIs DEF Exports
<1>5. Work
  BY <1>1, <1>2, <1>4 DEF Work
<1> QED
  BY <1>5 DEF BackupNext

LEMMA OperationsStep == OperationsInv /\ [MCNext]_mcVars => OperationsInv'
<1> SUFFICES ASSUME OperationsInv, [MCNext]_mcVars PROVE OperationsInv'
  OBVIOUS
<1>1. /\ ScriptInv /\ ScriptLimits /\ TermInv /\ AlertInv /\ AlertLimits /\ LimiterInv /\ LimiterLimits
      /\ UserInv /\ UserLimits /\ BackupInv /\ (stage = "assets" => export.pc = "idle")
  BY DEF OperationsInv
<1>2. [ScriptNext]_scriptVars /\ [TermNext]_termVars /\ [AlertNext]_alertVars
  BY DEF mcVars, MCNext, Scripts, Terminals, Alerts, LoginStage, UserStage, Assets, Backup
<1>3. [LimiterNext]_limiterVars /\ [UserNext]_userVars
  BY DEF mcVars, MCNext, Scripts, Terminals, Alerts, LoginStage, UserStage, Assets, Backup
<1>4. [BackupNext]_allVars
  <2>1. CASE Assets
    BY <1>1, <2>1, AssetsWork DEF Assets
  <2>2. CASE ~Assets
    BY <2>2 DEF mcVars, MCNext, Scripts, Terminals, Alerts, LoginStage, UserStage, Backup
  <2> QED
    BY <2>1, <2>2
<1>5. stage' = stage /\ (stage = "assets" => export' = export)
  <2>1. stage' = stage
    BY DEF mcVars, MCNext, Scripts, Terminals, Alerts, LoginStage, UserStage, Assets, Backup
  <2>2. stage = "assets" => export' = export
    BY DEF mcVars, MCNext, Scripts, Terminals, Alerts, LoginStage, UserStage, Assets, Backup, allVars, backupVars
  <2> QED
    BY <2>1, <2>2
<1>6. ScriptInv' /\ ScriptLimits'
  BY <1>1, <1>2, ScriptInvStep, ScriptLimitsStep
<1>7. TermInv'
  BY <1>1, <1>2, TermInvStep
<1>8. AlertInv' /\ AlertLimits'
  <2>1. AlertInv'
    BY <1>1, <1>2, AlertInvStep
  <2>2. JobBounds' /\ RuleBounds'
    BY <1>1, <1>2, <2>1, JobsBounded, RulesBounded DEF AlertLimits
  <2> QED
    BY <2>1, <2>2 DEF AlertLimits
<1>9. LimiterInv' /\ LimiterLimits' /\ UserInv' /\ UserLimits'
  BY <1>1, <1>3, LimiterStep, LimiterLimitsStep, UserInvStep, UserLimitsStep
<1>10. BackupInv'
  BY <1>1, <1>4, BackupStep
<1>11. stage' = "assets" => export'.pc = "idle"
  BY <1>1, <1>5
<1> QED
  BY <1>6, <1>7, <1>8, <1>9, <1>10, <1>11 DEF OperationsInv

(* Every service keeps the types of its variables and the bounds it has: a  *)
(* job its servers' rows, a collection one sample, a login one failure and  *)
(* a session the entries of its calls, for all constants.                   *)
THEOREM OperationsTypesHold == MCSpec => []OperationsTypeOK
<1>1. OperationsInv => OperationsTypeOK
  <2>1. SUFFICES ASSUME OperationsInv PROVE OperationsTypeOK
    OBVIOUS
  <2>2. ScriptTypeOK /\ TermTypeOK /\ AlertTypeOK
    BY <2>1, ScriptTypes, TermTypes, AlertTypes DEF OperationsInv
  <2>3. LimiterTypeOK /\ UserTypeOK
    BY <2>1, LimiterTypes, UserTypes DEF OperationsInv
  <2>4. BackupTypeOK /\ InventoryTypeOK
    <3>1. BackupInv
      BY <2>1 DEF OperationsInv
    <3> QED
      BY <3>1, BackupTypes, InventoryTypes, BackupIs
  <2> QED
    BY <2>2, <2>3, <2>4 DEF OperationsTypeOK
<1> QED
  BY <1>1, OperationsInitially, OperationsStep, PTL DEF MCSpec
===============================================================================
