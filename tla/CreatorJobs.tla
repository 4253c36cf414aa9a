----------------------------- MODULE CreatorJobs -----------------------------
(***************************************************************************)
(* The creator's job pipeline: creator_job.py and the job routes of        *)
(* handlers/creator.py.  One worker thread takes job ids from a queue and  *)
(* runs the stages of the job in order; requests submit, retry, resume and *)
(* cancel jobs, and any of them may find a job that a former process has   *)
(* left running, and resume it.                                            *)
(*                                                                         *)
(* A job lives in job.json.  Who changes it loads it, works on the copy    *)
(* and writes the copy back, without a lock.  The queue, the cancel flags  *)
(* and the set of recovered jobs are in memory.                            *)
(***************************************************************************)
EXTENDS Integers, Sequences

CONSTANTS
  Jobs,
  N,            \* stages of a job
  Requests,     \* concurrent HTTP requests
  Calls,        \* what clients ask for, out of AllCalls
  None,
  MaxQueue,     \* _MAX_QUEUE_SIZE (50)
  MaxRestarts   \* bound: server restarts in a behaviour

AllCalls == {"create", "retry", "resume", "cancel"}
Stages == 1 .. N

ASSUME CreatorAssumption ==
  /\ N \in Nat \ {0} /\ MaxQueue \in Nat /\ MaxRestarts \in Nat
  /\ Calls \subseteq AllCalls
  /\ None \notin Stages

VARIABLES
  file,        \* job.json of each job
  queue,       \* _JOB_QUEUE
  cancelled,   \* _CANCEL_FLAGS
  recovered,   \* _RECOVERED_INTERRUPTED_JOBS
  worker,      \* the worker thread
  req,         \* the requests under way
  restarts,
  finished     \* history: the stages of a job that have completed and been saved

vars == <<file, queue, cancelled, recovered, worker, req, restarts, finished>>

Missing == [status |-> "missing"]
Final == {"completed", "failed", "cancelled"}
Job == [status : {"queued", "running"} \union Final,
        stage : [Stages -> {"unlisted", "queued", "running", "completed", "failed"}],
        resume_from : Stages \union {None}]

Idle == [pc |-> "idle"]
Taken == [pc : {"taken", "clear", "dead"}, job : Jobs]
Working == [pc : {"drop", "start", "next", "run", "fail"}, job : Jobs, copy : Job, i : 1 .. N + 1]
Calling == [pc : {"found", "submit"}, call : {"recover"} \union AllCalls, job : Jobs]
             \union [pc : {"save"}, call : {"recover"} \union AllCalls, job : Jobs, copy : Job]

TypeOK ==
  /\ file \in [Jobs -> Job \union {Missing}]
  /\ queue \in Seq(Jobs) /\ Len(queue) <= MaxQueue
  /\ cancelled \subseteq Jobs /\ recovered \subseteq Jobs
  /\ worker \in {Idle} \union Taken \union Working
  /\ req \in [Requests -> {Idle} \union Calling]
  /\ restarts \in 0 .. MaxRestarts
  /\ finished \in [Jobs -> SUBSET Stages]

Init ==
  /\ file = [j \in Jobs |-> Missing]
  /\ queue = << >>
  /\ cancelled = {} /\ recovered = {}
  /\ worker = Idle
  /\ req = [r \in Requests |-> Idle]
  /\ restarts = 0
  /\ finished = [j \in Jobs |-> {}]

-----------------------------------------------------------------------------
(* Jobs.                                                                   *)

\* create_job: no stages are listed yet.
NewJob == [status |-> "queued", stage |-> [k \in Stages |-> "unlisted"], resume_from |-> None]

\* _normalize_stage_list
Normalized(s) == [k \in Stages |-> IF s[k] = "unlisted" THEN "queued" ELSE s[k]]

First(S) == {k \in S : \A m \in S : k <= m}     \* at most one

\* What resume_job and retry_job make of a job: the stages in S are those to take up
\* again, the first of them is where to resume.
KeepsStatus(job, S, otherwise) ==        \* mutant: the status is not reset
  [job EXCEPT !.stage = [k \in Stages |-> IF k \in First(S) THEN "queued" ELSE job.stage[k]]]
QueuedAgain(job, S, otherwise) ==
  [job EXCEPT
    !.status = "queued",
    !.stage = [k \in Stages |-> IF k \in First(S) THEN "queued" ELSE job.stage[k]],
    !.resume_from = IF First(S) = {} THEN otherwise ELSE CHOOSE k \in First(S) : TRUE]

Retried(job) == QueuedAgain(job, {k \in Stages : job.stage[k] = "failed"}, job.resume_from)
Resumed(job) ==
  QueuedAgain(job, {k \in Stages : job.stage[k] \in {"failed", "running", "queued"}}, None)

\* The stages from i on that a run executes: what is completed is skipped, unless it
\* is where the job is to resume.
ToRunButLast(job, i) ==                  \* mutant: the last stage is never reached
  {k \in i .. N - 1 : job.stage[k] # "completed" \/ job.resume_from = k}
ToRun(job, i) == {k \in i .. N : job.stage[k] # "completed" \/ job.resume_from = k}

-----------------------------------------------------------------------------
(* Requests.                                                               *)

\* POST /creator/jobs/...: save_job of a new job.
Create(r, j) ==
  /\ "create" \in Calls
  /\ req[r] = Idle /\ file[j] = Missing
  /\ file' = [file EXCEPT ![j] = NewJob]
  /\ req' = [req EXCEPT ![r] = [pc |-> "submit", call |-> "create", job |-> j]]
  /\ UNCHANGED <<queue, cancelled, recovered, worker, restarts, finished>>

\* retry_job and resume_job load the job; a job to be retried must have failed.
Retry(r, j) ==
  /\ "retry" \in Calls
  /\ req[r] = Idle /\ file[j].status = "failed"
  /\ req' = [req EXCEPT ![r] =
       [pc |-> "save", call |-> "retry", job |-> j, copy |-> Retried(file[j])]]
  /\ UNCHANGED <<file, queue, cancelled, recovered, worker, restarts, finished>>

Resume(r, j) ==
  /\ "resume" \in Calls
  /\ req[r] = Idle /\ file[j] # Missing
  /\ req' = [req EXCEPT ![r] =
       [pc |-> "save", call |-> "resume", job |-> j, copy |-> Resumed(file[j])]]
  /\ UNCHANGED <<file, queue, cancelled, recovered, worker, restarts, finished>>

\* cancel_job
Cancel(j) ==
  /\ "cancel" \in Calls
  /\ cancelled' = cancelled \union {j}
  /\ UNCHANGED <<file, queue, recovered, worker, req, restarts, finished>>

\* _ensure_creator_runtime, which GET requests go through as well: a job whose file
\* says that it is running is resumed, once in the life of the process and under
\* _CREATOR_RUNTIME_LOCK.  Several such jobs are found one after the other.
Recovering == \E r \in Requests : req[r] # Idle /\ req[r].call = "recover"

Find(r, j) ==
  /\ req[r] = Idle /\ ~Recovering
  /\ file[j].status = "running" /\ j \notin recovered
  /\ req' = [req EXCEPT ![r] = [pc |-> "found", call |-> "recover", job |-> j]]
  /\ UNCHANGED <<file, queue, cancelled, recovered, worker, restarts, finished>>

LoadFound(r) ==
  /\ req[r].pc = "found"
  /\ req' = [req EXCEPT ![r] =
       [pc |-> "save", call |-> "recover", job |-> req[r].job, copy |-> Resumed(file[req[r].job])]]
  /\ UNCHANGED <<file, queue, cancelled, recovered, worker, restarts, finished>>

SaveCopy(r) ==
  /\ req[r].pc = "save"
  /\ file' = [file EXCEPT ![req[r].job] = req[r].copy]
  /\ req' = [req EXCEPT ![r] = [pc |-> "submit", call |-> req[r].call, job |-> req[r].job]]
  /\ UNCHANGED <<queue, cancelled, recovered, worker, restarts, finished>>

RoomForOneMore == Len(queue) <= MaxQueue     \* mutant: off by one
Room == Len(queue) < MaxQueue

\* submit_job; a job that finds the queue full stays behind, "queued" in its file.
Submit(r) ==
  LET q == req[r] IN
  /\ q.pc = "submit"
  /\ queue' = IF Room THEN Append(queue, q.job) ELSE queue
  /\ recovered' = IF q.call = "recover" THEN recovered \union {q.job} ELSE recovered
  /\ req' = [req EXCEPT ![r] = Idle]
  /\ UNCHANGED <<file, cancelled, worker, restarts, finished>>

-----------------------------------------------------------------------------
(* _worker_loop                                                            *)

Dequeue ==
  /\ worker = Idle /\ queue # << >>
  /\ worker' = [pc |-> "taken", job |-> Head(queue)]
  /\ queue' = Tail(queue)
  /\ UNCHANGED <<file, cancelled, recovered, req, restarts, finished>>

\* Cancelled while it was queued, or loaded to be executed.
Load ==
  LET j == worker.job
      c == file[j]
  IN /\ worker.pc = "taken"
     /\ worker' = IF j \in cancelled
          THEN [pc |-> "drop", job |-> j, copy |-> [c EXCEPT !.status = "cancelled"], i |-> 1]
          ELSE [pc |-> "start", job |-> j, i |-> 1,
                copy |-> [c EXCEPT !.status = "running", !.stage = Normalized(@)]]
     /\ UNCHANGED <<file, queue, cancelled, recovered, req, restarts, finished>>

Save(job) == file' = [file EXCEPT ![worker.job] = job]
Leave == worker' = [pc |-> "clear", job |-> worker.job]

Drop ==
  /\ worker.pc = "drop"
  /\ Save(worker.copy) /\ Leave
  /\ UNCHANGED <<queue, cancelled, recovered, req, restarts, finished>>

-----------------------------------------------------------------------------
(* _execute_job works on its copy and saves it at every step.              *)

Start ==
  /\ worker.pc = "start"
  /\ Save(worker.copy)
  /\ worker' = [worker EXCEPT !.pc = "next"]
  /\ UNCHANGED <<queue, cancelled, recovered, req, restarts, finished>>

\* The next stage to run; the cancel flag is looked at before.
BeginStage ==
  \E k \in First(ToRun(worker.copy, worker.i)) :
    LET c == [worker.copy EXCEPT !.stage[k] = "running"] IN
    /\ worker.job \notin cancelled
    /\ Save(c)
    /\ worker' = [worker EXCEPT !.pc = "run", !.i = k, !.copy = c]
    /\ UNCHANGED <<queue, cancelled, recovered, req, restarts, finished>>

StopCancelled ==
  /\ ToRun(worker.copy, worker.i) # {}
  /\ worker.job \in cancelled
  /\ Save([worker.copy EXCEPT !.status = "cancelled"]) /\ Leave
  /\ UNCHANGED <<queue, cancelled, recovered, req, restarts, finished>>

FinishJob ==
  /\ ToRun(worker.copy, worker.i) = {}
  /\ Save([worker.copy EXCEPT !.status = "completed"]) /\ Leave
  /\ UNCHANGED <<queue, cancelled, recovered, req, restarts, finished>>

GoesOn(ok) == "next"                         \* mutant: a failed stage is passed over
AfterStage(ok) == IF ok THEN "next" ELSE "fail"

\* The function of the stage returns or raises.
EndStage(ok) ==
  LET c == [worker.copy EXCEPT !.stage[worker.i] = IF ok THEN "completed" ELSE "failed"] IN
  /\ worker.pc = "run"
  /\ Save(c)
  /\ worker' = [worker EXCEPT !.pc = AfterStage(ok), !.i = @ + 1, !.copy = c]
  /\ finished' = IF ok THEN [finished EXCEPT ![worker.job] = @ \union {worker.i}] ELSE finished
  /\ UNCHANGED <<queue, cancelled, recovered, req, restarts>>

FailJob ==
  /\ worker.pc = "fail"
  /\ Save([worker.copy EXCEPT !.status = "failed"]) /\ Leave
  /\ UNCHANGED <<queue, cancelled, recovered, req, restarts, finished>>

\* _clear_cancel, whatever has become of the job since.
ClearCancel ==
  /\ worker.pc = "clear"
  /\ cancelled' = cancelled \ {worker.job}
  /\ worker' = Idle
  /\ UNCHANGED <<file, queue, recovered, req, restarts, finished>>

Worker ==
  \/ Dequeue \/ Load \/ Drop \/ Start
  \/ worker.pc = "next" /\ (BeginStage \/ StopCancelled \/ FinishJob)
  \/ \E ok \in BOOLEAN : EndStage(ok)
  \/ FailJob \/ ClearCancel

\* Nothing catches an exception of load_job, save_job or append_job_event (the disk, a
\* result of a stage that is no JSON): it ends the thread, and _WORKER_RUNNING, which
\* stays set, keeps start_worker from making another.  Before and after a write it may
\* be raised alike.  The cancel flag is cleared on the way out of _execute_job, and is
\* not for a job that was found cancelled when it was dequeued.
WorkerDies ==
  /\ worker.pc \in {"taken", "drop", "start", "next", "run", "fail", "clear"}
  /\ worker' = [pc |-> "dead", job |-> worker.job]
  /\ \/ worker.pc # "drop" /\ cancelled' = cancelled \ {worker.job}
     \/ worker.pc \in {"taken", "drop", "clear"} /\ UNCHANGED cancelled
  /\ UNCHANGED <<file, queue, recovered, req, restarts, finished>>

-----------------------------------------------------------------------------

\* A new process finds the files and nothing else.
Restart ==
  /\ restarts < MaxRestarts
  /\ restarts' = restarts + 1
  /\ queue' = << >> /\ cancelled' = {} /\ recovered' = {}
  /\ worker' = Idle
  /\ req' = [r \in Requests |-> Idle]
  /\ UNCHANGED <<file, finished>>

Next ==
  \/ \E r \in Requests :
       \/ \E j \in Jobs : Create(r, j) \/ Retry(r, j) \/ Resume(r, j) \/ Find(r, j)
       \/ LoadFound(r) \/ SaveCopy(r) \/ Submit(r)
  \/ \E j \in Jobs : Cancel(j)
  \/ Worker \/ WorkerDies
  \/ Restart

Spec == Init /\ [][Next]_vars

\* The worker thread runs, until it dies, and the functions of the stages return.
FairSpec == Spec /\ WF_vars(Worker)

-----------------------------------------------------------------------------
(* Safety.                                                                 *)

\* "Execute all stages of a job sequentially": a stage runs only when all stages
\* before it have completed at some time, whatever stale copies retries, resumptions
\* and recoveries have written over the job in the meantime.
InOrder ==
  worker.pc = "run" => 1 .. worker.i - 1 \subseteq finished[worker.job]

\* A job that its file calls completed has been through all its stages.
CompletedInFull ==
  \A j \in Jobs : file[j].status = "completed" => finished[j] = Stages

\* A file says "running" without a worker that is on the job, or has died on it, only
\* after a restart: this is what the recovery takes for an interruption.
RunningHasWorker ==
  restarts = 0 =>
    \A j \in Jobs : file[j].status = "running" => worker # Idle /\ worker.job = j

-----------------------------------------------------------------------------
(* Liveness.                                                               *)

\* A job that is in the queue comes to an end that its file tells, however often it
\* is written over meanwhile, unless the worker dies, on this job or another, or the
\* process ends before: checked for the last process of a behaviour, after which
\* MaxRestarts allows no other.
Queued(j) == \E i \in 1 .. Len(queue) : queue[i] = j

-----------------------------------------------------------------------------
(* What the code's own words say and the code does not keep.               *)

\* "Skip already completed stages (resume support)": no stage that has completed
\* and been saved begins again.
NoStageTwice ==
  [][worker.pc = "next" /\ worker'.pc = "run" => worker'.i \notin finished[worker.job]]_vars

=============================================================================
