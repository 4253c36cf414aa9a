-------------------------- MODULE CreatorJobsProofs --------------------------
(***************************************************************************)
(* Proofs about CreatorJobs, for any jobs, any number of stages, requests, *)
(* restarts and any size of the queue.                                     *)
(***************************************************************************)
EXTENDS CreatorJobs, TLAPS

\* What a copy of a job shows as completed has completed.
Honest(job, j) == \A k \in Stages : job.stage[k] = "completed" => k \in finished[j]

FilesAreHonest ==
  \A j \in Jobs : file[j] # Missing =>
    /\ Honest(file[j], j)
    /\ file[j].status = "completed" => Stages \subseteq finished[j]

\* Whoever has hold of a job found its file, and files do not go away.
HeldJobsExist ==
  /\ \A i \in 1 .. Len(queue) : file[queue[i]] # Missing
  /\ worker.pc # "idle" => file[worker.job] # Missing
  /\ \A r \in Requests : req[r].pc # "idle" => file[req[r].job] # Missing

\* The copies of requests are honest, and queued.
CopiesAreHonest ==
  \A r \in Requests : req[r].pc = "save" =>
    Honest(req[r].copy, req[r].job) /\ req[r].copy.status = "queued"

\* So is the worker's copy, and the stages behind it have completed.
Executing == {"next", "run", "fail"}
WorkerIsHonest ==
  /\ worker.pc \in {"drop", "start"} \union Executing => Honest(worker.copy, worker.job)
  /\ worker.pc = "drop" => worker.copy.status = "cancelled"
  /\ worker.pc \in {"start"} \union Executing => worker.copy.status = "running"
  /\ worker.pc = "start" => worker.i = 1
  /\ worker.pc \in {"next", "run"} => 1 .. worker.i - 1 \subseteq finished[worker.job]
  /\ worker.pc = "run" => worker.i \in Stages

RunningIsExecuted ==
  restarts = 0 =>
    \A j \in Jobs : file[j].status = "running" =>
      worker.pc \in Executing \union {"dead"} /\ worker.job = j

IInv ==
  /\ TypeOK /\ FilesAreHonest /\ HeldJobsExist /\ CopiesAreHonest
  /\ WorkerIsHonest /\ RunningIsExecuted

-----------------------------------------------------------------------------
(* Types.                                                                  *)

LEMMA WorkerTypes ==
  ASSUME TypeOK
  PROVE  /\ worker.pc \in {"idle", "taken", "clear", "dead", "drop", "start", "next", "run", "fail"}
         /\ worker.pc = "idle" => worker = Idle
         /\ worker.pc \in {"taken", "clear", "dead"} => worker \in Taken
         /\ worker.pc \in {"drop", "start", "next", "run", "fail"} => worker \in Working
         /\ worker.pc # "idle" => worker.job \in Jobs
BY DEF TypeOK, Idle, Taken, Working

LEMMA RequestTypes ==
  ASSUME TypeOK, NEW r \in Requests
  PROVE  /\ req[r].pc \in {"idle", "found", "save", "submit"}
         /\ req[r].pc = "idle" => req[r] = Idle
         /\ req[r].pc # "idle" => req[r] \in Calling /\ req[r].job \in Jobs
         /\ req[r].pc = "save" => req[r].copy \in Job
BY DEF TypeOK, Idle, Calling

LEMMA QueuedAgainType ==
  ASSUME NEW job \in Job, NEW S \in SUBSET Stages, NEW n \in Stages \union {None}
  PROVE  QueuedAgain(job, S, n) \in Job
<1>1. (IF First(S) = {} THEN n ELSE CHOOSE k \in First(S) : TRUE) \in Stages \union {None}
  BY DEF First
<1> QED
  BY <1>1 DEF QueuedAgain, Job

LEMMA QueuedAgainHonest ==
  ASSUME NEW job \in Job, NEW S, NEW n, NEW j \in Jobs, Honest(job, j)
  PROVE  Honest(QueuedAgain(job, S, n), j) /\ QueuedAgain(job, S, n).status = "queued"
BY DEF QueuedAgain, Honest, Job

\* Retried and Resumed are of that form.
LEMMA Reworked ==
  ASSUME NEW job \in Job, NEW j \in Jobs, Honest(job, j)
  PROVE  /\ Retried(job) \in Job /\ Resumed(job) \in Job
         /\ Honest(Retried(job), j) /\ Honest(Resumed(job), j)
         /\ Retried(job).status = "queued" /\ Resumed(job).status = "queued"
<1>1. job.resume_from \in Stages \union {None}
  BY DEF Job
<1> QED
  BY <1>1, QueuedAgainType, QueuedAgainHonest DEF Retried, Resumed

LEMMA NewJobType == NewJob \in Job
BY DEF NewJob, Job

LEMMA MissingIsNoJob == \A job \in Job : job # Missing
BY DEF Job, Missing

-----------------------------------------------------------------------------
(* The initial state and the steps of the requests.                        *)

LEMMA InitOK == Init => IInv
<1> SUFFICES ASSUME Init PROVE IInv
  OBVIOUS
<1>1. TypeOK
  BY CreatorAssumption DEF Init, TypeOK
<1> QED
  BY <1>1 DEF Init, IInv, FilesAreHonest, HeldJobsExist, CopiesAreHonest, WorkerIsHonest,
              RunningIsExecuted, Idle, Missing, Executing

LEMMA CreateOK ==
  ASSUME IInv, NEW r \in Requests, NEW j \in Jobs, Create(r, j)
  PROVE  IInv'
<1> USE DEF IInv, Create
<1>0. req'[r].pc = "submit" /\ req'[r].job = j /\ \A s \in Requests : s # r => req'[s] = req[s]
  BY DEF TypeOK
<1>1. file'[j] = NewJob /\ \A l \in Jobs : l # j => file'[l] = file[l]
  BY DEF TypeOK
<1>2. TypeOK'
  BY NewJobType DEF TypeOK, Calling, AllCalls
<1>3. FilesAreHonest'
  BY <1>1 DEF FilesAreHonest, Honest, NewJob, TypeOK
<1>4. HeldJobsExist'
  <2>1. \A l \in Jobs : file[l] # Missing => file'[l] # Missing
    BY <1>1
  <2>2. file'[j] # Missing
    BY <1>1, NewJobType, MissingIsNoJob
  <2>3. \A i \in 1 .. Len(queue) : queue[i] \in Jobs
    BY DEF TypeOK
  <2> QED
    BY <1>0, <2>1, <2>2, <2>3, WorkerTypes, RequestTypes DEF HeldJobsExist
<1>5. CopiesAreHonest'
  BY <1>0 DEF CopiesAreHonest, Honest
<1>6. WorkerIsHonest'
  BY DEF WorkerIsHonest, Honest
<1>7. RunningIsExecuted'
  BY <1>1 DEF RunningIsExecuted, NewJob
<1> QED
  BY <1>2, <1>3, <1>4, <1>5, <1>6, <1>7

\* A request takes a copy of a file into its hands.
LEMMA TakeCopy ==
  ASSUME IInv, NEW r \in Requests, NEW j \in Jobs, NEW copy \in Job,
         NEW call \in {"recover"} \union AllCalls,
         Honest(copy, j), copy.status = "queued", file[j] # Missing,
         req' = [req EXCEPT ![r] = [pc |-> "save", call |-> call, job |-> j, copy |-> copy]],
         UNCHANGED <<file, queue, cancelled, recovered, worker, restarts, finished>>
  PROVE  IInv'
<1> USE DEF IInv
<1>0. /\ req'[r].pc = "save" /\ req'[r].job = j /\ req'[r].copy = copy
      /\ \A s \in Requests : s # r => req'[s] = req[s]
  BY DEF TypeOK
<1>1. TypeOK'
  BY DEF TypeOK, Calling
<1>2. HeldJobsExist'
  BY <1>0 DEF HeldJobsExist
<1>3. CopiesAreHonest'
  BY <1>0 DEF CopiesAreHonest, Honest
<1> QED
  BY <1>1, <1>2, <1>3 DEF FilesAreHonest, WorkerIsHonest, RunningIsExecuted, Honest

LEMMA RetryOK ==
  ASSUME IInv, NEW r \in Requests, NEW j \in Jobs, Retry(r, j) \/ Resume(r, j)
  PROVE  IInv'
<1>1. file[j] # Missing
  BY DEF Retry, Resume, Missing
<1>2. file[j] \in Job /\ Honest(file[j], j)
  BY <1>1 DEF IInv, TypeOK, FilesAreHonest
<1>3. CASE Retry(r, j)
  BY <1>1, <1>2, <1>3, Reworked, TakeCopy DEF Retry, AllCalls
<1>4. CASE Resume(r, j)
  BY <1>1, <1>2, <1>4, Reworked, TakeCopy DEF Resume, AllCalls
<1> QED
  BY <1>3, <1>4

LEMMA LoadFoundOK ==
  ASSUME IInv, NEW r \in Requests, LoadFound(r)
  PROVE  IInv'
<1>1. req[r].job \in Jobs
  BY RequestTypes DEF IInv, LoadFound
<1>2. file[req[r].job] # Missing
  BY DEF IInv, LoadFound, HeldJobsExist
<1>3. file[req[r].job] \in Job /\ Honest(file[req[r].job], req[r].job)
  BY <1>1, <1>2 DEF IInv, TypeOK, FilesAreHonest
<1> QED
  BY <1>1, <1>2, <1>3, Reworked, TakeCopy DEF LoadFound

LEMMA FindOK ==
  ASSUME IInv, NEW r \in Requests, NEW j \in Jobs, Find(r, j)
  PROVE  IInv'
<1> USE DEF IInv, Find
<1>0. /\ req'[r].pc = "found" /\ req'[r].job = j
      /\ \A s \in Requests : s # r => req'[s] = req[s]
  BY DEF TypeOK
<1>1. TypeOK'
  BY DEF TypeOK, Calling
<1>2. HeldJobsExist'
  BY <1>0 DEF HeldJobsExist, Missing
<1>3. CopiesAreHonest'
  BY <1>0 DEF CopiesAreHonest, Honest
<1> QED
  BY <1>1, <1>2, <1>3 DEF FilesAreHonest, WorkerIsHonest, RunningIsExecuted, Honest

LEMMA SaveCopyOK ==
  ASSUME IInv, NEW r \in Requests, SaveCopy(r)
  PROVE  IInv'
<1> DEFINE j == req[r].job
<1> USE DEF IInv, SaveCopy
<1>0. j \in Jobs /\ req[r].copy \in Job /\ req[r].call \in {"recover"} \union AllCalls
  BY RequestTypes DEF TypeOK, Calling, Idle
<1>1. /\ req'[r].pc = "submit" /\ req'[r].job = j
      /\ \A s \in Requests : s # r => req'[s] = req[s]
  BY DEF TypeOK
<1>2. file'[j] = req[r].copy /\ \A l \in Jobs : l # j => file'[l] = file[l]
  BY <1>0 DEF TypeOK
<1>3. Honest(req[r].copy, j) /\ req[r].copy.status = "queued"
  BY DEF CopiesAreHonest
<1>4. TypeOK'
  BY <1>0 DEF TypeOK, Calling
<1>5. FilesAreHonest'
  BY <1>2, <1>3 DEF FilesAreHonest, Honest
<1>6. HeldJobsExist'
  <2>1. \A l \in Jobs : file[l] # Missing => file'[l] # Missing
    BY <1>0, <1>2, MissingIsNoJob
  <2>2. file[j] # Missing
    BY DEF HeldJobsExist
  <2>3. \A i \in 1 .. Len(queue) : queue[i] \in Jobs
    BY DEF TypeOK
  <2> QED
    BY <1>0, <1>1, <2>1, <2>2, <2>3, WorkerTypes, RequestTypes DEF HeldJobsExist
<1>7. CopiesAreHonest'
  BY <1>1 DEF CopiesAreHonest, Honest
<1>8. WorkerIsHonest'
  BY DEF WorkerIsHonest, Honest
<1>9. RunningIsExecuted'
  BY <1>2, <1>3 DEF RunningIsExecuted
<1> QED
  BY <1>4, <1>5, <1>6, <1>7, <1>8, <1>9

LEMMA SubmitOK ==
  ASSUME IInv, NEW r \in Requests, Submit(r)
  PROVE  IInv'
<1> USE DEF IInv, Submit
<1>0. req[r].job \in Jobs /\ file[req[r].job] # Missing
  BY RequestTypes DEF HeldJobsExist
<1>1. req'[r] = Idle /\ \A s \in Requests : s # r => req'[s] = req[s]
  BY DEF TypeOK
<1>2. queue' \in Seq(Jobs) /\ Len(queue') <= MaxQueue
  BY <1>0, CreatorAssumption DEF TypeOK, Room
<1>3. TypeOK'
  BY <1>0, <1>2 DEF TypeOK
<1>4. \A i \in 1 .. Len(queue') : file[queue'[i]] # Missing
  BY <1>0 DEF TypeOK, HeldJobsExist
<1>5. HeldJobsExist'
  BY <1>1, <1>4 DEF HeldJobsExist, Idle
<1>6. CopiesAreHonest'
  BY <1>1 DEF CopiesAreHonest, Honest, Idle
<1> QED
  BY <1>3, <1>5, <1>6 DEF FilesAreHonest, WorkerIsHonest, RunningIsExecuted, Honest

-----------------------------------------------------------------------------
(* The steps of the worker.                                                *)

LEMMA DequeueOK ==
  ASSUME IInv, Dequeue
  PROVE  IInv'
<1> USE DEF IInv, Dequeue
<1>1. /\ queue \in Seq(Jobs) /\ queue # << >> /\ Head(queue) = queue[1] /\ Head(queue) \in Jobs
      /\ Len(queue) \in Nat /\ 1 \in 1 .. Len(queue)
  BY DEF TypeOK
<1>2. /\ Tail(queue) \in Seq(Jobs) /\ Len(Tail(queue)) = Len(queue) - 1
      /\ \A i \in 1 .. Len(queue) - 1 : Tail(queue)[i] = queue[i + 1]
  BY <1>1
<1>3. worker' \in Taken
  BY <1>1 DEF Taken
<1>4. TypeOK'
  BY <1>2, <1>3, CreatorAssumption DEF TypeOK
<1>5. HeldJobsExist'
  BY <1>1, <1>2 DEF HeldJobsExist
<1>6. RunningIsExecuted'
  BY DEF RunningIsExecuted, Idle, Executing
<1> QED
  BY <1>4, <1>5, <1>6 DEF FilesAreHonest, CopiesAreHonest, WorkerIsHonest, Honest, Executing

LEMMA LoadOK ==
  ASSUME IInv, Load
  PROVE  IInv'
<1> DEFINE j == worker.job
<1> USE DEF IInv
<1>1. worker.pc = "taken" /\ worker \in Taken /\ j \in Jobs /\ file[j] # Missing
  BY WorkerTypes DEF Load, HeldJobsExist
<1>2. file[j] \in Job /\ Honest(file[j], j)
  BY <1>1 DEF TypeOK, FilesAreHonest
<1>3. UNCHANGED <<file, queue, cancelled, recovered, req, restarts, finished>>
  BY DEF Load
<1>4. \/ worker' = [pc |-> "drop", job |-> j, i |-> 1,
                    copy |-> [file[j] EXCEPT !.status = "cancelled"]]
      \/ worker' = [pc |-> "start", job |-> j, i |-> 1,
                    copy |-> [file[j] EXCEPT !.status = "running", !.stage = Normalized(@)]]
  BY DEF Load
<1>5. /\ [file[j] EXCEPT !.status = "cancelled"] \in Job
      /\ Honest([file[j] EXCEPT !.status = "cancelled"], j)
      /\ [file[j] EXCEPT !.status = "cancelled"].status = "cancelled"
  BY <1>2 DEF Job, Final, Honest
<1>6. /\ [file[j] EXCEPT !.status = "running", !.stage = Normalized(@)] \in Job
      /\ Honest([file[j] EXCEPT !.status = "running", !.stage = Normalized(@)], j)
      /\ [file[j] EXCEPT !.status = "running", !.stage = Normalized(@)].status = "running"
  BY <1>2 DEF Job, Normalized, Honest
<1>7. 1 \in 1 .. N + 1
  BY CreatorAssumption
<1>8. worker' \in Working /\ worker'.job = j /\ worker'.pc \in {"drop", "start"}
  BY <1>1, <1>4, <1>5, <1>6, <1>7 DEF Working
<1>9. TypeOK'
  BY <1>3, <1>8 DEF TypeOK
<1>10. WorkerIsHonest'
  <2>1. Honest(worker'.copy, j) /\ worker'.i = 1
    BY <1>4, <1>5, <1>6
  <2>2. Honest(worker.copy, worker.job)'
    BY <1>3, <1>8, <2>1 DEF Honest
  <2>3. worker'.pc = "drop" => worker'.copy.status = "cancelled"
    BY <1>2, <1>4 DEF Job
  <2>4. worker'.pc = "start" => worker'.copy.status = "running"
    <3>1. CASE worker'.pc = "start"
      <4>1. worker'.copy = [file[j] EXCEPT !.status = "running", !.stage = Normalized(@)]
        BY <1>4, <3>1
      <4> QED
        BY <1>6, <4>1
    <3> QED
      BY <3>1
  <2> QED
    BY <1>8, <2>1, <2>2, <2>3, <2>4 DEF WorkerIsHonest, Executing
<1>11. HeldJobsExist'
  BY <1>1, <1>3, <1>8 DEF HeldJobsExist
<1>12. RunningIsExecuted'
  BY <1>1, <1>3 DEF RunningIsExecuted, Executing
<1> QED
  BY <1>3, <1>9, <1>10, <1>11, <1>12 DEF FilesAreHonest, CopiesAreHonest, Honest

\* What every step of the worker does to the files, whatever it does to itself.
LEMMA SaveOK ==
  ASSUME IInv, worker \in Working, NEW job \in Job, Save(job),
         UNCHANGED <<queue, cancelled, recovered, req, restarts>>,
         finished' \in [Jobs -> SUBSET Stages],
         \A j \in Jobs : finished[j] \subseteq finished'[j],
         \A k \in Stages : job.stage[k] = "completed" => k \in finished'[worker.job],
         job.status = "completed" => Stages \subseteq finished'[worker.job],
         worker' \in Taken \union Working, worker'.job = worker.job,
         WorkerIsHonest',
         job.status = "running" => worker'.pc \in Executing
  PROVE  IInv'
<1> DEFINE j == worker.job
<1> USE DEF IInv
<1>1. worker.pc # "idle" /\ j \in Jobs
  BY DEF Working
<1>2. file'[j] = job /\ \A l \in Jobs : l # j => file'[l] = file[l]
  BY <1>1 DEF Save, TypeOK
<1>3. TypeOK'
  BY <1>1 DEF TypeOK, Save
<1>4. FilesAreHonest'
  <2> SUFFICES ASSUME NEW l \in Jobs, file'[l] # Missing
               PROVE  /\ Honest(file[l], l)'
                      /\ file'[l].status = "completed" => Stages \subseteq finished'[l]
    BY DEF FilesAreHonest
  <2>1. CASE l = j
    BY <1>2, <2>1 DEF Honest
  <2>2. CASE l # j
    BY <1>2, <2>2 DEF FilesAreHonest, Honest
  <2> QED
    BY <2>1, <2>2
<1>5. HeldJobsExist'
  <2>1. \A l \in Jobs : file[l] # Missing => file'[l] # Missing
    BY <1>2, MissingIsNoJob
  <2>2. \A i \in 1 .. Len(queue) : queue[i] \in Jobs
    BY DEF TypeOK
  <2> QED
    BY <1>1, <1>2, <2>1, <2>2, RequestTypes, MissingIsNoJob DEF HeldJobsExist
<1>6. CopiesAreHonest'
  BY RequestTypes DEF CopiesAreHonest, Honest
<1>7. RunningIsExecuted'
  BY <1>1, <1>2 DEF RunningIsExecuted
<1> QED
  BY <1>3, <1>4, <1>5, <1>6, <1>7

\* The worker is done with the job: what it leaves in the file.
LEMMA LeaveOK ==
  ASSUME IInv, worker \in Working, NEW job \in Job, Save(job), Leave,
         UNCHANGED <<queue, cancelled, recovered, req, restarts, finished>>,
         Honest(job, worker.job), job.status \in Final,
         job.status = "completed" => Stages \subseteq finished[worker.job]
  PROVE  IInv'
<1>1. worker' \in Taken /\ worker'.job = worker.job /\ worker'.pc = "clear"
  BY DEF Leave, Taken, Working
<1>2. WorkerIsHonest'
  BY <1>1 DEF WorkerIsHonest, Executing
<1>3. \A k \in Stages : job.stage[k] = "completed" => k \in finished'[worker.job]
  BY DEF Honest
<1>4. finished' \in [Jobs -> SUBSET Stages] /\ \A j \in Jobs : finished[j] \subseteq finished'[j]
  BY DEF IInv, TypeOK
<1> QED
  BY <1>1, <1>2, <1>3, <1>4, SaveOK DEF Final

LEMMA DropOK ==
  ASSUME IInv, Drop
  PROVE  IInv'
<1>1. worker \in Working /\ worker.copy \in Job
  BY WorkerTypes DEF IInv, Drop, Working
<1>2. Honest(worker.copy, worker.job) /\ worker.copy.status = "cancelled"
  BY DEF IInv, Drop, WorkerIsHonest
<1> QED
  BY <1>1, <1>2, LeaveOK DEF Drop, Final

LEMMA StartOK ==
  ASSUME IInv, Start
  PROVE  IInv'
<1>1. worker \in Working /\ worker.copy \in Job
  BY WorkerTypes DEF IInv, Start, Working
<1>2. /\ worker' \in Working /\ worker'.job = worker.job /\ worker'.copy = worker.copy
      /\ worker'.pc = "next" /\ worker'.i = worker.i
  BY <1>1 DEF Start, Working
<1>3. Honest(worker.copy, worker.job) /\ worker.copy.status = "running" /\ worker.i = 1
  BY DEF IInv, Start, WorkerIsHonest, Executing
<1>4. UNCHANGED finished
  BY DEF Start
<1>5. WorkerIsHonest'
  BY <1>2, <1>3, <1>4 DEF WorkerIsHonest, Honest, Executing
<1>6. \A k \in Stages : worker.copy.stage[k] = "completed" => k \in finished'[worker.job]
  BY <1>3, <1>4 DEF Honest
<1>7. finished' \in [Jobs -> SUBSET Stages] /\ \A j \in Jobs : finished[j] \subseteq finished'[j]
  BY <1>4 DEF IInv, TypeOK
<1> HIDE DEF Honest
<1> QED
  BY <1>1, <1>2, <1>3, <1>5, <1>6, <1>7, SaveOK DEF Start, Executing

\* What the next stage leaves out has completed.
LEMMA SkippedIsFinished ==
  ASSUME IInv, worker.pc = "next", NEW k \in Nat, k <= N + 1,
         \A m \in ToRun(worker.copy, worker.i) : k <= m
  PROVE  1 .. k - 1 \subseteq finished[worker.job]
<1>1. worker \in Working /\ worker.i \in Nat
  BY WorkerTypes, CreatorAssumption DEF IInv, Working
<1>2. Honest(worker.copy, worker.job) /\ 1 .. worker.i - 1 \subseteq finished[worker.job]
  BY DEF IInv, WorkerIsHonest, Executing
<1> SUFFICES ASSUME NEW m \in 1 .. k - 1 PROVE m \in finished[worker.job]
  OBVIOUS
<1>3. m \in Stages
  BY CreatorAssumption DEF Stages
<1>4. CASE m < worker.i
  BY <1>1, <1>2, <1>4
<1>5. CASE m >= worker.i
  <2>1. m \notin ToRun(worker.copy, worker.i)
    OBVIOUS
  <2>2. m \in worker.i .. N
    BY <1>1, <1>3, <1>5, CreatorAssumption DEF Stages
  <2>3. worker.copy.stage[m] = "completed"
    BY <2>1, <2>2 DEF ToRun
  <2> QED
    BY <1>2, <1>3, <2>3 DEF Honest
<1> QED
  BY <1>1, <1>4, <1>5, CreatorAssumption

LEMMA BeginStageOK ==
  ASSUME IInv, worker.pc = "next", BeginStage
  PROVE  IInv'
<1>1. PICK k \in First(ToRun(worker.copy, worker.i)) :
        LET c == [worker.copy EXCEPT !.stage[k] = "running"] IN
        /\ Save(c)
        /\ worker' = [worker EXCEPT !.pc = "run", !.i = k, !.copy = c]
        /\ UNCHANGED <<queue, cancelled, recovered, req, restarts, finished>>
  BY DEF BeginStage
<1> DEFINE c == [worker.copy EXCEPT !.stage[k] = "running"]
<1>2. worker \in Working /\ worker.copy \in Job /\ worker.i \in 1 .. N + 1 /\ worker.job \in Jobs
  BY WorkerTypes DEF IInv, Working
<1>3. k \in Stages /\ \A m \in ToRun(worker.copy, worker.i) : k <= m
  BY <1>2, CreatorAssumption DEF First, ToRun, Stages
<1>4. 1 .. k - 1 \subseteq finished[worker.job]
  BY <1>3, SkippedIsFinished, CreatorAssumption DEF Stages
<1>5. Honest(worker.copy, worker.job) /\ worker.copy.status = "running"
  BY DEF IInv, WorkerIsHonest, Executing
<1>6. c \in Job /\ c.status = "running" /\ Honest(c, worker.job)
  BY <1>2, <1>5 DEF Job, Honest
<1>7. k \in 1 .. N + 1
  BY <1>3, CreatorAssumption DEF Stages
<1>8. /\ worker' \in Working /\ worker'.job = worker.job /\ worker'.copy = c
      /\ worker'.pc = "run" /\ worker'.i = k
  BY <1>1, <1>2, <1>6, <1>7 DEF Working
<1> HIDE DEF c
<1>9. WorkerIsHonest'
  BY <1>1, <1>3, <1>4, <1>6, <1>8 DEF WorkerIsHonest, Honest, Executing
<1>10. \A m \in Stages : c.stage[m] = "completed" => m \in finished'[worker.job]
  BY <1>1, <1>6 DEF Honest
<1>11. finished' \in [Jobs -> SUBSET Stages] /\ \A j \in Jobs : finished[j] \subseteq finished'[j]
  BY <1>1 DEF IInv, TypeOK
<1>12. Save(c) /\ UNCHANGED <<queue, cancelled, recovered, req, restarts>>
  BY <1>1 DEF c
<1> QED
  BY <1>2, <1>6, <1>8, <1>9, <1>10, <1>11, <1>12, SaveOK DEF Executing

LEMMA StopCancelledOK ==
  ASSUME IInv, worker.pc = "next", StopCancelled
  PROVE  IInv'
<1> DEFINE c == [worker.copy EXCEPT !.status = "cancelled"]
<1>1. worker \in Working /\ worker.copy \in Job
  BY WorkerTypes DEF IInv, Working
<1>2. Honest(worker.copy, worker.job)
  BY DEF IInv, WorkerIsHonest, Executing
<1>3. c \in Job /\ c.status = "cancelled" /\ Honest(c, worker.job)
  BY <1>1, <1>2 DEF Job, Final, Honest
<1>4. /\ Save(c) /\ Leave
      /\ UNCHANGED <<queue, cancelled, recovered, req, restarts, finished>>
  BY DEF StopCancelled
<1> HIDE DEF c
<1> QED
  BY <1>1, <1>3, <1>4, LeaveOK DEF Final

LEMMA FinishJobOK ==
  ASSUME IInv, worker.pc = "next", FinishJob
  PROVE  IInv'
<1> DEFINE c == [worker.copy EXCEPT !.status = "completed"]
<1>1. worker \in Working /\ worker.copy \in Job
  BY WorkerTypes DEF IInv, Working
<1>2. Honest(worker.copy, worker.job)
  BY DEF IInv, WorkerIsHonest, Executing
<1>3. c \in Job /\ c.status = "completed" /\ Honest(c, worker.job)
  BY <1>1, <1>2 DEF Job, Final, Honest
<1>4. /\ Save(c) /\ Leave
      /\ UNCHANGED <<queue, cancelled, recovered, req, restarts, finished>>
  BY DEF FinishJob
<1>5. 1 .. (N + 1) - 1 \subseteq finished[worker.job]
  BY SkippedIsFinished, CreatorAssumption DEF FinishJob
<1>6. Stages \subseteq finished[worker.job]
  BY <1>5, CreatorAssumption DEF Stages
<1> HIDE DEF c
<1> QED
  BY <1>1, <1>3, <1>4, <1>6, LeaveOK DEF Final

LEMMA EndStageOK ==
  ASSUME IInv, NEW ok \in BOOLEAN, EndStage(ok)
  PROVE  IInv'
<1> DEFINE c == [worker.copy EXCEPT !.stage[worker.i] = IF ok THEN "completed" ELSE "failed"]
<1>1. worker \in Working /\ worker.copy \in Job /\ worker.job \in Jobs /\ worker.pc = "run"
  BY WorkerTypes DEF IInv, EndStage, Working
<1>2. /\ Honest(worker.copy, worker.job) /\ worker.copy.status = "running"
      /\ 1 .. worker.i - 1 \subseteq finished[worker.job] /\ worker.i \in Stages
  BY <1>1 DEF IInv, WorkerIsHonest, Executing
<1>3. /\ Save(c) /\ UNCHANGED <<queue, cancelled, recovered, req, restarts>>
      /\ worker' = [worker EXCEPT !.pc = AfterStage(ok), !.i = @ + 1, !.copy = c]
      /\ finished' = IF ok THEN [finished EXCEPT ![worker.job] = @ \union {worker.i}] ELSE finished
  BY DEF EndStage
<1>4. /\ finished' \in [Jobs -> SUBSET Stages] /\ \A j \in Jobs : finished[j] \subseteq finished'[j]
      /\ ok => worker.i \in finished'[worker.job]
  BY <1>1, <1>2, <1>3 DEF IInv, TypeOK
<1>5. c \in Job /\ c.status = "running"
  BY <1>1, <1>2 DEF Job
<1>6. \A k \in Stages : c.stage[k] = "completed" => k \in finished'[worker.job]
  BY <1>1, <1>2, <1>4 DEF Job, Honest
<1>7. worker.i + 1 \in 1 .. N + 1 /\ worker.i \in Nat
  BY <1>2, CreatorAssumption DEF Stages
<1>8. /\ worker' \in Working /\ worker'.job = worker.job /\ worker'.copy = c
      /\ worker'.pc = AfterStage(ok) /\ worker'.i = worker.i + 1
  BY <1>1, <1>3, <1>5, <1>7 DEF Working, AfterStage
<1> HIDE DEF c
<1>9. worker'.pc \in {"next", "fail"} /\ (worker'.pc = "next" => ok)
  BY <1>8 DEF AfterStage
<1>10. worker'.pc = "next" => 1 .. worker'.i - 1 \subseteq finished'[worker'.job]
  BY <1>1, <1>2, <1>4, <1>7, <1>8, <1>9
<1>11. WorkerIsHonest'
  BY <1>5, <1>6, <1>8, <1>9, <1>10 DEF WorkerIsHonest, Honest, Executing
<1> QED
  BY <1>1, <1>3, <1>4, <1>5, <1>6, <1>8, <1>9, <1>11, SaveOK DEF Executing

LEMMA FailJobOK ==
  ASSUME IInv, FailJob
  PROVE  IInv'
<1> DEFINE c == [worker.copy EXCEPT !.status = "failed"]
<1>1. worker \in Working /\ worker.copy \in Job
  BY WorkerTypes DEF IInv, FailJob, Working
<1>2. Honest(worker.copy, worker.job)
  BY DEF IInv, FailJob, WorkerIsHonest, Executing
<1>3. c \in Job /\ c.status = "failed" /\ Honest(c, worker.job)
  BY <1>1, <1>2 DEF Job, Final, Honest
<1>4. /\ Save(c) /\ Leave
      /\ UNCHANGED <<queue, cancelled, recovered, req, restarts, finished>>
  BY DEF FailJob
<1> HIDE DEF c
<1> QED
  BY <1>1, <1>3, <1>4, LeaveOK DEF Final

LEMMA ClearCancelOK ==
  ASSUME IInv, ClearCancel
  PROVE  IInv'
<1> USE DEF IInv, ClearCancel
<1>1. TypeOK'
  BY DEF TypeOK
<1>2. HeldJobsExist'
  BY DEF HeldJobsExist, Idle
<1>3. RunningIsExecuted'
  BY DEF RunningIsExecuted, Executing
<1> QED
  BY <1>1, <1>2, <1>3 DEF FilesAreHonest, CopiesAreHonest, WorkerIsHonest, Honest, Idle, Executing

\* The worker that died on a job may have left it running.
LEMMA WorkerDiesOK ==
  ASSUME IInv, WorkerDies
  PROVE  IInv'
<1> USE DEF IInv
<1>1. /\ worker.pc \in {"taken", "drop", "start", "next", "run", "fail", "clear"}
      /\ worker' = [pc |-> "dead", job |-> worker.job]
      /\ cancelled' \subseteq cancelled
      /\ UNCHANGED <<file, queue, recovered, req, restarts, finished>>
  BY DEF WorkerDies
<1>2. worker' \in Taken /\ worker'.job = worker.job /\ worker'.pc = "dead"
  BY <1>1, WorkerTypes DEF Taken
<1>3. TypeOK'
  BY <1>1, <1>2 DEF TypeOK
<1>4. HeldJobsExist'
  BY <1>1, <1>2 DEF HeldJobsExist
<1>5. WorkerIsHonest'
  BY <1>2 DEF WorkerIsHonest, Executing
<1>6. RunningIsExecuted'
  BY <1>1, <1>2 DEF RunningIsExecuted
<1> QED
  BY <1>1, <1>3, <1>4, <1>5, <1>6 DEF FilesAreHonest, CopiesAreHonest, Honest

-----------------------------------------------------------------------------

LEMMA CancelOK ==
  ASSUME IInv, NEW j \in Jobs, Cancel(j)
  PROVE  IInv'
BY DEF IInv, Cancel, TypeOK, FilesAreHonest, HeldJobsExist, CopiesAreHonest, WorkerIsHonest,
       RunningIsExecuted, Honest

LEMMA RestartOK ==
  ASSUME IInv, Restart
  PROVE  IInv'
<1> USE DEF IInv, Restart
<1>1. TypeOK'
  BY CreatorAssumption DEF TypeOK
<1>2. HeldJobsExist'
  BY DEF HeldJobsExist, Idle
<1>3. restarts' # 0
  BY DEF TypeOK
<1>4. RunningIsExecuted'
  BY <1>3 DEF RunningIsExecuted
<1> QED
  BY <1>1, <1>2, <1>4 DEF FilesAreHonest, CopiesAreHonest, WorkerIsHonest, Honest, Idle, Executing

LEMMA StepOK == IInv /\ [Next]_vars => IInv'
<1> SUFFICES ASSUME IInv, [Next]_vars PROVE IInv'
  OBVIOUS
<1>1. CASE UNCHANGED vars
  BY <1>1 DEF vars, IInv, TypeOK, FilesAreHonest, HeldJobsExist, CopiesAreHonest,
              WorkerIsHonest, RunningIsExecuted, Honest
<1>2. ASSUME NEW r \in Requests, NEW j \in Jobs,
             Create(r, j) \/ Retry(r, j) \/ Resume(r, j) \/ Find(r, j)
      PROVE  IInv'
  BY <1>2, CreateOK, RetryOK, FindOK
<1>3. ASSUME NEW r \in Requests, LoadFound(r) \/ SaveCopy(r) \/ Submit(r)
      PROVE  IInv'
  BY <1>3, LoadFoundOK, SaveCopyOK, SubmitOK
<1>4. CASE \E j \in Jobs : Cancel(j)
  BY <1>4, CancelOK
<1>5. CASE Worker
  BY <1>5, DequeueOK, LoadOK, DropOK, StartOK, BeginStageOK, StopCancelledOK, FinishJobOK,
     EndStageOK, FailJobOK, ClearCancelOK DEF Worker
<1>6. CASE Restart
  BY <1>6, RestartOK
<1>7. CASE WorkerDies
  BY <1>7, WorkerDiesOK
<1> QED
  BY <1>1, <1>2, <1>3, <1>4, <1>5, <1>6, <1>7 DEF Next

\* The inductive invariant holds always: every copy of a job that anybody has in
\* hand, and every file, shows as completed only what has completed.
THEOREM Invariance == Spec => []IInv
BY InitOK, StepOK, PTL DEF Spec

\* The files, the queue, the worker and the requests of creator_job.py are always
\* well typed, and the queue never exceeds _MAX_QUEUE_SIZE.
THEOREM TypeCorrect == Spec => []TypeOK
<1>1. IInv => TypeOK
  BY DEF IInv
<1> QED
  BY <1>1, Invariance, PTL

\* _execute_job runs a stage only on top of completed ones, whatever retry_job,
\* resume_job and the recovery write over the job in the meantime.
THEOREM StagesInOrder == Spec => []InOrder
<1>1. IInv => InOrder
  BY DEF IInv, InOrder, WorkerIsHonest
<1> QED
  BY <1>1, Invariance, PTL

\* A job file says "completed" only of jobs that went through all their stages.
THEOREM CompletedJobsAreComplete == Spec => []CompletedInFull
<1>1. IInv => CompletedInFull
  <2> SUFFICES ASSUME IInv, NEW j \in Jobs, file[j].status = "completed"
               PROVE  finished[j] = Stages
    BY DEF CompletedInFull
  <2>1. finished[j] \subseteq Stages
    BY DEF IInv, TypeOK
  <2>2. Stages \subseteq finished[j]
    BY DEF IInv, FilesAreHonest, Missing
  <2> QED
    BY <2>1, <2>2
<1> QED
  BY <1>1, Invariance, PTL

\* Before the first restart find_interrupted_jobs finds no job but the worker's, or the
\* one that the worker has died on.
THEOREM RunningJobsAreWorked == Spec => []RunningHasWorker
<1>1. IInv => RunningHasWorker
  BY DEF IInv, RunningHasWorker, RunningIsExecuted, Executing, Idle
<1> QED
  BY <1>1, Invariance, PTL

=============================================================================
