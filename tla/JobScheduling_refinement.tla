---------------------- MODULE JobScheduling_refinement ----------------------
(***************************************************************************)
(* JobScheduling implements JobLifecycle: every step of the two threads,   *)
(* of a run or of the environment is a step of the life of some job        *)
(* records, or changes nothing that the records' life is about.            *)
(*                                                                         *)
(* And each run of it is a ConversionSession: whatever the web thread, the *)
(* other runs and the faults do, one run takes its phases in the order     *)
(* TCPConnectionHandler.run gives them. One step more than IInv is needed: *)
(* a run whose outcome is recorded is the one whose last message is being  *)
(* sent, so that its outcome is notif.type until its slot is free          *)
(* (OverIsSent).                                                           *)
(***************************************************************************)
EXTENDS JobScheduling_proofs

\* The step leaves every job's state and attempt alone.
LEMMA Stutter ==
  ASSUME \A j \in Jobs : job'[j].state = job[j].state,
         \A j \in Jobs : Attempt(j)' = Attempt(j)
  PROVE  UNCHANGED Lifecycle!vars
BY DEF Lifecycle!vars

\* A step that leaves runs, history and the web thread's scheduling alone
\* leaves every attempt alone.
LEMMA SameAttempts ==
  ASSUME \A r \in Runs : /\ IsActive(r)' <=> IsActive(r)
                         /\ IsActive(r) => run'[r].job = run[r].job,
         \A j \in Jobs : BeingScheduled(j)' <=> BeingScheduled(j),
         abandoned' = abandoned
  PROVE  \A j \in Jobs : Attempt(j)' = Attempt(j)
<1>1. \A j \in Jobs : ActiveRunsOf(j)' = ActiveRunsOf(j)
  BY DEF ActiveRunsOf
<1> QED
  BY <1>1 DEF Attempt

\* The attempts of the jobs in lost end without a word, the others go on.
LEMMA LoseAttempts ==
  ASSUME NEW lost \in SUBSET Jobs, lost # {},
         UNCHANGED job,
         \A j \in lost : Attempt(j) \in {"scheduling", "live"} /\ Attempt(j)' = "lost",
         \A j \in Jobs \ lost : Attempt(j)' = Attempt(j)
  PROVE  Lifecycle!Next
<1> DEFINE a  == [j \in Jobs |-> Attempt(j)]
           a1 == [j \in Jobs |-> Attempt(j)']
<1>1. a1 = [j \in Jobs |-> IF j \in lost THEN "lost" ELSE a[j]]
  OBVIOUS
<1>2. \A j \in lost : a[j] \in {"scheduling", "live"}
  OBVIOUS
<1>3. Lifecycle!Lose
  BY <1>1, <1>2 DEF Lifecycle!Lose
<1> QED
  BY <1>3 DEF Lifecycle!Next

LEMMA LifecycleInit == Init => Lifecycle!Init
<1> SUFFICES ASSUME Init PROVE Lifecycle!Init
  OBVIOUS
<1>1. \A j \in Jobs : job[j].state = "NONE" /\ Attempt(j) = "none"
  BY DEF Init, NoJob, Attempt, ActiveRunsOf, IsActive, ActivePhases, NoRun, BeingScheduled,
         WebIdle
<1> QED
  BY <1>1 DEF Lifecycle!Init

------------------------------------------------------------------------------
(* The web thread *)

\* Everything the web thread does but saving READY, enqueuing and failing.
LEMMA WebStutters ==
  ASSUME IInv,
         \/ \E c \in Clients, j \in Jobs, force \in BOOLEAN : Request(c, j, force)
         \/ CountJob \/ RejectRequest \/ AssignJob \/ LookupJob \/ AnswerFromCache
         \/ ReadListeners \/ WriteListeners
  PROVE  UNCHANGED Lifecycle!vars
<1>1. UNCHANGED <<job, run, abandoned>>
  BY DEF Request, CountJob, RejectRequest, AssignJob, LookupJob, AnswerFromCache,
         ReadListeners, WriteListeners
<1>2. web \in WebLocals
  BY DEF IInv, TypeOK
<1>3. \A j \in Jobs : BeingScheduled(j)' <=> BeingScheduled(j)
  <2> SUFFICES ASSUME NEW j \in Jobs PROVE BeingScheduled(j)' <=> BeingScheduled(j)
    OBVIOUS
  <2>1. ASSUME NEW c \in Clients, NEW k \in Jobs, NEW force \in BOOLEAN, Request(c, k, force)
        PROVE  BeingScheduled(j)' <=> BeingScheduled(j)
    BY <2>1 DEF Request, BeingScheduled, WebIdle
  <2>2. CASE CountJob
    <3>1. web'.pc = web.pc /\ web.pc = "count"
      BY <1>2, <2>2 DEF CountJob, WebLocals
    <3> QED BY <3>1 DEF BeingScheduled
  <2>3. CASE RejectRequest \/ AssignJob
    BY <1>2, <2>3 DEF RejectRequest, AssignJob, BeingScheduled, WebIdle, WebLocals
  <2>4. CASE LookupJob \/ AnswerFromCache
    BY <1>2, <2>4 DEF LookupJob, Decision, AnswerFromCache, BeingScheduled, WebIdle, WebLocals
  <2>5. CASE ReadListeners
    BY <1>2, <2>5 DEF ReadListeners, BeingScheduled, WebIdle, WebLocals
  <2>6. CASE WriteListeners
    BY <1>2, <2>6 DEF WriteListeners, BeingScheduled, WebIdle, WebLocals
  <2> QED BY <2>1, <2>2, <2>3, <2>4, <2>5, <2>6
<1>4. \A j \in Jobs : Attempt(j)' = Attempt(j)
  BY <1>1, <1>3, SameAttempts DEF IsActive
<1> QED
  BY <1>1, <1>4, Stutter

\* Saving READY begins an attempt: the record was not in progress, and no run
\* of the job was left.
LEMMA SaveReadyJobSchedules == ASSUME IInv, SaveReadyJob PROVE Lifecycle!Next
<1> PICK j \in Jobs : j = web.job
  BY DEF IInv, SaveReadyJob, Owned
<1>1. /\ job[j] \in JobRecords /\ ~IsInProgress(job[j])
      /\ \A r \in Runs : IsActive(r) => run[r].job # j
  BY DEF IInv, SaveReadyJob, WebReadsAreGood, ActiveJobs, TypeOK
<1>2. /\ job' = [job EXCEPT ![j] = ReadyJob] /\ web'.pc = "listenRead" /\ web'.job = j
      /\ web.pc = "save" /\ UNCHANGED <<run, abandoned>>
  BY DEF SaveReadyJob, IInv, TypeOK, WebLocals
<1>3. job[j].state \in Lifecycle!Closed
  BY <1>1 DEF Lifecycle!Closed, JobRecords, JobStates, IsInProgress
<1>4. \A k \in Jobs : job'[k].state = IF k = j THEN "READY" ELSE job[k].state
  BY <1>2 DEF IInv, TypeOK, ReadyJob
<1>5. \A k \in Jobs : ActiveRunsOf(k)' = ActiveRunsOf(k)
  BY <1>2 DEF ActiveRunsOf, IsActive
<1>6. Attempt(j)' = "scheduling"
  BY <1>1, <1>2, <1>5 DEF Attempt, ActiveRunsOf, BeingScheduled
<1>7. \A k \in Jobs \ {j} : Attempt(k)' = Attempt(k)
  BY <1>2, <1>5 DEF Attempt, BeingScheduled
<1>8. Lifecycle!Schedule(j)
  <2>1. [k \in Jobs |-> job'[k].state] = [[k \in Jobs |-> job[k].state] EXCEPT ![j] = "READY"]
    BY <1>4
  <2>2. [k \in Jobs |-> Attempt(k)'] = [[k \in Jobs |-> Attempt(k)] EXCEPT ![j] = "scheduling"]
    BY <1>6, <1>7
  <2> QED BY <1>3, <2>1, <2>2 DEF Lifecycle!Schedule
<1> QED
  BY <1>8 DEF Lifecycle!Next

\* Enqueuing launches the attempt.
LEMMA EnqueueLaunches == ASSUME IInv, Enqueue PROVE Lifecycle!Next
<1> PICK j \in Jobs : j = web.job
  BY DEF IInv, Enqueue, Owned
<1>1. PICK r \in Runs :
        /\ run[r] \in {NoRun, LostRun}
        /\ run' = [run EXCEPT ![r] = [phase |-> "queued", job |-> j, client |-> web.client]]
  BY DEF Enqueue
<1>2. /\ web.pc = "enqueue" /\ web' = WebIdle /\ UNCHANGED <<job, abandoned>>
      /\ \A s \in Runs : IsActive(s) => run[s].job # j
  BY DEF Enqueue, IInv, WebReadsAreGood
<1>3. /\ ~IsActive(r) /\ IsActive(r)' /\ run'[r].job = j
      /\ \A s \in Runs \ {r} : run'[s] = run[s] /\ (IsActive(s)' <=> IsActive(s))
  BY <1>1 DEF IInv, TypeOK, IsActive, NoRun, LostRun, ActivePhases
<1>4. Attempt(j) = "scheduling"
  BY <1>2 DEF Attempt, ActiveRunsOf, BeingScheduled
<1>5. Attempt(j)' = "live"
  <2>1. r \in ActiveRunsOf(j)'
    BY <1>3 DEF ActiveRunsOf
  <2> QED BY <2>1 DEF Attempt
<1>6. \A k \in Jobs \ {j} : Attempt(k)' = Attempt(k)
  <2> SUFFICES ASSUME NEW k \in Jobs \ {j} PROVE Attempt(k)' = Attempt(k)
    OBVIOUS
  <2>1. ActiveRunsOf(k)' = ActiveRunsOf(k)
    BY <1>3 DEF ActiveRunsOf
  <2> QED BY <1>2, <2>1 DEF Attempt, BeingScheduled, WebIdle
<1>7. Lifecycle!Launch(j)
  <2>1. [k \in Jobs |-> Attempt(k)'] = [[k \in Jobs |-> Attempt(k)] EXCEPT ![j] = "live"]
    BY <1>5, <1>6
  <2> QED BY <1>2, <1>4, <2>1 DEF Lifecycle!Launch
<1> QED
  BY <1>7 DEF Lifecycle!Next

LEMMA WebWriteFailsLoses ==
  ASSUME IInv, WebWriteFails PROVE Lifecycle!Next \/ UNCHANGED Lifecycle!vars
<1> PICK j \in Jobs : j = web.job
  BY DEF IInv, WebWriteFails, Owned
<1>1. /\ web' = WebIdle /\ UNCHANGED <<job, run>>
      /\ \A k \in Jobs : ~BeingScheduled(k)'
      /\ \A k \in Jobs : ActiveRunsOf(k)' = ActiveRunsOf(k)
  BY DEF WebWriteFails, BeingScheduled, WebIdle, ActiveRunsOf, IsActive
<1>2. CASE web.pc \in {"listenWrite", "enqueue"}
  <2>1. abandoned' = abandoned \cup {j}
    BY <1>2 DEF WebWriteFails
  <2>2. ActiveRunsOf(j) = {}
    BY <1>2 DEF IInv, WebReadsAreGood, ActiveRunsOf
  <2>3. Attempt(j) = "scheduling" /\ Attempt(j)' = "lost"
    BY <1>1, <1>2, <2>1, <2>2 DEF Attempt, BeingScheduled
  <2>4. \A k \in Jobs \ {j} : Attempt(k)' = Attempt(k)
    BY <1>1, <2>1 DEF Attempt, BeingScheduled
  <2>5. {j} \in SUBSET Jobs /\ {j} # {}
    OBVIOUS
  <2> QED
    BY <1>1, <2>3, <2>4, <2>5, LoseAttempts
<1>3. CASE web.pc \notin {"listenWrite", "enqueue"}
  <2>1. abandoned' = abandoned /\ \A k \in Jobs : ~BeingScheduled(k)
    BY <1>3 DEF WebWriteFails, BeingScheduled
  <2>2. \A k \in Jobs : Attempt(k)' = Attempt(k)
    BY <1>1, <2>1, SameAttempts DEF IsActive
  <2> QED
    BY <1>1, <2>2, Stutter
<1> QED BY <1>2, <1>3

------------------------------------------------------------------------------
(* The TCP thread *)

\* notify changes no record before its SET, and a run that is over is none of
\* its job's active runs any more.
LEMMA NotifyStutters ==
  ASSUME IInv,
         \/ \E r \in Runs, type \in NotifTypes : NotifyReadJob(r, type)
         \/ NotifyReadListeners \/ NotifyRemoveListeners \/ NotifySend
  PROVE  UNCHANGED Lifecycle!vars
<1>1. UNCHANGED <<job, web, abandoned>>
  BY DEF NotifyReadJob, NotifyReadListeners, NotifyRemoveListeners, NotifySend
<1>2. \A s \in Runs : /\ IsActive(s)' <=> IsActive(s)
                      /\ IsActive(s) => run'[s].job = run[s].job
  <2>1. ASSUME NEW r \in Runs, NEW type \in NotifTypes, NotifyReadJob(r, type)
        PROVE  run' = run
    <3>1. IsActive(r) /\ run[r].job \in Jobs
      BY <2>1 DEF NotifyReadJob, SourcePhases, IsActive, ActivePhases, NotifTypes, IInv, Owned
    <3>2. job[run[r].job] # NoJob
      BY <3>1 DEF IInv, ActiveJobs, IsInProgress, NoJob
    <3> QED BY <2>1, <3>2 DEF NotifyReadJob
  <2>2. CASE NotifyReadListeners \/ NotifyRemoveListeners
    BY <2>2 DEF NotifyReadListeners, NotifyRemoveListeners, IsActive
  <2>3. CASE NotifySend
    BY <2>3 DEF NotifySend, IInv, TypeOK, Owned, NotifFollowsRun, PhaseAfter, NoRun, IsActive,
       ActivePhases
  <2> QED BY <2>1, <2>2, <2>3 DEF IsActive
<1>3. \A j \in Jobs : Attempt(j)' = Attempt(j)
  BY <1>1, <1>2, SameAttempts DEF BeingScheduled
<1> QED
  BY <1>1, <1>3, Stutter

\* The SET of the record starts the job, ends it, or changes nothing of its life.
LEMMA NotifySaveJobLives ==
  ASSUME IInv, NotifySaveJob PROVE Lifecycle!Next \/ UNCHANGED Lifecycle!vars
<1> PICK r \in Runs : r = notif.run
  BY DEF IInv, NotifySaveJob, Owned
<1>1. /\ IsActive(r) /\ notif.type \in NotifTypes /\ run[r].job \in Jobs
      /\ run' = [run EXCEPT ![r].phase = PhaseAfter(notif.type)]
      /\ job' = [job EXCEPT ![run[r].job] = notif.rec]
      /\ UNCHANGED <<web, abandoned>>
  BY DEF IInv, NotifySaveJob, Owned, NotifFollowsRun, TypeOK, NotifLocals, IsActive,
         SourcePhases, ActivePhases, NotifTypes
<1> PICK j \in Jobs : j = run[r].job
  BY <1>1
<1>2. /\ job[j] \in JobRecords /\ IsInProgress(job[j])
      /\ notif.rec = Updated(job[j], notif.type)
  BY <1>1 DEF IInv, TypeOK, ActiveJobs, NoLostUpdate, NotifySaveJob
<1>3. /\ \A s \in Runs \ {r} : run'[s] = run[s] /\ (IsActive(s)' <=> IsActive(s))
      /\ run'[r].job = j
      /\ IsActive(r)' <=> ~IsFinal(notif.type)
  BY <1>1 DEF IInv, TypeOK, IsActive, PhaseAfter, ActivePhases
<1>4. Attempt(j) = "live" /\ ~BeingScheduled(j) /\ j \notin abandoned
  <2>1. r \in ActiveRunsOf(j)
    BY <1>1 DEF ActiveRunsOf
  <2> QED
    BY <1>1, <2>1 DEF Attempt, IInv, WebReadsAreGood, BeingScheduled, StuckOnlyIfAbandoned
<1>5. \A k \in Jobs \ {j} : Attempt(k)' = Attempt(k)
  <2> SUFFICES ASSUME NEW k \in Jobs \ {j} PROVE Attempt(k)' = Attempt(k)
    OBVIOUS
  <2>1. ActiveRunsOf(k)' = ActiveRunsOf(k)
    BY <1>3 DEF ActiveRunsOf
  <2> QED BY <1>1, <2>1 DEF Attempt, BeingScheduled
<1>6. job'[j] = Updated(job[j], notif.type) /\ \A k \in Jobs \ {j} : job'[k] = job[k]
  BY <1>1, <1>2 DEF IInv, TypeOK
<1>7. CASE IsFinal(notif.type)
  <2>1. ActiveRunsOf(j)' = {}
    BY <1>1, <1>3, <1>7 DEF ActiveRunsOf, IInv, ActiveJobs
  <2>2. Attempt(j)' = "none"
    BY <1>1, <1>4, <2>1 DEF Attempt, BeingScheduled
  <2>3. PICK st \in {"FINISHED", "FAILED"} : job'[j].state = st
    BY <1>2, <1>6, <1>7 DEF Updated, IsFinal, JobRecords
  <2>4. [k \in Jobs |-> job'[k].state] = [[k \in Jobs |-> job[k].state] EXCEPT ![j] = st]
    BY <1>6, <2>3
  <2>5. [k \in Jobs |-> Attempt(k)'] = [[k \in Jobs |-> Attempt(k)] EXCEPT ![j] = "none"]
    BY <1>5, <2>2
  <2>6. [k \in Jobs |-> job'[k].state] \in
          {[[k \in Jobs |-> job[k].state] EXCEPT ![j] = s] : s \in {"FINISHED", "FAILED"}}
    BY <2>4
  <2>7. Lifecycle!End(j)
    BY <1>4, <2>5, <2>6 DEF Lifecycle!End
  <2> QED BY <2>7 DEF Lifecycle!Next
<1>8. CASE ~IsFinal(notif.type)
  <2>1. Attempt(j)' = "live"
    <3>1. r \in ActiveRunsOf(j)'
      BY <1>3, <1>8 DEF ActiveRunsOf
    <3> QED BY <3>1 DEF Attempt
  <2>2. \A k \in Jobs : Attempt(k)' = Attempt(k)
    BY <1>4, <1>5, <2>1
  <2>3. CASE job'[j].state = job[j].state
    BY <1>6, <2>2, <2>3, Stutter
  <2>4. CASE job'[j].state # job[j].state
    <3>1. job[j].state = "READY" /\ job'[j].state = "RUNNING"
      <4>1. notif.type = "STARTED" \/ Updated(job[j], notif.type) = job[j]
        BY <1>1, <1>8 DEF Updated, IsFinal, NotifTypes
      <4>2. job'[j] = [job[j] EXCEPT !.state = "RUNNING"]
        BY <1>6, <2>4, <4>1 DEF Updated
      <4>3. job'[j].state = "RUNNING"
        BY <1>2, <4>2 DEF JobRecords
      <4> QED BY <1>2, <2>4, <4>3 DEF IsInProgress
    <3>2. [k \in Jobs |-> job'[k].state] = [[k \in Jobs |-> job[k].state] EXCEPT ![j] = "RUNNING"]
      BY <1>6, <3>1
    <3>3. [k \in Jobs |-> Attempt(k)'] = [k \in Jobs |-> Attempt(k)]
      BY <2>2
    <3>4. Lifecycle!Start(j)
      BY <1>4, <3>1, <3>2, <3>3 DEF Lifecycle!Start
    <3> QED BY <3>4 DEF Lifecycle!Next
  <2> QED BY <2>3, <2>4
<1> QED BY <1>7, <1>8

------------------------------------------------------------------------------
(* The runs and the environment *)

\* A lost run is the loss of its job's attempt.
LEMMA LostRunLoses ==
  ASSUME IInv, NEW r \in Runs, IsActive(r), run' = [run EXCEPT ![r] = LostRun],
         abandoned' = abandoned \cup {run[r].job}, UNCHANGED <<job, web>>
  PROVE  Lifecycle!Next
<1> PICK j \in Jobs : j = run[r].job
  BY DEF IInv, Owned, IsActive, ActivePhases
<1>1. /\ \A s \in Runs \ {r} : run'[s] = run[s] /\ (IsActive(s)' <=> IsActive(s))
      /\ ~IsActive(r)'
  BY DEF IInv, TypeOK, IsActive, LostRun, ActivePhases
<1>2. r \in ActiveRunsOf(j) /\ ActiveRunsOf(j)' = {}
  BY <1>1 DEF ActiveRunsOf, IInv, ActiveJobs
<1>3. Attempt(j) = "live" /\ ~BeingScheduled(j)
  BY <1>2 DEF Attempt, IInv, WebReadsAreGood, BeingScheduled
<1>4. Attempt(j)' = "lost"
  BY <1>2, <1>3 DEF Attempt, BeingScheduled
<1>5. \A k \in Jobs \ {j} : Attempt(k)' = Attempt(k)
  <2> SUFFICES ASSUME NEW k \in Jobs \ {j} PROVE Attempt(k)' = Attempt(k)
    OBVIOUS
  <2>1. ActiveRunsOf(k)' = ActiveRunsOf(k)
    BY <1>1 DEF ActiveRunsOf
  <2> QED BY <2>1 DEF Attempt, BeingScheduled
<1>6. {j} \in SUBSET Jobs /\ {j} # {}
  OBVIOUS
<1> QED
  BY <1>3, <1>4, <1>5, <1>6, LoseAttempts

LEMMA NotifySaveFailsLoses ==
  ASSUME IInv, NotifySaveFails PROVE Lifecycle!Next \/ UNCHANGED Lifecycle!vars
<1> PICK r \in Runs : r = notif.run
  BY DEF IInv, NotifySaveFails, Owned
<1>1. IsActive(r) /\ UNCHANGED <<job, web>>
  BY DEF IInv, NotifySaveFails, NotifFollowsRun, TypeOK, NotifLocals, IsActive,
         SourcePhases, ActivePhases, NotifTypes
<1>2. CASE IsFinal(notif.type)
  BY <1>1, <1>2, LostRunLoses DEF NotifySaveFails
<1>3. CASE ~IsFinal(notif.type)
  <2>1. abandoned' = abandoned /\ run' = [run EXCEPT ![r].phase = "started"]
    BY <1>3 DEF NotifySaveFails, PhaseAfter
  <2>2. \A s \in Runs : run'[s].job = run[s].job /\ (IsActive(s)' <=> IsActive(s))
    BY <1>1, <2>1 DEF IInv, TypeOK, IsActive, ActivePhases
  <2>3. \A j \in Jobs : Attempt(j)' = Attempt(j)
    BY <1>1, <2>1, <2>2, SameAttempts DEF BeingScheduled
  <2> QED BY <1>1, <2>3, Stutter
<1> QED BY <1>2, <1>3

LEMMA RunStutters ==
  ASSUME IInv, NEW r \in Runs,
         Connect(r) \/ ConversionFinished(r) \/ BeginTransfer(r) \/ EndTransfer(r)
  PROVE  UNCHANGED Lifecycle!vars
<1>1. UNCHANGED <<job, web, abandoned>>
  BY DEF Connect, ConversionFinished, BeginTransfer, EndTransfer
<1>2. \A s \in Runs : run'[s].job = run[s].job /\ (IsActive(s)' <=> IsActive(s))
  BY DEF Connect, ConversionFinished, BeginTransfer, EndTransfer, IInv, TypeOK, IsActive,
         ActivePhases
<1>3. \A j \in Jobs : Attempt(j)' = Attempt(j)
  BY <1>1, <1>2, SameAttempts DEF BeingScheduled
<1> QED
  BY <1>1, <1>3, Stutter

LEMMA ArchiveExpiresStutters ==
  ASSUME IInv, NEW j \in Jobs, ArchiveExpires(j) PROVE UNCHANGED Lifecycle!vars
<1>1. \A k \in Jobs : job'[k].state = job[k].state
  BY DEF ArchiveExpires, IInv, TypeOK, JobRecords
<1>2. \A k \in Jobs : Attempt(k)' = Attempt(k)
  BY SameAttempts DEF ArchiveExpires, BeingScheduled, IsActive
<1> QED
  BY <1>1, <1>2, Stutter

\* A restart loses every attempt that was being scheduled or had a connection.
LEMMA CrashLoses ==
  ASSUME IInv, Crash PROVE Lifecycle!Next \/ UNCHANGED Lifecycle!vars
<1> DEFINE cut == {r \in Runs : run[r].phase \in ActivePhases \ {"queued"}}
           lost == {j \in Jobs : BeingScheduled(j) \/ \E r \in cut : run[r].job = j}
<1>1. /\ \A r \in Runs : /\ IsActive(r)' <=> IsActive(r) /\ r \notin cut
                         /\ IsActive(r)' => run'[r] = run[r]
      /\ \A j \in Jobs : ~BeingScheduled(j)'
      /\ UNCHANGED job
  BY DEF Crash, IsActive, NoRun, LostRun, ActivePhases, BeingScheduled, WebIdle
<1>2. \A j \in Jobs : j \in abandoned' <=> j \in abandoned \/ j \in lost
  BY DEF Crash, BeingScheduled
<1>3. \A j \in lost : Attempt(j) \in {"scheduling", "live"} /\ Attempt(j)' = "lost"
  <2> SUFFICES ASSUME NEW j \in lost
               PROVE  Attempt(j) \in {"scheduling", "live"} /\ Attempt(j)' = "lost"
    OBVIOUS
  <2>1. ActiveRunsOf(j)' = {}
    <3>1. CASE BeingScheduled(j)
      BY <1>1, <3>1 DEF IInv, WebReadsAreGood, BeingScheduled, ActiveRunsOf
    <3>2. CASE \E r \in cut : run[r].job = j
      <4>1. PICK r \in Runs : r \in cut /\ run[r].job = j /\ IsActive(r)
        BY <3>2 DEF IsActive
      <4> QED BY <1>1, <4>1 DEF IInv, ActiveJobs, ActiveRunsOf
    <3> QED BY <3>1, <3>2
  <2>2. Attempt(j) \in {"scheduling", "live"}
    <3>1. CASE BeingScheduled(j)
      BY <3>1 DEF Attempt
    <3>2. CASE \E r \in cut : run[r].job = j
      <4>1. ActiveRunsOf(j) # {}
        BY <3>2 DEF ActiveRunsOf, IsActive
      <4> QED BY <4>1 DEF Attempt
    <3> QED BY <3>1, <3>2
  <2> QED BY <1>1, <1>2, <2>1, <2>2 DEF Attempt
<1>4. \A j \in Jobs \ lost : Attempt(j)' = Attempt(j)
  <2> SUFFICES ASSUME NEW j \in Jobs \ lost PROVE Attempt(j)' = Attempt(j)
    OBVIOUS
  <2>1. ActiveRunsOf(j)' = ActiveRunsOf(j)
    <3>1. \A r \in Runs : IsActive(r) /\ run[r].job = j => r \notin cut
      OBVIOUS
    <3> QED BY <1>1, <3>1 DEF ActiveRunsOf
  <2> QED BY <1>1, <1>2, <2>1 DEF Attempt
<1>5. CASE lost = {}
  BY <1>1, <1>4, <1>5, Stutter
<1>6. CASE lost # {}
  <2> lost \in SUBSET Jobs
    OBVIOUS
  <2> PICK gone \in SUBSET Jobs : gone = lost
    OBVIOUS
  <2> QED BY <1>1, <1>3, <1>4, <1>6, LoseAttempts
<1> QED BY <1>5, <1>6

------------------------------------------------------------------------------
(* The theorem *)

LEMMA LifecycleNext == IInv /\ [Next]_vars => [Lifecycle!Next]_(Lifecycle!vars)
<1> SUFFICES ASSUME IInv, [Next]_vars PROVE Lifecycle!Next \/ UNCHANGED Lifecycle!vars
  OBVIOUS
<1>1. CASE UNCHANGED vars
  <2>1. \A j \in Jobs : Attempt(j)' = Attempt(j)
    BY <1>1, SameAttempts DEF vars, BeingScheduled, IsActive
  <2> QED BY <1>1, <2>1, Stutter DEF vars
<1>2. ASSUME \E c \in Clients, j \in Jobs, force \in BOOLEAN : Request(c, j, force)
      PROVE  UNCHANGED Lifecycle!vars
  BY <1>2, WebStutters
<1>3. CASE WebStep
  BY <1>3, WebStutters, SaveReadyJobSchedules, EnqueueLaunches, WebWriteFailsLoses DEF WebStep
<1>4. ASSUME NEW r \in Runs, NEW type \in NotifTypes, NotifyReadJob(r, type)
      PROVE  UNCHANGED Lifecycle!vars
  BY <1>4, NotifyStutters
<1>5. CASE NotifyStep
  BY <1>5, NotifyStutters, NotifySaveJobLives, NotifySaveFailsLoses DEF NotifyStep
<1>6. ASSUME NEW r \in Runs,
             Connect(r) \/ ConversionFinished(r) \/ BeginTransfer(r) \/ EndTransfer(r)
      PROVE  UNCHANGED Lifecycle!vars
  BY <1>6, RunStutters
<1>7. ASSUME NEW r \in Runs, Lose(r) PROVE Lifecycle!Next
  BY <1>7, LostRunLoses DEF Lose
<1>8. ASSUME NEW j \in Jobs, ArchiveExpires(j) PROVE UNCHANGED Lifecycle!vars
  BY <1>8, ArchiveExpiresStutters
<1>9. CASE Crash
  BY <1>9, CrashLoses
<1> QED
  BY <1>1, <1>2, <1>3, <1>4, <1>5, <1>6, <1>7, <1>8, <1>9 DEF Next

\* Every record lives the life JobLifecycle promises: its attempts follow one
\* another, end at most once, and only a fault leaves one without an end.
THEOREM LifecycleImplemented == Spec => ImplementsLifecycle
<1>1. Spec => Lifecycle!Init /\ [][Lifecycle!Next]_(Lifecycle!vars)
  BY LifecycleInit, LifecycleNext, Invariance, PTL DEF Spec
<1> QED
  BY <1>1 DEF ImplementsLifecycle, Lifecycle!Spec
------------------------------------------------------------------------------
(* Every run is a ConversionSession *)

OverIsSent ==
    \A r \in Runs : run[r].phase = "over" =>
        notif.pc = "send" /\ notif.run = r /\ IsFinal(notif.type)

SessionInv == IInv /\ OverIsSent

\* What a step may do to run r.
SessionStep(r) == Session(r)!Next \/ UNCHANGED <<run[r].phase, Outcome(r)>>

------------------------------------------------------------------------------
(* Moves of one run *)

\* The moves that record no outcome.
Moves(p, q) ==
    \/ p \in {"none", "lost"} /\ q = "queued"
    \/ p = "queued"       /\ q = "connected"
    \/ p = "connected"    /\ q = "started"
    \/ p = "started"      /\ q = "converted"
    \/ p = "converted"    /\ q = "transferring"
    \/ p = "transferring" /\ q = "verified"
    \/ p \in ActivePhases /\ q = "lost"

LEMMA MoveIsStep ==
  ASSUME NEW r \in Runs, Moves(run[r].phase, run'[r].phase)
  PROVE  SessionStep(r)
<1>1. run[r].phase # "over" /\ run'[r].phase # "over"
  BY DEF Moves, ActivePhases
<1>2. Outcome(r) = "none" /\ Outcome(r)' = "none"
  BY <1>1 DEF Outcome
<1> QED
  BY <1>1, <1>2 DEF Moves, ActivePhases, SessionStep, Session!Next, Session!Enqueue, Session!Connect,
     Session!Start, Session!Converted, Session!Transfer, Session!Verify, Session!Lose, Session!Move,
     Session!Active

\* A run that keeps its phase takes no step, unless its outcome would change.
LEMMA SamePhase ==
  ASSUME NEW r \in Runs, run'[r].phase = run[r].phase,
         run[r].phase = "over" => notif'.type = notif.type
  PROVE  SessionStep(r)
BY DEF SessionStep, Outcome

\* One run moves, and the notification is not of a run that is over.
LEMMA OneMoves ==
  ASSUME NEW r \in Runs, run \in [Runs -> [phase : Phases, job : Jobs \cup {None},
                                           client : Clients \cup {None}]],
         \/ \E q \in Phases : run' = [run EXCEPT ![r].phase = q]
         \/ \E rec : run' = [run EXCEPT ![r] = rec],
         Moves(run[r].phase, run'[r].phase),
         \A s \in Runs : run[s].phase = "over" => notif'.type = notif.type
  PROVE  \A s \in Runs : SessionStep(s)
<1>1. \A s \in Runs \ {r} : run'[s] = run[s]
  OBVIOUS
<1> QED
  BY <1>1, MoveIsStep, SamePhase

------------------------------------------------------------------------------
(* The steps *)

\* The web thread only enqueues.
LEMMA SessionWebSteps ==
  ASSUME SessionInv,
         \/ \E c \in Clients, j \in Jobs, force \in BOOLEAN : Request(c, j, force)
         \/ WebStep
         \/ \E j \in Jobs : ArchiveExpires(j)
  PROVE  OverIsSent' /\ \A r \in Runs : SessionStep(r)
<1>1. UNCHANGED notif
  BY DEF Request, WebStep, CountJob, RejectRequest, AssignJob, LookupJob, AnswerFromCache,
         ReadListeners, WriteListeners, SaveReadyJob, Enqueue, WebWriteFails, ArchiveExpires
<1>2. UNCHANGED run \/ Enqueue
  BY DEF Request, WebStep, CountJob, RejectRequest, AssignJob, LookupJob, AnswerFromCache,
         ReadListeners, WriteListeners, SaveReadyJob, WebWriteFails, ArchiveExpires
<1>3. CASE UNCHANGED run
  BY <1>1, <1>3, SamePhase DEF SessionInv, OverIsSent
<1>4. CASE Enqueue
  <2>1. PICK r \in Runs :
          /\ run[r] \in {NoRun, LostRun}
          /\ run' = [run EXCEPT ![r] = [phase |-> "queued", job |-> web.job, client |-> web.client]]
    BY <1>4 DEF Enqueue
  <2>2. run'[r].phase = "queued" /\ run[r].phase \in {"none", "lost"}
    BY <2>1 DEF SessionInv, IInv, TypeOK, NoRun, LostRun
  <2>3. OverIsSent'
    BY <1>1, <2>1, <2>2 DEF SessionInv, OverIsSent, IInv, TypeOK
  <2>4. Moves(run[r].phase, run'[r].phase)
    BY <2>2 DEF Moves
  <2> QED BY <1>1, <2>1, <2>3, <2>4, OneMoves DEF SessionInv, IInv, TypeOK
<1> QED BY <1>2, <1>3, <1>4

\* The steps of a run, while the TCP thread has nothing to send for it.
LEMMA SessionRunSteps ==
  ASSUME SessionInv, NEW r \in Runs,
         Connect(r) \/ ConversionFinished(r) \/ BeginTransfer(r) \/ EndTransfer(r) \/ Lose(r)
  PROVE  OverIsSent' /\ \A s \in Runs : SessionStep(s)
<1> DEFINE T == [Runs -> [phase : Phases, job : Jobs \cup {None}, client : Clients \cup {None}]]
<1>1. UNCHANGED notif /\ run \in T
  BY DEF SessionInv, IInv, TypeOK, Connect, ConversionFinished, BeginTransfer, EndTransfer, Lose
<1>2. PICK p \in ActivePhases, q \in Phases \ {"over"} :
        /\ run[r].phase = p /\ Moves(p, q)
        /\ \/ run' = [run EXCEPT ![r].phase = q]
           \/ run' = [run EXCEPT ![r] = LostRun] /\ q = "lost"
  BY DEF Connect, ConversionFinished, BeginTransfer, EndTransfer, Lose, IsActive, Phases,
         ActivePhases, Moves
<1>3. run'[r].phase = q /\ \A s \in Runs \ {r} : run'[s] = run[s]
  BY <1>1, <1>2 DEF LostRun
<1>4. OverIsSent'
  BY <1>1, <1>3 DEF SessionInv, OverIsSent
<1> QED BY <1>1, <1>2, <1>3, <1>4, OneMoves

\* notify reads the record and the listeners: no run moves. It never finds the
\* record missing, since its run's job is in progress.
LEMMA SessionNotifyReads ==
  ASSUME SessionInv,
         \/ \E r \in Runs, type \in NotifTypes : NotifyReadJob(r, type)
         \/ NotifyReadListeners \/ NotifyRemoveListeners
  PROVE  OverIsSent' /\ \A s \in Runs : SessionStep(s)
<1>1. UNCHANGED run /\ notif.pc # "send"
  <2>1. ASSUME NEW r \in Runs, NEW type \in NotifTypes, NotifyReadJob(r, type)
        PROVE  UNCHANGED run /\ notif.pc # "send"
    <3>1. IsActive(r)
      BY <2>1 DEF NotifyReadJob, SourcePhases, IsActive, ActivePhases, NotifTypes
    <3>2. job[run[r].job] # NoJob
      BY <3>1 DEF SessionInv, IInv, ActiveJobs, IsInProgress, NoJob
    <3> QED BY <2>1, <3>2 DEF NotifyReadJob
  <2> QED BY <2>1 DEF NotifyReadListeners, NotifyRemoveListeners
<1>2. \A r \in Runs : run[r].phase # "over"
  BY <1>1 DEF SessionInv, OverIsSent
<1> QED BY <1>1, <1>2, SamePhase DEF OverIsSent

LEMMA SessionNotifySaveJob ==
  ASSUME SessionInv, NotifySaveJob PROVE OverIsSent' /\ \A s \in Runs : SessionStep(s)
<1> PICK r \in Runs : r = notif.run
  BY DEF SessionInv, IInv, NotifySaveJob, Owned
<1> DEFINE type == notif.type
<1>1. /\ run' = [run EXCEPT ![r].phase = PhaseAfter(type)]
      /\ notif' = [notif EXCEPT !.pc = "send"]
      /\ run[r].phase \in SourcePhases(type) /\ type \in NotifTypes
      /\ \A s \in Runs : run[s].phase # "over"
  BY DEF SessionInv, IInv, NotifySaveJob, StepAfter, NotifFollowsRun, OverIsSent, TypeOK, NotifLocals
<1>2. /\ run'[r].phase = PhaseAfter(type) /\ \A s \in Runs \ {r} : run'[s] = run[s]
      /\ notif'.pc = "send" /\ notif'.run = r /\ notif'.type = type
  BY <1>1 DEF SessionInv, IInv, TypeOK, NotifLocals
<1>3. OverIsSent'
  BY <1>1, <1>2 DEF OverIsSent, PhaseAfter
<1>4. \A s \in Runs \ {r} : SessionStep(s)
  BY <1>2, SamePhase
<1>5. SessionStep(r)
  <2>1. CASE IsFinal(type)
    <3>1. Outcome(r) = "none" /\ run'[r].phase = "over" /\ Outcome(r)' = type
      BY <1>1, <1>2, <2>1 DEF Outcome, PhaseAfter
    <3>2. Session(r)!End
      BY <1>1, <2>1, <3>1 DEF IsFinal, SourcePhases, Session!End
    <3> QED BY <3>2 DEF SessionStep, Session!Next
  <2>2. CASE type = "STARTED"
    <3>1. Moves(run[r].phase, run'[r].phase)
      BY <1>1, <1>2, <2>2 DEF SourcePhases, PhaseAfter, IsFinal, Moves
    <3> QED BY <3>1, MoveIsStep
  <2>3. CASE type = "UPDATE"
    <3>1. run'[r].phase = run[r].phase
      BY <1>1, <1>2, <2>3 DEF SourcePhases, PhaseAfter, IsFinal
    <3> QED BY <1>1, <3>1, SamePhase
  <2> QED BY <1>1, <2>1, <2>2, <2>3 DEF NotifTypes, IsFinal
<1> QED BY <1>3, <1>4, <1>5

LEMMA SessionNotifySaveFails ==
  ASSUME SessionInv, NotifySaveFails PROVE OverIsSent' /\ \A s \in Runs : SessionStep(s)
<1> PICK r \in Runs : r = notif.run
  BY DEF SessionInv, IInv, NotifySaveFails, Owned
<1> DEFINE type == notif.type
<1>1. /\ IF IsFinal(type) THEN run' = [run EXCEPT ![r] = LostRun]
                          ELSE run' = [run EXCEPT ![r].phase = "started"]
      /\ run[r].phase \in SourcePhases(type) /\ type \in NotifTypes
      /\ \A s \in Runs : run[s].phase # "over"
  BY DEF SessionInv, IInv, NotifySaveFails, PhaseAfter, NotifFollowsRun, OverIsSent, TypeOK, NotifLocals
<1>2. /\ run'[r].phase = IF IsFinal(type) THEN "lost" ELSE "started"
      /\ \A s \in Runs \ {r} : run'[s] = run[s]
  BY <1>1 DEF SessionInv, IInv, TypeOK, LostRun
<1>3. OverIsSent'
  BY <1>1, <1>2 DEF OverIsSent
<1>4. \A s \in Runs \ {r} : SessionStep(s)
  BY <1>1, <1>2, SamePhase
<1>5. SessionStep(r)
  <2>1. CASE type = "UPDATE"
    <3>1. run'[r].phase = run[r].phase
      BY <1>1, <1>2, <2>1 DEF SourcePhases, IsFinal
    <3> QED BY <1>1, <3>1, SamePhase
  <2>2. CASE type # "UPDATE"
    <3>1. Moves(run[r].phase, run'[r].phase)
      BY <1>1, <1>2, <2>2 DEF NotifTypes, SourcePhases, IsFinal, Moves, ActivePhases
    <3> QED BY <3>1, MoveIsStep
  <2> QED BY <2>1, <2>2
<1> QED BY <1>3, <1>4, <1>5

\* Once the last message is sent, the slot of the run that is over is free.
LEMMA SessionNotifySend ==
  ASSUME SessionInv, NotifySend PROVE OverIsSent' /\ \A s \in Runs : SessionStep(s)
<1> PICK r \in Runs : r = notif.run
  BY DEF SessionInv, IInv, NotifySend, Owned
<1>1. /\ run[r].phase = PhaseAfter(notif.type)
      /\ \A s \in Runs \ {r} : run[s].phase # "over"
  BY DEF SessionInv, IInv, NotifySend, NotifFollowsRun, OverIsSent
<1>2. CASE IsFinal(notif.type)
  <2>1. run' = [run EXCEPT ![r] = NoRun]
    BY <1>2 DEF NotifySend
  <2>2. /\ run[r].phase = "over" /\ run'[r].phase = "none"
        /\ \A s \in Runs \ {r} : run'[s] = run[s]
    BY <1>1, <1>2, <2>1 DEF PhaseAfter, NoRun, SessionInv, IInv, TypeOK
  <2>3. Session(r)!Leave
    BY <2>2 DEF Session!Leave, Outcome
  <2>4. SessionStep(r)
    BY <2>3 DEF SessionStep, Session!Next
  <2> QED BY <1>1, <2>2, <2>4, SamePhase DEF OverIsSent
<1>3. CASE ~IsFinal(notif.type)
  <2>1. UNCHANGED run /\ run[r].phase = "started"
    BY <1>1, <1>3 DEF NotifySend, PhaseAfter
  <2> QED BY <1>1, <2>1, SamePhase DEF OverIsSent
<1> QED BY <1>2, <1>3

\* A restart loses the runs with a connection, and frees those that are over.
LEMMA SessionCrash ==
  ASSUME SessionInv, Crash PROVE OverIsSent' /\ \A s \in Runs : SessionStep(s)
<1> DEFINE cut == {r \in Runs : run[r].phase \in ActivePhases \ {"queued"}}
<1>1. run' = [r \in Runs |-> CASE r \in cut -> LostRun
                               [] run[r].phase = "over" -> NoRun
                               [] OTHER -> run[r]]
  BY DEF Crash
<1>2. \A r \in Runs : run'[r].phase # "over"
  BY <1>1 DEF LostRun, NoRun
<1>3. ASSUME NEW r \in Runs PROVE SessionStep(r)
  <2>1. CASE r \in cut
    <3>1. run'[r] = LostRun /\ run[r].phase \in ActivePhases
      BY <1>1, <2>1 DEF ActivePhases
    <3>2. Moves(run[r].phase, run'[r].phase)
      BY <3>1 DEF LostRun, Moves
    <3> QED BY <3>2, MoveIsStep
  <2>2. CASE run[r].phase = "over"
    <3>1. run'[r].phase = "none"
      BY <1>1, <2>2 DEF NoRun, ActivePhases
    <3>2. Session(r)!Leave
      BY <2>2, <3>1 DEF Session!Leave, Outcome
    <3> QED BY <3>2 DEF SessionStep, Session!Next
  <2>3. CASE r \notin cut /\ run[r].phase # "over"
    <3>1. run'[r] = run[r]
      BY <1>1, <2>3
    <3> QED BY <2>3, <3>1, SamePhase
  <2> QED BY <2>1, <2>2, <2>3
<1> QED BY <1>2, <1>3 DEF OverIsSent

------------------------------------------------------------------------------
(* The theorem *)

LEMMA SessionNext ==
  ASSUME SessionInv, [Next]_vars PROVE OverIsSent' /\ \A r \in Runs : SessionStep(r)
<1>1. CASE UNCHANGED vars
  BY <1>1, SamePhase DEF vars, SessionInv, OverIsSent
<1>2. CASE \E r \in Runs : \/ Connect(r) \/ ConversionFinished(r)
                           \/ BeginTransfer(r) \/ EndTransfer(r) \/ Lose(r)
  BY <1>2, SessionRunSteps
<1>3. CASE NotifyStep
  BY <1>3, SessionNotifyReads, SessionNotifySaveJob, SessionNotifySaveFails, SessionNotifySend
     DEF NotifyStep
<1>4. CASE \E r \in Runs, type \in NotifTypes : NotifyReadJob(r, type)
  BY <1>4, SessionNotifyReads
<1> QED
  BY <1>1, <1>2, <1>3, <1>4, SessionWebSteps, SessionCrash DEF Next

\* Each run goes through the phases of ConversionSession in order, and its record
\* says FINISHED only after its archive was verified: what the scheduling of jobs
\* takes for granted of a conversion (jobmonitortcpserver.py:75-110) survives the
\* interleaving with commands, other runs, lost connections and restarts.
THEOREM SessionsImplemented == Spec => ImplementsSessions
<1>1. Init => SessionInv /\ \A r \in Runs : Session(r)!Init
  <2> SUFFICES ASSUME Init PROVE SessionInv /\ \A r \in Runs : Session(r)!Init
    OBVIOUS
  <2>1. \A r \in Runs : run[r].phase = "none"
    BY DEF Init, NoRun
  <2> QED BY <2>1, InvInit DEF SessionInv, OverIsSent, Session!Init, Outcome
<1>2. SessionInv /\ [Next]_vars => SessionInv'
  BY InvNext, SessionNext DEF SessionInv
<1>3. SessionInv /\ [Next]_vars =>
        [\A r \in Runs : [Session(r)!Next]_<<run[r].phase, Outcome(r)>>]_vars
  BY SessionNext DEF SessionStep
<1> QED
  BY <1>1, <1>2, <1>3, PTL DEF Spec, ImplementsSessions
=============================================================================
