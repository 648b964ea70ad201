------------------------ MODULE JobScheduling_proofs ------------------------
(***************************************************************************)
(* Proofs about JobScheduling, for every set of clients, jobs and run      *)
(* slots, every limit and every combination of faults.                     *)
(*                                                                         *)
(* IInv, the invariant behind the safety properties, is stated in          *)
(* JobScheduling. The web thread's steps come first: most of them leave    *)
(* the records, the runs and the notification alone (WebFrame). Then the   *)
(* steps of notify, of the runs and of the environment. The limit of runs  *)
(* per client has an invariant of its own, LimitInv, and comes last.       *)
(***************************************************************************)
EXTENDS JobScheduling, FiniteSetTheorems, TLAPS

LEMMA InvInit == Init => IInv
<1> SUFFICES ASSUME Init PROVE IInv
  OBVIOUS
<1>1. TypeOK
  BY DEF Init, TypeOK, NoJob, WebIdle, NotifIdle, NoRun, JobRecords, JobStates,
         ArchiveStates, WebLocals, WebSteps, NotifLocals, NotifSteps, NotifTypes, Phases
<1>2. \A r \in Runs : ~IsActive(r)
  BY DEF Init, IsActive, NoRun, ActivePhases
<1>3. \A j \in Jobs : ~IsInProgress(job[j]) /\ job[j].state # "FINISHED"
  BY DEF Init, IsInProgress, NoJob
<1> QED
  BY <1>1, <1>2, <1>3
     DEF Init, IInv, Owned, ActiveJobs, WebReadsAreGood, NotifFollowsRun, NoLostUpdate,
         SchedulerListens, SchedulerIsNotified, VerifiedRunsHaveFile,
         FinishedHasVerifiedFile, StuckOnlyIfAbandoned, WebIdle, NotifIdle, NoRun

------------------------------------------------------------------------------
(* The web thread *)

\* What a step that leaves records, runs, notification and files alone keeps.
LEMMA WebFrame ==
  ASSUME IInv, UNCHANGED <<job, notif, run, file>>
  PROVE  /\ ActiveJobs' /\ NotifFollowsRun' /\ NoLostUpdate' /\ SchedulerIsNotified'
         /\ VerifiedRunsHaveFile' /\ FinishedHasVerifiedFile'
BY DEF IInv, ActiveJobs, NotifFollowsRun, NoLostUpdate, SchedulerIsNotified,
       VerifiedRunsHaveFile, FinishedHasVerifiedFile, IsActive

\* The actions of the web thread that only read, or write the client's own list.
LEMMA WebReadSteps ==
  ASSUME IInv,
         \/ \E c \in Clients, j \in Jobs, force \in BOOLEAN : Request(c, j, force)
         \/ CountJob \/ RejectRequest \/ AssignJob \/ LookupJob \/ AnswerFromCache
         \/ ReadListeners
  PROVE  IInv'
<1> USE DEF IInv
<1>1. TypeOK'
  <2> USE DEF TypeOK
  <2>1. ASSUME NEW c \in Clients, NEW j \in Jobs, NEW force \in BOOLEAN,
               Request(c, j, force)
        PROVE  TypeOK'
    BY <2>1 DEF Request, WebIdle, WebLocals, WebSteps
  <2>2. CASE CountJob
    <3>1. PICK k \in web.todo :
            web' = [web EXCEPT !.todo = @ \ {k},
                               !.count = IF IsInProgress(job[k]) THEN @ + 1 ELSE @]
      BY <2>2 DEF CountJob
    <3> DEFINE n == IF IsInProgress(job[k]) THEN web.count + 1 ELSE web.count
    <3>2. web.todo \ {k} \in SUBSET Jobs /\ n \in Nat
      BY DEF WebLocals
    <3>3. web' = [web EXCEPT !.todo = web.todo \ {k}, !.count = n]
      BY <3>1
    <3> HIDE DEF n
    <3>4. web' \in WebLocals
      BY <3>2, <3>3 DEF WebLocals
    <3> QED BY <2>2, <3>4 DEF CountJob
  <2>3. CASE RejectRequest
    BY <2>3 DEF RejectRequest, WebIdle, WebLocals, WebSteps
  <2>4. CASE AssignJob
    BY <2>4 DEF AssignJob, Owned, WebLocals, WebSteps
  <2>5. CASE LookupJob
    BY <2>5 DEF LookupJob, Decision, WebLocals, WebSteps
  <2>6. CASE AnswerFromCache
    BY <2>6 DEF AnswerFromCache, WebIdle, WebLocals, WebSteps
  <2>7. CASE ReadListeners
    BY <2>7 DEF ReadListeners, Owned, WebIdle, WebLocals, WebSteps
  <2> QED BY <2>1, <2>2, <2>3, <2>4, <2>5, <2>6, <2>7
<1>2. UNCHANGED <<job, notif, run, file, listeningClients, abandoned>>
  BY DEF Request, CountJob, RejectRequest, AssignJob, LookupJob, AnswerFromCache,
         ReadListeners
<1>3. \/ web' = WebIdle
      \/ web'.client \in Clients /\ web'.job \in Jobs
  <2>1. web.pc # "idle" => web.client \in Clients /\ web.job \in Jobs
    BY DEF Owned
  <2>2. ASSUME NEW c \in Clients, NEW j \in Jobs, NEW force \in BOOLEAN,
               Request(c, j, force)
        PROVE  web'.client \in Clients /\ web'.job \in Jobs
    BY <2>2 DEF Request, WebIdle
  <2>3. CASE CountJob \/ RejectRequest \/ AssignJob \/ LookupJob \/ AnswerFromCache
             \/ ReadListeners
    BY <2>1, <2>3 DEF CountJob, RejectRequest, AssignJob, LookupJob, AnswerFromCache,
       ReadListeners, TypeOK, WebLocals
  <2> QED BY <2>2, <2>3
<1>4. Owned'
  BY <1>2, <1>3 DEF Owned, WebIdle
<1> DEFINE Rest == /\ WebReadsAreGood' /\ SchedulerListens'
                   /\ \A j \in Jobs : BeingScheduled(j)' <=> BeingScheduled(j)
<1> USE <1>2 DEF WebReadsAreGood, SchedulerListens, LastWordRead, BeingScheduled, IsActive
<1>5. ASSUME NEW c \in Clients, NEW j \in Jobs, NEW force \in BOOLEAN,
             Request(c, j, force)
      PROVE  Rest
  BY <1>5 DEF Request, WebIdle
<1>6. ASSUME CountJob PROVE Rest
  BY <1>6 DEF CountJob, TypeOK, WebLocals
<1>7. ASSUME RejectRequest PROVE Rest
  BY <1>7 DEF RejectRequest, WebIdle
<1>8. ASSUME AssignJob PROVE Rest
  BY <1>8 DEF AssignJob, TypeOK, WebLocals
<1>9. ASSUME LookupJob PROVE Rest
  BY <1>9 DEF LookupJob, Decision, IsInProgress, TypeOK, WebLocals
<1>10. ASSUME AnswerFromCache PROVE Rest
  BY <1>10 DEF AnswerFromCache, WebIdle, TypeOK, WebLocals
<1>11. ASSUME ReadListeners PROVE Rest
  BY <1>11 DEF ReadListeners, WebIdle, TypeOK, WebLocals, NotifLocals, NotifFollowsRun
<1>12. Rest
  BY <1>5, <1>6, <1>7, <1>8, <1>9, <1>10, <1>11
<1> HIDE <1>2 DEF WebReadsAreGood, SchedulerListens, LastWordRead, BeingScheduled
<1> QED
  BY <1>1, <1>2, <1>4, <1>12, WebFrame DEF StuckOnlyIfAbandoned, ActiveRunsOf

LEMMA WriteListenersStep == ASSUME IInv, WriteListeners PROVE IInv'
<1> USE DEF IInv
<1>1. TypeOK'
  BY DEF WriteListeners, WithListener, Owned, TypeOK, WebIdle, WebLocals, WebSteps
<1>2. Owned' /\ WebReadsAreGood'
  BY DEF WriteListeners, WithListener, Owned, WebReadsAreGood, WebIdle, IsActive,
         TypeOK, WebLocals
<1>3. SchedulerListens'
  BY DEF WriteListeners, WithListener, SchedulerListens, LastWordRead, Owned,
         WebReadsAreGood, WebIdle, IsActive, TypeOK, WebLocals
<1>4. StuckOnlyIfAbandoned'
  BY DEF WriteListeners, StuckOnlyIfAbandoned, BeingScheduled, ActiveRunsOf, WebIdle,
         IsActive, TypeOK, WebLocals
<1> QED
  BY <1>1, <1>2, <1>3, <1>4, WebFrame DEF WriteListeners

\* The record that is overwritten belongs to no active run: execute read it as
\* not in progress, and only execute can change that.
LEMMA SaveReadyJobStep == ASSUME IInv, SaveReadyJob PROVE IInv'
<1> USE DEF IInv, SaveReadyJob
<1>1. TypeOK'
  BY DEF TypeOK, ReadyJob, JobRecords, JobStates, ArchiveStates, WebLocals, WebSteps
<1>2. web.job \in Jobs /\ ~IsInProgress(job[web.job])
  BY DEF Owned, WebReadsAreGood
<1>3. \A r \in Runs : IsActive(r) => run[r].job # web.job
  BY <1>2 DEF ActiveJobs
<1>4. \A j \in Jobs : job'[j] = IF j = web.job THEN ReadyJob ELSE job[j]
  BY DEF TypeOK
<1>5. IsInProgress(ReadyJob) /\ ReadyJob.archive = "none" /\ ReadyJob.state # "FINISHED"
  BY DEF IsInProgress, ReadyJob
<1>6. web' = [web EXCEPT !.pc = "listenRead"] /\ web'.pc = "listenRead"
      /\ web'.job = web.job /\ web'.client = web.client
  BY DEF TypeOK, WebLocals
<1>7. Owned' /\ WebReadsAreGood' /\ SchedulerListens' /\ NotifFollowsRun'
  BY <1>2, <1>3, <1>4, <1>6 DEF Owned, WebReadsAreGood, SchedulerListens, LastWordRead,
     NotifFollowsRun, IsActive
<1>8. ActiveJobs' /\ VerifiedRunsHaveFile' /\ FinishedHasVerifiedFile'
  BY <1>3, <1>4, <1>5 DEF ActiveJobs, VerifiedRunsHaveFile, FinishedHasVerifiedFile, IsActive,
     Owned, ActivePhases
<1>9. NoLostUpdate' /\ SchedulerIsNotified'
  BY <1>3, <1>4 DEF NoLostUpdate, SchedulerIsNotified, NotifFollowsRun, IsActive, Owned,
     SourcePhases, ActivePhases, TypeOK, NotifLocals, NotifTypes
<1>10. StuckOnlyIfAbandoned'
  BY <1>2, <1>4, <1>5, <1>6 DEF StuckOnlyIfAbandoned, BeingScheduled, ActiveRunsOf, IsActive
<1> QED
  BY <1>1, <1>7, <1>8, <1>9, <1>10

LEMMA EnqueueStep == ASSUME IInv, Enqueue PROVE IInv'
<1> USE DEF IInv
<1>1. PICK r \in Runs :
        /\ run[r] \in {NoRun, LostRun}
        /\ run' = [run EXCEPT ![r] = [phase |-> "queued", job |-> web.job,
                                      client |-> web.client]]
  BY DEF Enqueue
<1>2. /\ web.pc = "enqueue" /\ web' = WebIdle
      /\ UNCHANGED <<job, listeningClients, jobsOfClient, notif, file, abandoned>>
  BY DEF Enqueue
<1>3. web.client \in Clients /\ web.job \in Jobs
  BY <1>2 DEF Owned
<1>4. TypeOK'
  BY <1>1, <1>2, <1>3 DEF TypeOK, WebIdle, WebLocals, WebSteps, Phases, ActivePhases
<1>5. /\ ~IsActive(r)
      /\ notif.pc # "idle" => notif.run # r
      /\ run'[r].phase = "queued" /\ run'[r].job = web.job /\ run'[r].client = web.client
      /\ \A s \in Runs \ {r} : run'[s] = run[s]
  BY <1>1 DEF NoRun, LostRun, IsActive, ActivePhases, Owned, TypeOK
<1>6. IsActive(r)' /\ \A s \in Runs \ {r} : IsActive(s)' <=> IsActive(s)
  BY <1>5 DEF IsActive, ActivePhases
<1>7. job[web.job] = ReadyJob /\ \A s \in Runs : IsActive(s) => run[s].job # web.job
  BY <1>2 DEF WebReadsAreGood
<1>8. IsInProgress(ReadyJob)
  BY DEF IsInProgress, ReadyJob
<1>9. Owned' /\ WebReadsAreGood' /\ SchedulerListens'
  BY <1>2, <1>3, <1>5, <1>6 DEF Owned, WebReadsAreGood, SchedulerListens, LastWordRead, WebIdle
<1>10. ActiveJobs' /\ VerifiedRunsHaveFile' /\ FinishedHasVerifiedFile'
  BY <1>2, <1>5, <1>6, <1>7, <1>8 DEF ActiveJobs, VerifiedRunsHaveFile, FinishedHasVerifiedFile
<1>11. notif.pc # "idle" => run'[notif.run] = run[notif.run]
  BY <1>5 DEF Owned
<1>12. NotifFollowsRun' /\ NoLostUpdate' /\ SchedulerIsNotified'
  BY <1>2, <1>11 DEF NotifFollowsRun, NoLostUpdate, SchedulerIsNotified
<1>13. StuckOnlyIfAbandoned'
  <2> SUFFICES ASSUME NEW j \in Jobs
               PROVE  (IsInProgress(job[j]) /\ ActiveRunsOf(j) = {} /\ ~BeingScheduled(j))'
                        <=> j \in abandoned
    BY <1>2 DEF StuckOnlyIfAbandoned
  <2>1. ~BeingScheduled(j)'
    BY <1>2 DEF BeingScheduled, WebIdle
  <2>2. CASE j = web.job
    BY <1>2, <1>5, <1>6, <2>2 DEF ActiveRunsOf, IsActive, StuckOnlyIfAbandoned, BeingScheduled
  <2>3. CASE j # web.job
    <3>1. ActiveRunsOf(j)' = ActiveRunsOf(j)
      BY <1>5, <1>6, <2>3 DEF ActiveRunsOf, IsActive
    <3> QED
      BY <1>2, <2>1, <2>3, <3>1 DEF StuckOnlyIfAbandoned, BeingScheduled
  <2> QED BY <2>2, <2>3
<1> QED
  BY <1>4, <1>9, <1>10, <1>12, <1>13

LEMMA WebWriteFailsStep == ASSUME IInv, WebWriteFails PROVE IInv'
<1> USE DEF IInv, WebWriteFails
<1>1. TypeOK' /\ Owned'
  BY DEF TypeOK, Owned, WebIdle, WebLocals, WebSteps
<1>2. WebReadsAreGood' /\ SchedulerListens'
  BY DEF WebReadsAreGood, SchedulerListens, LastWordRead, WebIdle, IsActive
<1>3. StuckOnlyIfAbandoned'
  BY DEF StuckOnlyIfAbandoned, BeingScheduled, WebReadsAreGood, ActiveRunsOf, IsActive,
         WebIdle, Owned, IsInProgress, ReadyJob
<1> QED
  BY <1>1, <1>2, <1>3, WebFrame

------------------------------------------------------------------------------
(* The TCP thread *)

LEMMA UpdatedType ==
  ASSUME NEW rec \in JobRecords, NEW type \in NotifTypes
  PROVE  Updated(rec, type) \in JobRecords
BY DEF JobRecords, JobStates, ArchiveStates, NotifTypes, Updated

LEMMA NotifyReadJobStep ==
  ASSUME IInv, NEW r \in Runs, NEW type \in NotifTypes, NotifyReadJob(r, type)
  PROVE  IInv'
<1> USE DEF IInv
<1>1. IsActive(r) /\ run[r].phase \in SourcePhases(type)
  BY DEF NotifyReadJob, SourcePhases, IsActive, ActivePhases, NotifTypes
<1>2. run[r].job \in Jobs /\ job[run[r].job] # NoJob
  BY <1>1 DEF ActiveJobs, Owned, IsActive, ActivePhases, IsInProgress, NoJob
<1>3. /\ notif.pc = "idle"
      /\ notif' = [pc |-> "listeners", run |-> r, type |-> type,
                   rec |-> Updated(job[run[r].job], type), clients |-> {}]
      /\ UNCHANGED <<job, listeningClients, jobsOfClient, web, run, file, abandoned>>
  BY <1>2 DEF NotifyReadJob
<1>4. Updated(job[run[r].job], type) \in JobRecords
  BY <1>2, UpdatedType DEF TypeOK
<1>5. TypeOK'
  BY <1>3, <1>4 DEF TypeOK, NotifLocals, NotifSteps
<1>6. Owned' /\ WebReadsAreGood' /\ NotifFollowsRun' /\ NoLostUpdate' /\ SchedulerIsNotified'
  BY <1>1, <1>3 DEF Owned, WebReadsAreGood, NotifFollowsRun, NoLostUpdate,
     SchedulerIsNotified, IsActive, ActivePhases
<1>7. ActiveJobs' /\ VerifiedRunsHaveFile' /\ FinishedHasVerifiedFile'
  BY <1>3 DEF ActiveJobs, VerifiedRunsHaveFile, FinishedHasVerifiedFile, IsActive
<1>8. SchedulerListens' /\ StuckOnlyIfAbandoned'
  BY <1>3 DEF SchedulerListens, LastWordRead, StuckOnlyIfAbandoned, ActiveRunsOf,
     BeingScheduled, IsActive
<1> QED
  BY <1>5, <1>6, <1>7, <1>8

\* While notify has not read the listeners for the last time, the run it serves
\* is active, so its scheduler is in the list it reads.
LEMMA NotifyReadListenersStep == ASSUME IInv, NotifyReadListeners PROVE IInv'
<1> USE DEF IInv, NotifyReadListeners
<1> DEFINE r == notif.run
           c == listeningClients[run[r].job]
<1>1. r \in Runs /\ notif.type \in NotifTypes /\ run[r].phase \in SourcePhases(notif.type)
  BY DEF Owned, NotifFollowsRun, TypeOK, NotifLocals
<1>2. IsActive(r) /\ ~LastWordRead(r)
  BY <1>1 DEF IsActive, SourcePhases, ActivePhases, NotifTypes, LastWordRead
<1>3. run[r].job \in Jobs /\ run[r].client \in c
  BY <1>1, <1>2 DEF SchedulerListens, Owned, IsActive, ActivePhases
<1>4. /\ notif' = [notif EXCEPT !.clients = c,
                                !.pc = StepAfter("listeners", IsFinal(notif.type))]
      /\ UNCHANGED <<job, listeningClients, jobsOfClient, web, run, file, abandoned>>
  BY <1>3
<1>5. TypeOK'
  <2>1. c \in SUBSET Clients /\ StepAfter("listeners", IsFinal(notif.type)) \in NotifSteps
    BY <1>3 DEF TypeOK, StepAfter, NotifSteps
  <2> HIDE DEF c
  <2>2. notif' \in NotifLocals
    BY <1>4, <2>1 DEF TypeOK, NotifLocals
  <2> QED BY <1>4, <2>2 DEF TypeOK
<1>6. /\ notif'.run = r /\ notif'.type = notif.type /\ notif'.rec = notif.rec
      /\ notif'.clients = c
      /\ notif'.pc = IF IsFinal(notif.type) THEN "delete" ELSE "save"
  BY <1>4 DEF TypeOK, NotifLocals, StepAfter
<1>7. Owned' /\ NotifFollowsRun' /\ NoLostUpdate' /\ SchedulerIsNotified'
  BY <1>1, <1>3, <1>4, <1>6 DEF Owned, NotifFollowsRun, NoLostUpdate, SchedulerIsNotified
<1>8. WebReadsAreGood' /\ ActiveJobs' /\ VerifiedRunsHaveFile' /\ FinishedHasVerifiedFile'
      /\ StuckOnlyIfAbandoned'
  BY <1>4 DEF WebReadsAreGood, ActiveJobs, VerifiedRunsHaveFile, FinishedHasVerifiedFile,
     StuckOnlyIfAbandoned, ActiveRunsOf, BeingScheduled, IsActive
<1>9. SchedulerListens'
  BY <1>4, <1>6 DEF SchedulerListens, LastWordRead, IsActive
<1> QED
  BY <1>5, <1>7, <1>8, <1>9

LEMMA NotifyRemoveListenersStep == ASSUME IInv, NotifyRemoveListeners PROVE IInv'
<1> USE DEF IInv, NotifyRemoveListeners
<1> DEFINE r == notif.run
<1>1. /\ r \in Runs /\ IsActive(r) /\ IsFinal(notif.type) /\ notif.type \in NotifTypes
      /\ run[r].phase \in SourcePhases(notif.type)
  BY DEF Owned, NotifFollowsRun, TypeOK, NotifLocals, IsActive, SourcePhases,
         ActivePhases, NotifTypes
<1>2. TypeOK'
  BY DEF TypeOK, NotifLocals, NotifSteps, StepAfter
<1>3. /\ notif'.run = r /\ notif'.type = notif.type /\ notif'.rec = notif.rec
      /\ notif'.clients = notif.clients /\ notif'.pc = "save"
      /\ \A j \in Jobs : j # run[r].job => listeningClients'[j] = listeningClients[j]
  BY DEF TypeOK, NotifLocals, StepAfter
<1>4. Owned' /\ NotifFollowsRun' /\ NoLostUpdate' /\ SchedulerIsNotified'
  BY <1>1, <1>3 DEF Owned, NotifFollowsRun, NoLostUpdate, SchedulerIsNotified
<1>5. ActiveJobs' /\ VerifiedRunsHaveFile' /\ FinishedHasVerifiedFile' /\ StuckOnlyIfAbandoned'
  BY DEF ActiveJobs, VerifiedRunsHaveFile, FinishedHasVerifiedFile,
     StuckOnlyIfAbandoned, ActiveRunsOf, BeingScheduled, IsActive
<1>6. WebReadsAreGood'
  BY <1>1, <1>3 DEF WebReadsAreGood, IsActive, Owned
<1>7. SchedulerListens'
  <2> SUFFICES ASSUME NEW s \in Runs, IsActive(s), ~LastWordRead(s)'
               PROVE  /\ run[s].client \in listeningClients'[run[s].job]
                      /\ web.pc = "joinWrite" /\ web.job = run[s].job
                           => run[s].client \in web.clients
    BY DEF SchedulerListens, IsActive
  <2>1. s # r
    BY <1>1, <1>3 DEF LastWordRead
  <2>2. run[s].job \in Jobs /\ run[s].job # run[r].job
    BY <1>1, <2>1 DEF ActiveJobs, Owned, IsActive, ActivePhases
  <2> QED
    BY <1>3, <2>1, <2>2 DEF SchedulerListens, LastWordRead
<1> QED
  BY <1>2, <1>4, <1>5, <1>6, <1>7

\* The record that is saved was made from the one in Redis (NoLostUpdate). With
\* a final notification the run is over, and no other run of the job is active.
LEMMA NotifySaveJobStep == ASSUME IInv, NotifySaveJob PROVE IInv'
<1> USE DEF IInv
<1> DEFINE r == notif.run
           j == run[r].job
<1>1. /\ notif.pc = "save" /\ r \in Runs /\ IsActive(r) /\ notif.type \in NotifTypes
      /\ run[r].phase \in SourcePhases(notif.type) /\ j \in Jobs
      /\ job' = [job EXCEPT ![j] = notif.rec]
      /\ run' = [run EXCEPT ![r].phase = PhaseAfter(notif.type)]
      /\ notif' = [notif EXCEPT !.pc = "send"]
      /\ UNCHANGED <<listeningClients, jobsOfClient, web, file, abandoned>>
  BY DEF NotifySaveJob, StepAfter, Owned, NotifFollowsRun, TypeOK, NotifLocals, IsActive,
         SourcePhases, ActivePhases, NotifTypes
<1>2. /\ job[j] \in JobRecords /\ IsInProgress(job[j]) /\ job[j].archive = "none"
      /\ notif.rec = Updated(job[j], notif.type)
  BY <1>1 DEF TypeOK, ActiveJobs, NoLostUpdate
<1>3. /\ notif.rec.state = "FINISHED" => run[r].phase = "verified"
      /\ IsFinal(notif.type) => ~IsInProgress(notif.rec)
      /\ ~IsFinal(notif.type) => IsInProgress(notif.rec) /\ notif.rec.archive = "none"
  BY <1>1, <1>2 DEF Updated, IsInProgress, IsFinal, NotifTypes, JobRecords, SourcePhases
<1>4. TypeOK'
  <2>1. notif.rec \in JobRecords /\ notif' \in NotifLocals
    BY <1>1 DEF TypeOK, NotifLocals, NotifSteps
  <2>2. PhaseAfter(notif.type) \in Phases
    BY DEF PhaseAfter, Phases, ActivePhases
  <2> QED BY <1>1, <2>1, <2>2 DEF TypeOK
<1>5. /\ \A s \in Runs \ {r} : run'[s] = run[s] /\ (IsActive(s)' <=> IsActive(s))
      /\ run'[r].job = j /\ run'[r].client = run[r].client
      /\ run'[r].phase = PhaseAfter(notif.type)
      /\ IsActive(r)' <=> ~IsFinal(notif.type)
  BY <1>1 DEF TypeOK, IsActive, PhaseAfter, ActivePhases
<1>6. /\ job'[j] = notif.rec
      /\ \A k \in Jobs \ {j} : job'[k] = job[k]
  BY <1>1 DEF TypeOK
<1>7. /\ notif'.run = r /\ notif'.type = notif.type /\ notif'.clients = notif.clients
      /\ notif'.pc = "send"
  BY <1>1 DEF TypeOK, NotifLocals
<1>8. \A s \in Runs \ {r} : IsActive(s) => run[s].job \in Jobs \ {j}
  BY <1>1 DEF ActiveJobs, Owned, IsActive, ActivePhases
<1>9. Owned' /\ NotifFollowsRun' /\ NoLostUpdate' /\ SchedulerIsNotified'
  BY <1>1, <1>5, <1>7 DEF Owned, NotifFollowsRun, NoLostUpdate, SchedulerIsNotified, PhaseAfter
<1>10. ActiveJobs'
  <2>1. \A k \in Jobs : IsInProgress(job'[k]) => job'[k].archive = "none"
    BY <1>3, <1>6 DEF ActiveJobs
  <2>2. \A s \in Runs : IsActive(s)' => IsInProgress(job'[run'[s].job])
    BY <1>1, <1>3, <1>5, <1>6, <1>8 DEF ActiveJobs
  <2>3. \A s, t \in Runs : IsActive(s)' /\ IsActive(t)' /\ run'[s].job = run'[t].job => s = t
    BY <1>1, <1>5 DEF ActiveJobs
  <2> QED BY <2>1, <2>2, <2>3 DEF ActiveJobs
<1>11. WebReadsAreGood'
  <2>1. web.pc \in {"cached", "save", "listenRead", "listenWrite", "enqueue"} => web.job \in Jobs \ {j}
    BY <1>1, <1>2 DEF WebReadsAreGood, Owned
  <2> QED
    BY <1>1, <1>5, <1>6, <2>1 DEF WebReadsAreGood
<1>12. SchedulerListens'
  BY <1>1, <1>5, <1>7 DEF SchedulerListens, LastWordRead
<1>13. VerifiedRunsHaveFile' /\ FinishedHasVerifiedFile'
  BY <1>1, <1>3, <1>5, <1>6 DEF VerifiedRunsHaveFile, FinishedHasVerifiedFile, PhaseAfter
<1>14. StuckOnlyIfAbandoned'
  <2> SUFFICES ASSUME NEW k \in Jobs
               PROVE  (IsInProgress(job'[k]) /\ ActiveRunsOf(k)' = {} /\ ~BeingScheduled(k)')
                        <=> k \in abandoned
    BY <1>1 DEF StuckOnlyIfAbandoned
  <2>1. BeingScheduled(k)' <=> BeingScheduled(k)
    BY <1>1 DEF BeingScheduled
  <2>2. CASE k = j
    <3>1. r \in ActiveRunsOf(k) /\ (~IsFinal(notif.type) => r \in ActiveRunsOf(k)')
      BY <1>1, <1>5, <2>2 DEF ActiveRunsOf
    <3> QED
      BY <1>3, <1>6, <2>2, <3>1 DEF StuckOnlyIfAbandoned
  <2>3. CASE k # j
    <3>1. ActiveRunsOf(k)' = ActiveRunsOf(k)
      BY <1>5, <2>3 DEF ActiveRunsOf, IsActive
    <3> QED
      BY <1>6, <2>1, <2>3, <3>1 DEF StuckOnlyIfAbandoned
  <2> QED BY <2>2, <2>3
<1> QED
  BY <1>4, <1>9, <1>10, <1>11, <1>12, <1>13, <1>14

LEMMA NotifySendStep == ASSUME IInv, NotifySend PROVE IInv'
<1> USE DEF IInv
<1> DEFINE r == notif.run
<1>1. /\ notif.pc = "send" /\ r \in Runs /\ run[r].phase = PhaseAfter(notif.type)
      /\ notif' = NotifIdle
      /\ run' = IF IsFinal(notif.type) THEN [run EXCEPT ![r] = NoRun] ELSE run
      /\ UNCHANGED <<job, listeningClients, jobsOfClient, web, file, abandoned>>
  BY DEF NotifySend, Owned, NotifFollowsRun
<1>2. \A s \in Runs : /\ run'[s] = run[s] \/ (run'[s] = NoRun /\ ~IsActive(s))
                      /\ IsActive(s)' <=> IsActive(s)
                      /\ IsActive(s) => run'[s] = run[s]
  BY <1>1 DEF IsActive, NoRun, PhaseAfter, ActivePhases, TypeOK
<1>3. TypeOK'
  <2>1. NotifIdle \in NotifLocals
    BY DEF NotifIdle, NoJob, NotifLocals, NotifSteps, NotifTypes, JobRecords, JobStates,
           ArchiveStates
  <2> QED BY <1>1, <2>1 DEF TypeOK, NoRun, Phases
<1>4. Owned' /\ NotifFollowsRun' /\ NoLostUpdate' /\ SchedulerIsNotified'
  BY <1>1, <1>2 DEF Owned, NotifFollowsRun, NoLostUpdate, SchedulerIsNotified, NotifIdle, NoRun
<1>5. ActiveJobs' /\ WebReadsAreGood'
  BY <1>1, <1>2 DEF ActiveJobs, WebReadsAreGood
<1>6. SchedulerListens'
  BY <1>1, <1>2 DEF SchedulerListens, LastWordRead
<1>7. VerifiedRunsHaveFile' /\ FinishedHasVerifiedFile'
  BY <1>1, <1>2 DEF VerifiedRunsHaveFile, FinishedHasVerifiedFile, NoRun
<1>8. StuckOnlyIfAbandoned'
  <2>1. \A k \in Jobs : ActiveRunsOf(k)' = ActiveRunsOf(k) /\ (BeingScheduled(k)' <=> BeingScheduled(k))
    BY <1>1, <1>2 DEF ActiveRunsOf, BeingScheduled, IsActive
  <2> QED BY <1>1, <2>1 DEF StuckOnlyIfAbandoned
<1> QED
  BY <1>3, <1>4, <1>5, <1>6, <1>7, <1>8
------------------------------------------------------------------------------
(* Steps of a run *)

\* Run r goes from one active phase to another, notify does not work for it (or
\* stops to), and the file of its job may change unless the run is verified.
LEMMA RunMovesOn ==
  ASSUME IInv, NEW r \in Runs, IsActive(r), NEW p \in ActivePhases,
         NEW content \in {"absent", "partial", "complete"},
         run' = [run EXCEPT ![r].phase = p],
         file' = [file EXCEPT ![run[r].job] = content],
         p = "verified" => content = "complete",
         \/ notif' = NotifIdle /\ notif.run = r /\ ~IsFinal(notif.type)
         \/ notif' = notif /\ (notif.pc # "idle" => notif.run # r),
         UNCHANGED <<job, listeningClients, jobsOfClient, web, abandoned>>
  PROVE  IInv'
<1> USE DEF IInv
<1> DEFINE j == run[r].job
<1>1. j \in Jobs /\ run[r].client \in Clients /\ IsInProgress(job[j])
  BY DEF Owned, IsActive, ActivePhases, ActiveJobs
<1>2. NotifIdle \in NotifLocals
  BY DEF NotifIdle, NoJob, NotifLocals, NotifSteps, NotifTypes, JobRecords, JobStates,
         ArchiveStates
<1>3. TypeOK'
  BY <1>2 DEF TypeOK, Phases
<1>4. /\ \A s \in Runs \ {r} : run'[s] = run[s]
      /\ run'[r].phase = p /\ run'[r].job = j /\ run'[r].client = run[r].client
  BY DEF TypeOK
<1>5. \A s \in Runs : run'[s].job = run[s].job /\ run'[s].client = run[s].client
                      /\ (IsActive(s)' <=> IsActive(s))
  BY <1>4 DEF IsActive
<1>6. /\ file'[j] = content
      /\ \A k \in Jobs \ {j} : file'[k] = file[k]
  BY <1>1 DEF TypeOK
<1>7. Owned' /\ NotifFollowsRun' /\ NoLostUpdate' /\ SchedulerIsNotified'
  <2>1. CASE notif' = NotifIdle
    BY <1>1, <1>4, <1>5, <2>1 DEF Owned, NotifFollowsRun, NoLostUpdate, SchedulerIsNotified,
       NotifIdle, ActivePhases
  <2>2. CASE notif' = notif /\ (notif.pc # "idle" => notif.run # r)
    <3>1. notif.pc # "idle" => run'[notif.run] = run[notif.run]
      BY <1>4, <2>2 DEF Owned
    <3> QED
      BY <1>1, <1>4, <1>5, <2>2, <3>1 DEF Owned, NotifFollowsRun, NoLostUpdate,
         SchedulerIsNotified, ActivePhases, TypeOK, NotifLocals, NotifSteps
  <2> QED BY <2>1, <2>2
<1>8. ActiveJobs' /\ WebReadsAreGood'
  BY <1>5 DEF ActiveJobs, WebReadsAreGood
<1>9. SchedulerListens'
  <2>1. \A s \in Runs : LastWordRead(s) => LastWordRead(s)'
    BY DEF LastWordRead
  <2> QED
    BY <1>5, <2>1 DEF SchedulerListens
<1>10. VerifiedRunsHaveFile'
  <2> SUFFICES ASSUME NEW s \in Runs, run'[s].phase = "verified"
               PROVE  file'[run'[s].job] = "complete"
    BY DEF VerifiedRunsHaveFile
  <2>1. CASE s = r
    BY <1>4, <1>6, <2>1
  <2>2. CASE s # r
    <3>1. run[s].phase = "verified" /\ run[s].job \in Jobs \ {j}
      BY <1>4, <2>2 DEF ActiveJobs, IsActive, ActivePhases, Owned
    <3> QED BY <1>4, <1>6, <2>2, <3>1 DEF VerifiedRunsHaveFile
  <2> QED BY <2>1, <2>2
<1>11. FinishedHasVerifiedFile'
  BY <1>1, <1>6 DEF FinishedHasVerifiedFile, IsInProgress
<1>12. StuckOnlyIfAbandoned'
  <2>1. \A k \in Jobs : ActiveRunsOf(k)' = ActiveRunsOf(k)
    BY <1>5 DEF ActiveRunsOf
  <2> QED BY <2>1 DEF StuckOnlyIfAbandoned, BeingScheduled
<1> QED
  BY <1>3, <1>7, <1>8, <1>9, <1>10, <1>11, <1>12

\* Run r is lost: its job stays in progress without anybody working on it.
LEMMA RunIsLost ==
  ASSUME IInv, NEW r \in Runs, IsActive(r),
         run' = [run EXCEPT ![r] = LostRun],
         abandoned' = abandoned \cup {run[r].job},
         \/ notif' = NotifIdle /\ notif.run = r
         \/ notif' = notif /\ notif.run # r,
         UNCHANGED <<job, listeningClients, jobsOfClient, web, file>>
  PROVE  IInv'
<1> USE DEF IInv
<1> DEFINE j == run[r].job
<1>1. j \in Jobs /\ IsInProgress(job[j])
  BY DEF Owned, IsActive, ActivePhases, ActiveJobs
<1>2. NotifIdle \in NotifLocals
  BY DEF NotifIdle, NoJob, NotifLocals, NotifSteps, NotifTypes, JobRecords, JobStates,
         ArchiveStates
<1>3. TypeOK'
  BY <1>1, <1>2 DEF TypeOK, LostRun, Phases
<1>4. /\ \A s \in Runs \ {r} : run'[s] = run[s] /\ (IsActive(s)' <=> IsActive(s))
      /\ run'[r] = LostRun /\ ~IsActive(r)'
  BY DEF TypeOK, IsActive, LostRun, ActivePhases
<1>5. Owned' /\ NotifFollowsRun' /\ NoLostUpdate' /\ SchedulerIsNotified'
  <2>1. CASE notif' = NotifIdle
    BY <1>4, <2>1 DEF Owned, NotifFollowsRun, NoLostUpdate, SchedulerIsNotified,
       NotifIdle, LostRun
  <2>2. CASE notif' = notif /\ notif.run # r
    <3>1. notif.pc # "idle" => run'[notif.run] = run[notif.run]
      BY <1>4, <2>2 DEF Owned
    <3> QED
      BY <1>4, <2>2, <3>1 DEF Owned, NotifFollowsRun, NoLostUpdate, SchedulerIsNotified,
         LostRun, TypeOK, NotifLocals, NotifSteps
  <2> QED BY <2>1, <2>2
<1>6. ActiveJobs' /\ WebReadsAreGood'
  BY <1>4 DEF ActiveJobs, WebReadsAreGood
<1>7. SchedulerListens'
  <2>1. \A s \in Runs \ {r} : LastWordRead(s) => LastWordRead(s)'
    BY DEF LastWordRead
  <2> QED
    BY <1>4, <2>1 DEF SchedulerListens
<1>8. VerifiedRunsHaveFile' /\ FinishedHasVerifiedFile'
  BY <1>4 DEF VerifiedRunsHaveFile, FinishedHasVerifiedFile, LostRun
<1>9. StuckOnlyIfAbandoned'
  <2> SUFFICES ASSUME NEW k \in Jobs
               PROVE  (IsInProgress(job[k]) /\ ActiveRunsOf(k)' = {} /\ ~BeingScheduled(k))
                        <=> k \in abandoned'
    BY DEF StuckOnlyIfAbandoned, BeingScheduled
  <2>1. CASE k = j
    <3>1. ~BeingScheduled(k)
      BY <1>1, <2>1 DEF WebReadsAreGood, BeingScheduled
    <3>2. ActiveRunsOf(k)' = {}
      BY <1>4, <2>1 DEF ActiveRunsOf, ActiveJobs
    <3> QED
      BY <1>1, <2>1, <3>1, <3>2
  <2>2. CASE k # j
    <3>1. ActiveRunsOf(k)' = ActiveRunsOf(k)
      BY <1>4, <2>2 DEF ActiveRunsOf
    <3> QED
      BY <2>2, <3>1 DEF StuckOnlyIfAbandoned
  <2> QED BY <2>1, <2>2
<1> QED
  BY <1>3, <1>5, <1>6, <1>7, <1>8, <1>9

\* A failing SET ends the notification: the outcome of the run is lost with it,
\* any other update is skipped.
LEMMA NotifySaveFailsStep == ASSUME IInv, NotifySaveFails PROVE IInv'
<1> DEFINE r == notif.run
           j == run[r].job
<1>1. /\ r \in Runs /\ IsActive(r) /\ notif.type \in NotifTypes /\ notif' = NotifIdle
      /\ UNCHANGED <<job, listeningClients, jobsOfClient, web, file>>
  BY DEF IInv, NotifySaveFails, Owned, NotifFollowsRun, TypeOK, NotifLocals, IsActive,
         SourcePhases, ActivePhases, NotifTypes
<1>2. CASE IsFinal(notif.type)
  <2>1. run' = [run EXCEPT ![r] = LostRun] /\ abandoned' = abandoned \cup {run[r].job}
    BY <1>2 DEF NotifySaveFails
  <2> QED BY <1>1, <2>1, RunIsLost
<1>3. CASE ~IsFinal(notif.type)
  <2>1. run' = [run EXCEPT ![r].phase = "started"] /\ abandoned' = abandoned
    BY <1>3 DEF NotifySaveFails, PhaseAfter
  <2>2. j \in Jobs /\ file[j] \in {"absent", "partial", "complete"}
        /\ file' = [file EXCEPT ![j] = file[j]]
    BY <1>1 DEF IInv, TypeOK, Owned, IsActive, ActivePhases
  <2>3. "started" \in ActivePhases /\ "started" # "verified"
    BY DEF ActivePhases
  <2> QED BY <1>1, <1>3, <2>1, <2>2, <2>3, RunMovesOn
<1> QED BY <1>2, <1>3

\* The steps of a run that notify has no part in.
LEMMA RunSteps ==
  ASSUME IInv, NEW r \in Runs,
         \/ Connect(r) \/ ConversionFinished(r) \/ BeginTransfer(r) \/ EndTransfer(r)
         \/ Lose(r)
  PROVE  IInv'
<1> DEFINE j == run[r].job
<1>1. IsActive(r)
  BY DEF Connect, ConversionFinished, BeginTransfer, EndTransfer, Lose, IsActive, ActivePhases
<1>2. j \in Jobs /\ file[j] \in {"absent", "partial", "complete"}
      /\ file = [file EXCEPT ![j] = file[j]]
  BY <1>1 DEF IInv, TypeOK, Owned, IsActive, ActivePhases
<1>3. CASE Connect(r)
  <2>1. notif.pc # "idle" => notif.run # r
    BY <1>3 DEF Connect, IInv, NotifFollowsRun, SourcePhases, PhaseAfter, TypeOK, NotifLocals,
       NotifSteps, NotifTypes
  <2>2. "connected" \in ActivePhases /\ "connected" # "verified"
    BY DEF ActivePhases
  <2> QED BY <1>1, <1>2, <1>3, <2>1, <2>2, RunMovesOn DEF Connect
<1>4. CASE ConversionFinished(r)
  <2>1. "converted" \in ActivePhases /\ "converted" # "verified"
    BY DEF ActivePhases
  <2> QED BY <1>1, <1>2, <1>4, <2>1, RunMovesOn DEF ConversionFinished
<1>5. CASE BeginTransfer(r)
  <2>1. "transferring" \in ActivePhases /\ "transferring" # "verified"
    BY DEF ActivePhases
  <2> QED BY <1>1, <1>5, <2>1, RunMovesOn DEF BeginTransfer
<1>6. CASE EndTransfer(r)
  <2>1. "verified" \in ActivePhases
    BY DEF ActivePhases
  <2> QED BY <1>1, <1>6, <2>1, RunMovesOn DEF EndTransfer
<1>7. CASE Lose(r)
  BY <1>1, <1>7, RunIsLost DEF Lose
<1> QED BY <1>3, <1>4, <1>5, <1>6, <1>7

------------------------------------------------------------------------------
(* The environment *)

LEMMA ArchiveExpiresStep == ASSUME IInv, NEW j \in Jobs, ArchiveExpires(j) PROVE IInv'
<1> USE DEF IInv, ArchiveExpires
<1>1. job[j] \in JobRecords /\ ~IsInProgress(job[j])
  BY DEF TypeOK, ActiveJobs
<1>2. TypeOK'
  BY <1>1 DEF TypeOK, JobRecords, ArchiveStates
<1>3. /\ \A k \in Jobs \ {j} : job'[k] = job[k]
      /\ job'[j].state = job[j].state
  BY <1>1 DEF TypeOK, JobRecords
<1>4. \A r \in Runs : IsActive(r) => run[r].job \in Jobs \ {j}
  BY <1>1 DEF ActiveJobs, Owned, IsActive, ActivePhases
<1>5. Owned' /\ NotifFollowsRun' /\ SchedulerListens' /\ SchedulerIsNotified'
      /\ VerifiedRunsHaveFile'
  BY DEF Owned, NotifFollowsRun, SchedulerListens, LastWordRead, SchedulerIsNotified,
         VerifiedRunsHaveFile, IsActive
<1>6. \A k \in Jobs : IsInProgress(job'[k]) <=> IsInProgress(job[k])
  BY <1>3 DEF IsInProgress
<1>7. ActiveJobs'
  <2>1. \A k \in Jobs : IsInProgress(job'[k]) => job'[k].archive = "none"
    BY <1>1, <1>3, <1>6 DEF ActiveJobs
  <2> QED BY <1>4, <1>6, <2>1 DEF ActiveJobs, IsActive
<1>8. WebReadsAreGood'
  <2>1. web.pc \in {"listenRead", "listenWrite", "enqueue"} => web.job \in Jobs \ {j}
    BY <1>1 DEF WebReadsAreGood, Owned, IsInProgress, ReadyJob
  <2>2. web.pc # "idle" => web.job \in Jobs
    BY DEF Owned
  <2> QED BY <1>3, <1>6, <2>1, <2>2 DEF WebReadsAreGood, IsActive
<1>9. NoLostUpdate'
  <2>1. notif.pc \in {"listeners", "delete", "save"} => run[notif.run].job \in Jobs \ {j}
    BY <1>4 DEF NotifFollowsRun, SourcePhases, TypeOK, NotifLocals, NotifTypes, Owned,
       IsActive, ActivePhases
  <2> QED BY <1>3, <2>1 DEF NoLostUpdate
<1>10. FinishedHasVerifiedFile'
  BY <1>3 DEF FinishedHasVerifiedFile
<1>11. StuckOnlyIfAbandoned'
  BY <1>6 DEF StuckOnlyIfAbandoned, ActiveRunsOf, BeingScheduled, IsActive
<1> QED
  BY <1>2, <1>5, <1>7, <1>8, <1>9, <1>10, <1>11

\* After a restart nobody works on a job unless its run still waits in the queue.
LEMMA CrashStep == ASSUME IInv, Crash PROVE IInv'
<1> USE DEF IInv
<1> DEFINE cut == {r \in Runs : run[r].phase \in ActivePhases \ {"queued"}}
           unfinished == IF web.pc \in {"listenRead", "listenWrite", "enqueue"}
                         THEN {web.job} ELSE {}
<1>1. /\ web' = WebIdle /\ notif' = NotifIdle
      /\ run' = [r \in Runs |-> CASE r \in cut -> LostRun
                                   [] run[r].phase = "over" -> NoRun
                                   [] OTHER -> run[r]]
      /\ abandoned' = abandoned \cup {run[r].job : r \in cut} \cup unfinished
      /\ UNCHANGED <<job, listeningClients, jobsOfClient, file>>
  BY DEF Crash
<1>2. \A r \in Runs : \/ run'[r] \in {NoRun, LostRun} /\ run[r].phase # "queued"
                      \/ run'[r] = run[r] /\ run[r].phase \notin ActivePhases \ {"queued"}
  BY <1>1 DEF ActivePhases
<1>3. \A r \in Runs : /\ IsActive(r)' <=> run[r].phase = "queued"
                      /\ IsActive(r)' => IsActive(r) /\ run'[r] = run[r]
  BY <1>2 DEF IsActive, NoRun, LostRun, ActivePhases
<1>4. TypeOK'
  <2>1. NotifIdle \in NotifLocals /\ WebIdle \in WebLocals
    BY DEF NotifIdle, NoJob, NotifLocals, NotifSteps, NotifTypes, JobRecords, JobStates,
           ArchiveStates, WebIdle, WebLocals, WebSteps
  <2>2. \A r \in Runs : run'[r] \in [phase : Phases, job : Jobs \cup {None},
                                      client : Clients \cup {None}]
    BY <1>2 DEF TypeOK, NoRun, LostRun, Phases
  <2>3. abandoned' \subseteq Jobs
    BY <1>1 DEF TypeOK, Owned, ActivePhases
  <2> HIDE DEF cut
  <2> QED BY <1>1, <2>1, <2>2, <2>3 DEF TypeOK
<1> HIDE DEF cut, unfinished
<1>5. Owned' /\ NotifFollowsRun' /\ NoLostUpdate' /\ SchedulerIsNotified'
      /\ VerifiedRunsHaveFile'
  BY <1>1, <1>2 DEF Owned, NotifFollowsRun, NoLostUpdate, SchedulerIsNotified, NotifIdle,
     WebIdle, VerifiedRunsHaveFile, NoRun, LostRun
<1>6. ActiveJobs' /\ WebReadsAreGood' /\ FinishedHasVerifiedFile'
  BY <1>1, <1>3 DEF ActiveJobs, WebReadsAreGood, WebIdle, FinishedHasVerifiedFile
<1>7. SchedulerListens'
  <2>1. \A r \in Runs : run[r].phase = "queued" => ~LastWordRead(r)
    BY DEF LastWordRead, NotifFollowsRun, SourcePhases, TypeOK, NotifLocals, NotifTypes
  <2> QED BY <1>1, <1>3, <2>1 DEF SchedulerListens, WebIdle
<1>8. StuckOnlyIfAbandoned'
  <2> SUFFICES ASSUME NEW k \in Jobs
               PROVE  (IsInProgress(job[k]) /\ ActiveRunsOf(k)' = {}) <=> k \in abandoned'
    BY <1>1 DEF StuckOnlyIfAbandoned, BeingScheduled, WebIdle
  <2>1. CASE \E r \in cut : run[r].job = k
    <3>1. PICK r \in Runs : r \in cut /\ run[r].job = k /\ IsActive(r) /\ ~IsActive(r)'
      BY <1>3, <2>1 DEF cut, IsActive, ActivePhases
    <3>2. IsInProgress(job[k]) /\ ActiveRunsOf(k)' = {}
      BY <1>3, <3>1 DEF ActiveRunsOf, ActiveJobs
    <3> QED BY <1>1, <2>1, <3>2
  <2>2. CASE /\ BeingScheduled(k)
             /\ \A r \in cut : run[r].job # k
    <3>1. IsInProgress(job[k]) /\ ActiveRunsOf(k)' = {} /\ k \in unfinished
      BY <1>3, <2>2 DEF BeingScheduled, WebReadsAreGood, ActiveRunsOf, IsInProgress, ReadyJob,
         unfinished
    <3> QED BY <1>1, <3>1
  <2>3. CASE /\ ~BeingScheduled(k)
             /\ \A r \in cut : run[r].job # k
    <3>1. ActiveRunsOf(k)' = ActiveRunsOf(k)
      BY <1>3, <2>3 DEF ActiveRunsOf, cut, IsActive, ActivePhases
    <3>2. k \in abandoned' <=> k \in abandoned
      BY <1>1, <2>3 DEF BeingScheduled, unfinished
    <3> QED BY <2>3, <3>1, <3>2 DEF StuckOnlyIfAbandoned
  <2> QED BY <2>1, <2>2, <2>3
<1> QED
  BY <1>4, <1>5, <1>6, <1>7, <1>8

------------------------------------------------------------------------------
(* The theorems *)

LEMMA InvNext == IInv /\ [Next]_vars => IInv'
<1> SUFFICES ASSUME IInv, [Next]_vars PROVE IInv'
  OBVIOUS
<1>1. CASE UNCHANGED vars
  BY <1>1 DEF vars, IInv, TypeOK, Owned, ActiveJobs, WebReadsAreGood, NotifFollowsRun,
     NoLostUpdate, SchedulerListens, LastWordRead, SchedulerIsNotified, VerifiedRunsHaveFile,
     FinishedHasVerifiedFile, StuckOnlyIfAbandoned, ActiveRunsOf, BeingScheduled, IsActive
<1>2. ASSUME \E c \in Clients, j \in Jobs, force \in BOOLEAN : Request(c, j, force)
      PROVE  IInv'
  BY <1>2, WebReadSteps
<1>3. CASE WebStep
  BY <1>3, WebReadSteps, WriteListenersStep, SaveReadyJobStep, EnqueueStep, WebWriteFailsStep
     DEF WebStep
<1>4. ASSUME NEW r \in Runs, NEW type \in NotifTypes, NotifyReadJob(r, type) PROVE IInv'
  BY <1>4, NotifyReadJobStep
<1>5. CASE NotifyStep
  BY <1>5, NotifyReadListenersStep, NotifyRemoveListenersStep, NotifySaveJobStep,
     NotifySaveFailsStep, NotifySendStep DEF NotifyStep
<1>6. ASSUME NEW r \in Runs, \/ Connect(r) \/ ConversionFinished(r)
                             \/ BeginTransfer(r) \/ EndTransfer(r) \/ Lose(r)
      PROVE  IInv'
  BY <1>6, RunSteps
<1>7. ASSUME NEW j \in Jobs, ArchiveExpires(j) PROVE IInv'
  BY <1>7, ArchiveExpiresStep
<1>8. CASE Crash
  BY <1>8, CrashStep
<1> QED
  BY <1>1, <1>2, <1>3, <1>4, <1>5, <1>6, <1>7, <1>8 DEF Next

\* The inductive invariant holds in every reachable state.
THEOREM Invariance == Spec => []IInv
BY InvInit, InvNext, PTL DEF Spec

\* Every record, every list and every local of the two threads keeps its type,
\* whatever the two threads read from each other's writes.
THEOREM TypeCorrect == Spec => []TypeOK
<1>1. IInv => TypeOK
  BY DEF IInv
<1> QED BY <1>1, Invariance, PTL

\* No job is ever converted by two workers, however the two threads interleave.
THEOREM NoTwoRuns == Spec => []OneActiveRun
<1>1. IInv => OneActiveRun
  <2> SUFFICES ASSUME IInv, NEW j \in Jobs PROVE Cardinality(ActiveRunsOf(j)) <= 1
    BY DEF OneActiveRun
  <2>1. CASE ActiveRunsOf(j) = {}
    <3>1. Cardinality({}) = 0
      BY FS_EmptySet
    <3> QED BY <2>1, <3>1
  <2>2. CASE ActiveRunsOf(j) # {}
    <3>1. PICK r : ActiveRunsOf(j) = {r}
      BY <2>2 DEF IInv, ActiveJobs, ActiveRunsOf
    <3>2. Cardinality({r}) = 1
      BY FS_Singleton
    <3> QED BY <3>1, <3>2
  <2> QED BY <2>1, <2>2
<1> QED BY <1>1, Invariance, PTL

\* The record notify saves is an update of the record that is in Redis.
THEOREM NoUpdateIsLost == Spec => []NoLostUpdate
<1>1. IInv => NoLostUpdate
  BY DEF IInv
<1> QED BY <1>1, Invariance, PTL

\* Every notification of a run goes to the client that scheduled it, too.
THEOREM SchedulerAlwaysNotified == Spec => []SchedulerIsNotified
<1>1. IInv => SchedulerIsNotified
  BY DEF IInv
<1> QED BY <1>1, Invariance, PTL

\* A record says FINISHED only while the job's archive is complete.
THEOREM FinishedFileIsVerified == Spec => []FinishedHasVerifiedFile
<1>1. IInv => FinishedHasVerifiedFile
  BY DEF IInv
<1> QED BY <1>1, Invariance, PTL

\* A job waits for nobody exactly when a fault lost its run.
THEOREM OnlyFaultsLeaveJobsStuck == Spec => []StuckOnlyIfAbandoned
<1>1. IInv => StuckOnlyIfAbandoned
  BY DEF IInv
<1> QED BY <1>1, Invariance, PTL

------------------------------------------------------------------------------
(* The limit of runs per client.  execute counts the client's jobs in      *)
(* progress record by record, while the TCP thread ends runs; what makes   *)
(* the count an upper bound of the client's active runs all the way to     *)
(* enqueue is that only the web thread makes runs active, and that each    *)
(* active run's job is in the client's list (LimitInv).                    *)

RunsOf(c)    == {r \in Runs : IsActive(r) /\ run[r].client = c}
Within(S, n) == IsFiniteSet(S) /\ Cardinality(S) <= n

\* Each active run's job is in the list of the client it is for.
RunsAreListed == \A r \in Runs : IsActive(r) => run[r].job \in jobsOfClient[run[r].client]

RunsAreWithinLimit == \A c \in Clients : Within(RunsOf(c), MaxJobsPerClient)

\* The active runs of the client's jobs that were counted, or need not be.
Counted == {r \in RunsOf(web.client) : run[r].job \notin web.todo}

\* The count is an upper bound, of these runs while jobs are counted and of all of the client's runs then, until the
\* run it was made for is in the queue.
CountIsBound ==
    /\ web.pc = "count" => Within(Counted, web.count)
    /\ web.pc \in {"lookup", "cached", "save", "listenRead", "listenWrite", "enqueue"} =>
          /\ WithinLimit(web.count)
          /\ Within(RunsOf(web.client), web.count)
          /\ web.job \in jobsOfClient[web.client]

LimitInv == RunsAreListed /\ RunsAreWithinLimit /\ CountIsBound

------------------------------------------------------------------------------
(* Sets of at most n elements *)

\* A set within a bound has its subsets within it.
LEMMA WithinSubset ==
  ASSUME NEW S, NEW T \in SUBSET S, NEW n \in Nat, Within(S, n)
  PROVE  Within(T, n)
<1>1. IsFiniteSet(T) /\ Cardinality(T) <= Cardinality(S)
  BY FS_Subset DEF Within
<1>2. Cardinality(S) \in Nat /\ Cardinality(T) \in Nat
  BY <1>1, FS_CardinalityType DEF Within
<1> QED BY <1>1, <1>2 DEF Within

\* One more element is within a bound that is greater by one.
LEMMA WithinAdd ==
  ASSUME NEW S, NEW x, NEW n \in Nat, Within(S, n)
  PROVE  Within(S \cup {x}, n + 1)
<1>1. /\ IsFiniteSet(S \cup {x})
      /\ Cardinality(S \cup {x}) = IF x \in S THEN Cardinality(S) ELSE Cardinality(S) + 1
  BY FS_AddElement DEF Within
<1>2. Cardinality(S) \in Nat
  BY FS_CardinalityType DEF Within
<1> QED BY <1>1, <1>2 DEF Within

------------------------------------------------------------------------------
(* The steps *)

LEMMA LimitInit == Init => LimitInv
<1> SUFFICES ASSUME Init PROVE LimitInv
  OBVIOUS
<1>1. \A r \in Runs : ~IsActive(r)
  BY DEF Init, IsActive, NoRun, ActivePhases
<1>2. Within({}, MaxJobsPerClient)
  BY FS_EmptySet, LimitAssumption DEF Within
<1>3. \A c \in Clients : RunsOf(c) = {}
  BY <1>1 DEF RunsOf
<1> QED
  BY <1>1, <1>2, <1>3 DEF Init, WebIdle, LimitInv, RunsAreListed, RunsAreWithinLimit, CountIsBound

\* No run becomes active, and each that stays active keeps its job and its client.
FewerRuns == \A r \in Runs : IsActive(r)' => IsActive(r) /\ run'[r].job = run[r].job
                                                        /\ run'[r].client = run[r].client

\* Then each client's runs are among those it had.
LEMMA FewerRunsOf ==
  ASSUME FewerRuns
  PROVE  \A c : RunsOf(c)' \in SUBSET RunsOf(c)
BY DEF FewerRuns, RunsOf

\* A step that makes no run active and leaves the web thread and the clients' lists alone keeps LimitInv.
LEMMA LimitFrame ==
  ASSUME TypeOK, LimitInv, FewerRuns, UNCHANGED <<web, jobsOfClient>>
  PROVE  LimitInv'
<1>1. RunsAreListed'
  BY DEF LimitInv, FewerRuns, RunsAreListed
<1>2. RunsAreWithinLimit'
  BY FewerRunsOf, WithinSubset, LimitAssumption DEF LimitInv, RunsAreWithinLimit
<1>3. Counted' \in SUBSET Counted
  BY FewerRunsOf DEF Counted, FewerRuns, RunsOf
<1>4. CountIsBound'
  <2>1. web.count \in Nat
    BY DEF TypeOK, WebLocals
  <2>2. web.pc = "count" => Within(Counted', web.count)
    BY <1>3, <2>1, WithinSubset DEF LimitInv, CountIsBound
  <2>3. Within(RunsOf(web.client), web.count) => Within(RunsOf(web.client)', web.count)
    BY <2>1, FewerRunsOf, WithinSubset
  <2> QED
    BY <2>2, <2>3 DEF LimitInv, CountIsBound, WithinLimit
<1> QED
  BY <1>1, <1>2, <1>4 DEF LimitInv

\* The steps of the TCP thread, of the runs and of the archives are such steps.
LEMMA LimitOtherSteps ==
  ASSUME IInv, LimitInv,
         \/ \E r \in Runs, type \in NotifTypes : NotifyReadJob(r, type)
         \/ NotifyStep
         \/ \E r \in Runs : \/ Connect(r) \/ ConversionFinished(r)
                            \/ BeginTransfer(r) \/ EndTransfer(r) \/ Lose(r)
         \/ \E j \in Jobs : ArchiveExpires(j)
         \/ UNCHANGED vars
  PROVE  LimitInv'
<1> USE DEF IsActive
<1>1. TypeOK /\ UNCHANGED <<web, jobsOfClient>>
  BY DEF IInv, NotifyReadJob, NotifyStep, NotifyReadListeners, NotifyRemoveListeners, NotifySaveJob,
         NotifySaveFails, NotifySend, Connect, ConversionFinished, BeginTransfer, EndTransfer,
         Lose, ArchiveExpires, vars
<1>2. ASSUME NEW r \in Runs, NEW type \in NotifTypes, NotifyReadJob(r, type)
      PROVE  FewerRuns
  BY <1>1, <1>2 DEF FewerRuns, NotifyReadJob, TypeOK, NoRun, ActivePhases, SourcePhases, NotifTypes
<1>3. ASSUME NotifyReadListeners \/ NotifyRemoveListeners PROVE FewerRuns
  BY <1>3 DEF FewerRuns, NotifyReadListeners, NotifyRemoveListeners
<1>4. ASSUME NotifySaveJob \/ NotifySaveFails \/ NotifySend PROVE FewerRuns
  <2>1. notif.run \in Runs /\ notif.type \in NotifTypes
    BY <1>1, <1>4 DEF IInv, Owned, TypeOK, NotifLocals, NotifySaveJob, NotifySaveFails, NotifySend
  <2>2. notif.pc = "save" => IsActive(notif.run)
    BY <2>1 DEF IInv, NotifFollowsRun, SourcePhases, NotifTypes, ActivePhases
  <2>3. CASE NotifySaveJob
    BY <1>1, <2>1, <2>2, <2>3 DEF FewerRuns, NotifySaveJob, TypeOK, ActivePhases
  <2>4. CASE NotifySaveFails
    <3>1. /\ notif.pc = "save"
          /\ \/ run' = [run EXCEPT ![notif.run] = LostRun]
             \/ run' = [run EXCEPT ![notif.run].phase = "started"]
      BY <2>4 DEF NotifySaveFails, PhaseAfter
    <3> QED BY <1>1, <2>1, <2>2, <3>1 DEF FewerRuns, LostRun, TypeOK, ActivePhases
  <2>5. CASE NotifySend
    <3>1. run' = run \/ run' = [run EXCEPT ![notif.run] = NoRun]
      BY <2>5 DEF NotifySend
    <3> QED BY <1>1, <2>1, <3>1 DEF FewerRuns, NoRun, TypeOK, ActivePhases
  <2> QED BY <1>4, <2>3, <2>4, <2>5
<1>5. ASSUME NEW r \in Runs, Connect(r) \/ ConversionFinished(r) \/ BeginTransfer(r) \/ EndTransfer(r)
      PROVE  FewerRuns
  BY <1>1, <1>5 DEF FewerRuns, Connect, ConversionFinished, BeginTransfer, EndTransfer, TypeOK,
     ActivePhases
<1>6. ASSUME NEW r \in Runs, Lose(r) PROVE FewerRuns
  BY <1>1, <1>6 DEF FewerRuns, Lose, LostRun, TypeOK, ActivePhases
<1>7. ASSUME UNCHANGED vars \/ \E j \in Jobs : ArchiveExpires(j) PROVE FewerRuns
  BY <1>7 DEF FewerRuns, vars, ArchiveExpires
<1>8. FewerRuns
  BY <1>2, <1>3, <1>4, <1>5, <1>6, <1>7 DEF NotifyStep
<1> QED
  BY <1>1, <1>8, LimitFrame

\* The web thread's steps but those that count, assign and enqueue.
LEMMA LimitWebSteps ==
  ASSUME IInv, LimitInv,
         \/ RejectRequest \/ LookupJob \/ AnswerFromCache
         \/ ReadListeners \/ WriteListeners \/ SaveReadyJob \/ WebWriteFails
  PROVE  LimitInv'
<1>1. UNCHANGED <<run, jobsOfClient>>
  BY DEF RejectRequest, LookupJob, AnswerFromCache, ReadListeners, WriteListeners, SaveReadyJob,
         WebWriteFails
<1>2. RunsAreListed' /\ RunsAreWithinLimit'
  BY <1>1 DEF LimitInv, RunsAreListed, RunsAreWithinLimit, RunsOf, IsActive
<1>3. \/ web'.pc \notin {"count", "lookup", "cached", "save", "listenRead", "listenWrite", "enqueue"}
      \/ /\ web.pc \in {"lookup", "cached", "save", "listenRead", "listenWrite", "enqueue"}
         /\ web'.pc # "count"
         /\ web'.client = web.client /\ web'.job = web.job /\ web'.count = web.count
  <2>1. web \in WebLocals
    BY DEF IInv, TypeOK
  <2>2. WebIdle.pc = "idle"
    BY DEF WebIdle
  <2>3. CASE RejectRequest \/ WebWriteFails
    BY <2>2, <2>3 DEF RejectRequest, WebWriteFails
  <2>4. CASE LookupJob
    BY <2>1, <2>4 DEF LookupJob, Decision, WebLocals
  <2>5. CASE AnswerFromCache
    BY <2>1, <2>2, <2>5 DEF AnswerFromCache, WebLocals
  <2>6. CASE ReadListeners
    BY <2>1, <2>2, <2>6 DEF ReadListeners, WebLocals
  <2>7. CASE WriteListeners
    BY <2>1, <2>2, <2>7 DEF WriteListeners, WebLocals
  <2>8. CASE SaveReadyJob
    BY <2>1, <2>8 DEF SaveReadyJob, WebLocals
  <2> QED BY <2>3, <2>4, <2>5, <2>6, <2>7, <2>8
<1>4. RunsOf(web.client)' = RunsOf(web'.client)
  BY <1>1 DEF RunsOf, IsActive
<1>5. CountIsBound'
  BY <1>1, <1>3, <1>4 DEF LimitInv, CountIsBound, WithinLimit
<1> QED
  BY <1>2, <1>5 DEF LimitInv

\* At first none of the client's runs needs to be counted: the jobs of all of them are still to do.
LEMMA LimitRequest ==
  ASSUME IInv, LimitInv, NEW c \in Clients, NEW j \in Jobs, NEW force \in BOOLEAN, Request(c, j, force)
  PROVE  LimitInv'
<1>1. /\ UNCHANGED <<run, jobsOfClient>>
      /\ web'.pc = "count" /\ web'.client = c /\ web'.todo = jobsOfClient[c] /\ web'.count = 0
  BY DEF Request, WebIdle
<1>2. RunsAreListed' /\ RunsAreWithinLimit'
  BY <1>1 DEF LimitInv, RunsAreListed, RunsAreWithinLimit, RunsOf, IsActive
<1>3. Counted' = {}
  BY <1>1 DEF LimitInv, RunsAreListed, Counted, RunsOf, IsActive
<1>4. Within({}, 0)
  BY FS_EmptySet DEF Within
<1> QED
  BY <1>1, <1>2, <1>3, <1>4 DEF LimitInv, CountIsBound

\* A job that is counted has one active run at most, and one that is not in progress has none.
LEMMA LimitCountJob == ASSUME IInv, LimitInv, CountJob PROVE LimitInv'
<1>1. PICK k \in web.todo :
        web' = [web EXCEPT !.todo = @ \ {k},
                           !.count = IF IsInProgress(job[k]) THEN @ + 1 ELSE @]
  BY DEF CountJob
<1>2. web.pc = "count" /\ UNCHANGED <<run, jobsOfClient>> /\ web \in WebLocals
  BY DEF CountJob, IInv, TypeOK
<1>3. /\ web'.pc = "count" /\ web'.client = web.client /\ web'.todo = web.todo \ {k}
      /\ web'.count = IF IsInProgress(job[k]) THEN web.count + 1 ELSE web.count
      /\ web.count \in Nat
  BY <1>1, <1>2 DEF WebLocals
<1>4. RunsAreListed' /\ RunsAreWithinLimit'
  BY <1>2 DEF LimitInv, RunsAreListed, RunsAreWithinLimit, RunsOf, IsActive
<1>5. Within(Counted, web.count)
  BY <1>2 DEF LimitInv, CountIsBound
<1>6. Within(Counted', web'.count)
  <2>1. CASE \E r \in Runs : IsActive(r) /\ run[r].job = k
    <3>1. PICK r \in Runs : IsActive(r) /\ run[r].job = k
      BY <2>1
    <3>2. IsInProgress(job[k])
      BY <3>1 DEF IInv, ActiveJobs
    <3>3. \A s \in Runs : IsActive(s) /\ run[s].job = k => s = r
      BY <3>1 DEF IInv, ActiveJobs
    <3>4. Counted' \in SUBSET (Counted \cup {r})
      BY <1>2, <1>3, <3>3 DEF Counted, RunsOf, IsActive
    <3>5. Within(Counted \cup {r}, web.count + 1)
      BY <1>3, <1>5, WithinAdd
    <3> QED BY <1>3, <3>2, <3>4, <3>5, WithinSubset
  <2>2. CASE ~\E r \in Runs : IsActive(r) /\ run[r].job = k
    <3>1. Counted' = Counted
      BY <1>2, <1>3, <2>2 DEF Counted, RunsOf, IsActive
    <3>2. Cardinality(Counted) \in Nat
      BY <1>5, FS_CardinalityType DEF Within
    <3> QED BY <1>3, <1>5, <3>1, <3>2 DEF Within
  <2> QED BY <2>1, <2>2
<1> QED
  BY <1>3, <1>4, <1>6 DEF LimitInv, CountIsBound

\* When nothing is left to count, the count bounds all of the client's runs; the job is in the client's list then.
LEMMA LimitAssignJob == ASSUME "write" \notin Faults, IInv, LimitInv, AssignJob PROVE LimitInv'
<1>1. /\ web.pc = "count" /\ web.todo = {} /\ WithinLimit(web.count)
      /\ jobsOfClient' = [jobsOfClient EXCEPT ![web.client] = @ \cup {web.job}]
      /\ web' = [web EXCEPT !.pc = "lookup"] /\ UNCHANGED run
  BY DEF AssignJob
<1>2. web.client \in Clients /\ web \in WebLocals /\ jobsOfClient \in [Clients -> SUBSET Jobs]
  BY <1>1 DEF IInv, Owned, TypeOK
<1>3. web'.pc = "lookup" /\ web'.client = web.client /\ web'.job = web.job /\ web'.count = web.count
  BY <1>1, <1>2 DEF WebLocals
<1>4. RunsAreListed'
  BY <1>1, <1>2 DEF LimitInv, RunsAreListed, IsActive, IInv, Owned, ActivePhases
<1>5. RunsAreWithinLimit'
  BY <1>1 DEF LimitInv, RunsAreWithinLimit, RunsOf, IsActive
<1>6. Counted = RunsOf(web.client) /\ RunsOf(web.client)' = RunsOf(web.client)
  BY <1>1, <1>3 DEF Counted, RunsOf, IsActive
<1>7. web.job \in jobsOfClient'[web.client]
  BY <1>1, <1>2
<1> QED
  BY <1>1, <1>3, <1>4, <1>5, <1>6, <1>7 DEF LimitInv, CountIsBound, WithinLimit

\* The run that is enqueued is one more for its client, which has fewer than the limit.
LEMMA LimitEnqueue == ASSUME IInv, LimitInv, Enqueue PROVE LimitInv'
<1>1. PICK r \in Runs :
        /\ run[r] \in {NoRun, LostRun}
        /\ run' = [run EXCEPT ![r] = [phase |-> "queued", job |-> web.job, client |-> web.client]]
  BY DEF Enqueue
<1>2. web.pc = "enqueue" /\ web' = WebIdle /\ UNCHANGED jobsOfClient
  BY DEF Enqueue
<1>3. /\ run'[r] = [phase |-> "queued", job |-> web.job, client |-> web.client]
      /\ \A s \in Runs \ {r} : run'[s] = run[s]
  BY <1>1 DEF IInv, TypeOK
<1>4. /\ web.job \in jobsOfClient[web.client] /\ WithinLimit(web.count)
      /\ Within(RunsOf(web.client), web.count) /\ web.count \in Nat
  BY <1>2 DEF LimitInv, CountIsBound, IInv, TypeOK, WebLocals
<1>5. RunsAreListed'
  BY <1>2, <1>3, <1>4 DEF LimitInv, RunsAreListed, IsActive
<1>6. RunsAreWithinLimit'
  <2> SUFFICES ASSUME NEW c \in Clients PROVE Within(RunsOf(c)', MaxJobsPerClient)
    BY DEF RunsAreWithinLimit
  <2>1. CASE c = web.client
    <3>1. RunsOf(c)' \in SUBSET (RunsOf(c) \cup {r})
      BY <1>3 DEF RunsOf, IsActive
    <3>2. Within(RunsOf(c) \cup {r}, web.count + 1)
      BY <1>4, <2>1, WithinAdd
    <3>3. Within(RunsOf(c)', web.count + 1) /\ web.count + 1 <= MaxJobsPerClient
      BY <1>4, <3>1, <3>2, WithinSubset, LimitAssumption DEF WithinLimit
    <3>4. Cardinality(RunsOf(c)') \in Nat
      BY <3>3, FS_CardinalityType DEF Within
    <3> QED BY <1>4, <3>3, <3>4, LimitAssumption DEF Within
  <2>2. CASE c # web.client
    <3>1. RunsOf(c)' \in SUBSET RunsOf(c)
      BY <1>3, <2>2 DEF RunsOf, IsActive
    <3> QED BY <3>1, WithinSubset, LimitAssumption DEF LimitInv, RunsAreWithinLimit
  <2> QED BY <2>1, <2>2
<1> QED
  BY <1>2, <1>5, <1>6 DEF LimitInv, CountIsBound, WebIdle

LEMMA LimitCrash == ASSUME IInv, LimitInv, Crash PROVE LimitInv'
<1>1. web' = WebIdle /\ UNCHANGED jobsOfClient
  BY DEF Crash
<1>2. FewerRuns
  BY DEF Crash, FewerRuns, IsActive, ActivePhases, NoRun, LostRun, IInv, TypeOK
<1>3. RunsAreListed'
  BY <1>1, <1>2 DEF LimitInv, RunsAreListed, FewerRuns
<1>4. RunsAreWithinLimit'
  BY <1>2, FewerRunsOf, WithinSubset, LimitAssumption DEF LimitInv, RunsAreWithinLimit
<1> QED
  BY <1>1, <1>3, <1>4 DEF LimitInv, CountIsBound, WebIdle

------------------------------------------------------------------------------
(* The theorem *)

LEMMA LimitNext == ASSUME "write" \notin Faults PROVE IInv /\ LimitInv /\ [Next]_vars => LimitInv'
<1> SUFFICES ASSUME IInv, LimitInv, [Next]_vars PROVE LimitInv'
  OBVIOUS
<1>1. CASE \E c \in Clients, j \in Jobs, force \in BOOLEAN : Request(c, j, force)
  BY <1>1, LimitRequest
<1>2. CASE WebStep
  BY <1>2, LimitWebSteps, LimitCountJob, LimitAssignJob, LimitEnqueue DEF WebStep
<1>3. CASE Crash
  BY <1>3, LimitCrash
<1> QED
  BY <1>1, <1>2, <1>3, LimitOtherSteps DEF Next

\* While every SET of a client's list of jobs succeeds, no client has more runs in the queue or at work than
\* max_num_scheduled_jobs_per_client, whatever ends meanwhile (schedule_job_command.py:102-125). With a SET that fails,
\* which execute does not look at, it may: the job of a run is missing in the list that is counted next.
THEOREM ClientsStayWithinLimit ==
  ASSUME "write" \notin Faults
  PROVE  Spec => []LimitPerClient
<1>1. LimitInv => LimitPerClient
  BY DEF LimitInv, RunsAreWithinLimit, Within, RunsOf, LimitPerClient
<1>2. IInv /\ LimitInv /\ [Next]_vars => LimitInv'
  BY LimitNext
<1> QED
  BY <1>1, <1>2, LimitInit, Invariance, PTL DEF Spec
=============================================================================
