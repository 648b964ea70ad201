--------------------------- MODULE JobScheduling ---------------------------
(***************************************************************************)
(* Scheduling of conversion jobs and the notifications that end them.      *)
(*                                                                         *)
(* Two threads of the web process share the Redis keys job#{id},           *)
(* listeningClientsOfJob#{id} and jobsOfClient#{client} without a lock:    *)
(*   - the web thread (main.py: IOLoop.instance()) runs one                *)
(*     ScheduleJobCommand.execute at a time (actions on "web");            *)
(*   - the TCP thread (main.py: tcp_io_loop) runs one                      *)
(*     ConverterWebSocketHandler.notify at a time (actions on "notif"),    *)
(*     for the workers' connections it serves.                             *)
(* Every Redis call is a step of its own, so that the two interleave at    *)
(* the places where the code can be preempted.                             *)
(*                                                                         *)
(* A run is one entry of the RQ queue with the worker and the connection   *)
(* it becomes; its phase is how far the server has followed it.            *)
(***************************************************************************)
EXTENDS Naturals, FiniteSets

CONSTANTS Clients,              \* client IDs, all authenticated
          Jobs,                 \* job IDs (Scratch project IDs)
          Runs,                 \* slots for RQ entries, reused once a run is over
          MaxJobsPerClient,     \* max_num_scheduled_jobs_per_client
          Faults,               \* the kinds of fault that happen: see FaultKinds
          None                  \* no client, no job, no run

FaultKinds == {"lose",    \* a run's connection or worker ends without a last word
               "write",   \* a Redis SET or an enqueue fails
               "crash"}   \* the web process dies and is started again

ASSUME FaultsAssumption == Faults \subseteq FaultKinds
ASSUME NoneAssumption == None \notin Clients \cup Jobs \cup Runs
ASSUME LimitAssumption == MaxJobsPerClient \in Nat

VARIABLES job,              \* job#{id}: [state, archive]
          listeningClients, \* listeningClientsOfJob#{id}: {} when the key is missing
          jobsOfClient,     \* jobsOfClient#{id}, as a set
          web,              \* the web thread: where execute is, and its locals
          notif,            \* the TCP thread: where notify is, and its locals
          run,              \* run[r]: how far it has come, its job and the client
                            \* whose command enqueued it
          file,             \* the job's file in download_dir
          abandoned         \* history: jobs whose run was lost, or never enqueued

vars == <<job, listeningClients, jobsOfClient, web, notif, run, file, abandoned>>

------------------------------------------------------------------------------
(* Job records *)

JobStates     == {"NONE", "READY", "RUNNING", "FINISHED", "FAILED"}
ArchiveStates == {"none", "fresh", "stale"}     \* archiveCachedUTCDate against CACHE_ENTRY_VALID_FOR
JobRecords    == [state : JobStates, archive : ArchiveStates]

NoJob    == [state |-> "NONE", archive |-> "none"]      \* the key is missing
ReadyJob == [state |-> "READY", archive |-> "none"]     \* Job(job_ID, "-", READY)

IsInProgress_Running(rec) == rec.state = "RUNNING"
IsInProgress(rec) == rec.state \in {"READY", "RUNNING"}

\* The state machine of a run. A worker takes it from the queue, connects and
\* authenticates; the server follows its notifications.
\* A run is over once its outcome is in Redis; its slot is free again once the
\* outcome has been sent, or the run is lost.
ActivePhases == {"queued", "connected", "started", "converted",
                 "transferring", "verified"}
Phases       == ActivePhases \cup {"over", "lost", "none"}

NoRun   == [phase |-> "none", job |-> None, client |-> None]
LostRun == [phase |-> "lost", job |-> None, client |-> None]

IsActive(r)     == run[r].phase \in ActivePhases
ActiveRunsOf(j) == {r \in Runs : IsActive(r) /\ run[r].job = j}

------------------------------------------------------------------------------
(* The locals of the two threads *)

WebSteps == {"idle", "count", "lookup", "cached", "joinRead", "joinWrite",
             "save", "listenRead", "listenWrite", "enqueue"}

WebLocals == [pc : WebSteps, client : Clients \cup {None}, job : Jobs \cup {None},
              force : BOOLEAN, todo : SUBSET Jobs, count : Nat, clients : SUBSET Clients]

WebIdle == [pc |-> "idle", client |-> None, job |-> None, force |-> FALSE,
            todo |-> {}, count |-> 0, clients |-> {}]

NotifSteps == {"idle", "listeners", "delete", "save", "send"}
NotifTypes == {"STARTED", "UPDATE", "FINISHED", "FAILED"}

NotifLocals == [pc : NotifSteps, run : Runs \cup {None}, type : NotifTypes,
                rec : JobRecords, clients : SUBSET Clients]

NotifIdle == [pc |-> "idle", run |-> None, type |-> "UPDATE",
              rec |-> NoJob, clients |-> {}]

TypeOK ==
    /\ job \in [Jobs -> JobRecords]
    /\ listeningClients \in [Jobs -> SUBSET Clients]
    /\ jobsOfClient \in [Clients -> SUBSET Jobs]
    /\ web \in WebLocals
    /\ notif \in NotifLocals
    /\ run \in [Runs -> [phase : Phases, job : Jobs \cup {None},
                         client : Clients \cup {None}]]
    /\ file \in [Jobs -> {"absent", "partial", "complete"}]
    /\ abandoned \subseteq Jobs

Init ==
    /\ job = [j \in Jobs |-> NoJob]
    /\ listeningClients = [j \in Jobs |-> {}]
    /\ jobsOfClient = [c \in Clients |-> {}]
    /\ web = WebIdle
    /\ notif = NotifIdle
    /\ run = [r \in Runs |-> NoRun]
    /\ file = [j \in Jobs |-> "absent"]
    /\ abandoned = {}

------------------------------------------------------------------------------
(* The web thread: ScheduleJobCommand.execute *)

WithinLimit_OffByOne(count) == count <= MaxJobsPerClient
WithinLimit(count) == count < MaxJobsPerClient

\* on_message runs the command of client c for job j; get_jobs_of_client reads
\* the client's list of jobs.
Request(c, j, force) ==
    /\ web.pc = "idle"
    /\ web' = [WebIdle EXCEPT !.pc = "count", !.client = c, !.job = j,
                              !.force = force, !.todo = jobsOfClient[c]]
    /\ UNCHANGED <<job, listeningClients, jobsOfClient, notif, run, file, abandoned>>

\* get_jobs_of_client reads the record of one more job of the client's list,
\* and the job counts when it is in progress.
CountJob ==
    /\ web.pc = "count"
    /\ \E k \in web.todo :
         web' = [web EXCEPT !.todo = @ \ {k},
                            !.count = IF IsInProgress(job[k]) THEN @ + 1 ELSE @]
    /\ UNCHANGED <<job, listeningClients, jobsOfClient, notif, run, file, abandoned>>

\* The reply is ErrorMessage "Maximum number of jobs per client limit exceeded".
RejectRequest ==
    /\ web.pc = "count" /\ web.todo = {}
    /\ ~WithinLimit(web.count)
    /\ web' = WebIdle
    /\ UNCHANGED <<job, listeningClients, jobsOfClient, notif, run, file, abandoned>>

\* assign_job_to_client: its GET and SET are one step, since no other thread
\* uses jobsOfClient. execute does not look at what the SET returns.
AssignJob ==
    /\ web.pc = "count" /\ web.todo = {}
    /\ WithinLimit(web.count)
    /\ \/ jobsOfClient' = [jobsOfClient EXCEPT ![web.client] = @ \cup {web.job}]
       \/ "write" \in Faults /\ UNCHANGED jobsOfClient
    /\ web' = [web EXCEPT !.pc = "lookup"]
    /\ UNCHANGED <<job, listeningClients, notif, run, file, abandoned>>

\* Where execute goes with the record it read: it joins a job in progress,
\* answers from the cache, or schedules the job.
Decision(rec, force) ==
    CASE IsInProgress(rec) -> "joinRead"
      [] rec.state = "FINISHED" /\ ~force /\ rec.archive = "fresh" -> "cached"
      [] OTHER -> "save"

LookupJob ==
    /\ web.pc = "lookup"
    /\ web' = [web EXCEPT !.pc = Decision(job[web.job], web.force)]
    /\ UNCHANGED <<job, listeningClients, jobsOfClient, notif, run, file, abandoned>>

\* os.path.exists(file_path): the reply is JobFinishedMessage, or the job is
\* scheduled again because its archive is gone.
AnswerFromCache ==
    /\ web.pc = "cached"
    /\ web' = IF file[web.job] # "absent" THEN WebIdle
                                          ELSE [web EXCEPT !.pc = "save"]
    /\ UNCHANGED <<job, listeningClients, jobsOfClient, notif, run, file, abandoned>>

\* add_listening_client_to_job, the GET. A client that is listed already needs
\* no SET: the command that joins a running job is answered with
\* JobAlreadyRunningMessage, the command that schedules one goes on to enqueue.
ReadListeners ==
    /\ web.pc \in {"joinRead", "listenRead"}
    /\ LET clients == listeningClients[web.job]
           listed  == web.client \in clients
       IN web' = IF web.pc = "joinRead"
                 THEN IF listed THEN WebIdle
                      ELSE [web EXCEPT !.pc = "joinWrite", !.clients = clients]
                 ELSE IF listed THEN [web EXCEPT !.pc = "enqueue"]
                      ELSE [web EXCEPT !.pc = "listenWrite", !.clients = clients]
    /\ UNCHANGED <<job, listeningClients, jobsOfClient, notif, run, file, abandoned>>

WithListener_Nested(clients, c) == clients \cup {{c}}
WithListener(clients, c) == clients \cup {c}

\* add_listening_client_to_job, the SET of the list it read before.
WriteListeners ==
    /\ web.pc \in {"joinWrite", "listenWrite"}
    /\ listeningClients' = [listeningClients EXCEPT
                              ![web.job] = WithListener(web.clients, web.client)]
    /\ web' = IF web.pc = "joinWrite" THEN WebIdle
                                      ELSE [web EXCEPT !.pc = "enqueue", !.clients = {}]
    /\ UNCHANGED <<job, jobsOfClient, notif, run, file, abandoned>>

\* Job(job_ID, "-", Job.State.READY).save_to_redis
SaveReadyJob ==
    /\ web.pc = "save"
    /\ job' = [job EXCEPT ![web.job] = ReadyJob]
    /\ web' = [web EXCEPT !.pc = "listenRead"]
    /\ UNCHANGED <<listeningClients, jobsOfClient, notif, run, file, abandoned>>

\* q.enqueue_call: the reply is JobReadyMessage.
Enqueue ==
    /\ web.pc = "enqueue"
    /\ \E r \in Runs :
         /\ run[r] \in {NoRun, LostRun}
         /\ run' = [run EXCEPT ![r] = [phase |-> "queued", job |-> web.job,
                                        client |-> web.client]]
    /\ web' = WebIdle
    /\ UNCHANGED <<job, listeningClients, jobsOfClient, notif, file, abandoned>>

\* A SET of the command fails, and the reply is JobFailedMessage, or enqueue_call
\* raises. A job whose record was saved before is not enqueued and stays READY.
WebWriteFails ==
    /\ "write" \in Faults
    /\ web.pc \in {"save", "joinWrite", "listenWrite", "enqueue"}
    /\ abandoned' = IF web.pc \in {"listenWrite", "enqueue"} THEN abandoned \cup {web.job}
                    ELSE abandoned
    /\ web' = WebIdle
    /\ UNCHANGED <<job, listeningClients, jobsOfClient, notif, run, file>>

WebStep ==
    \/ CountJob \/ RejectRequest \/ AssignJob \/ LookupJob \/ AnswerFromCache
    \/ ReadListeners \/ WriteListeners \/ SaveReadyJob \/ Enqueue \/ WebWriteFails

------------------------------------------------------------------------------
(* The TCP thread: ConverterWebSocketHandler.notify *)

IsFinal(type) == type \in {"FINISHED", "FAILED"}

\* The phases of a run in which the server issues a notification of this type.
SourcePhases_Unverified(type) ==
    CASE type = "STARTED"  -> {"connected"}
      [] type = "UPDATE"   -> {"started"}
      [] type = "FINISHED" -> {"transferring", "verified"}
      [] type = "FAILED"   -> {"started", "converted", "transferring"}
SourcePhases(type) ==
    CASE type = "STARTED"  -> {"connected"}
      [] type = "UPDATE"   -> {"started"}
      [] type = "FINISHED" -> {"verified"}
      [] type = "FAILED"   -> {"started", "converted", "transferring"}

PhaseAfter(type) == IF IsFinal(type) THEN "over" ELSE "started"

\* What notify makes of the record it read (title, image, progress and output
\* are not told apart: UPDATE stands for JOB_OUTPUT and JOB_PROGRESS).
Updated_FailedKeptOpen(rec, type) ==
    CASE type = "STARTED"  -> [rec EXCEPT !.state = "RUNNING"]
      [] type = "FINISHED" -> [rec EXCEPT !.state = "FINISHED", !.archive = "fresh"]
      [] OTHER             -> rec
Updated(rec, type) ==
    CASE type = "STARTED"  -> [rec EXCEPT !.state = "RUNNING"]
      [] type = "FINISHED" -> [rec EXCEPT !.state = "FINISHED", !.archive = "fresh"]
      [] type = "FAILED"   -> [rec EXCEPT !.state = "FAILED"]
      [] OTHER             -> rec

\* The order of notify's Redis calls: "remove all listeners from database
\* before updating job state in database".
StepAfter_SaveFirst(pc, final) ==
    CASE pc = "listeners" -> "save"
      [] pc = "save"      -> IF final THEN "delete" ELSE "send"
      [] OTHER            -> "send"
StepAfter_NoFailSend(pc, final) ==
    CASE pc = "listeners" -> IF final THEN "delete" ELSE "save"
      [] pc = "delete"    -> "save"
      [] OTHER            -> IF final THEN "idle" ELSE "send"
StepAfter(pc, final) ==
    CASE pc = "listeners" -> IF final THEN "delete" ELSE "save"
      [] pc = "delete"    -> "save"
      [] OTHER            -> "send"

\* The server got what makes it notify of run r; notify reads the job's record,
\* and returns at once when there is none.
NotifyReadJob(r, type) ==
    /\ notif.pc = "idle"
    /\ run[r].phase \in SourcePhases(type)
    /\ IF job[run[r].job] = NoJob
       THEN /\ run' = [run EXCEPT ![r] = IF IsFinal(type) THEN NoRun
                                         ELSE [@ EXCEPT !.phase = PhaseAfter(type)]]
            /\ UNCHANGED notif
       ELSE /\ notif' = [pc |-> "listeners", run |-> r, type |-> type,
                         rec |-> Updated(job[run[r].job], type), clients |-> {}]
            /\ UNCHANGED run
    /\ UNCHANGED <<job, listeningClients, jobsOfClient, web, file, abandoned>>

\* With no list of listeners notify saves the record and returns (its "send"
\* step has nobody to send to).
NotifyReadListeners ==
    /\ notif.pc = "listeners"
    /\ LET clients == listeningClients[run[notif.run].job]
       IN notif' = [notif EXCEPT !.clients = clients,
                      !.pc = IF clients = {} THEN "save"
                             ELSE StepAfter("listeners", IsFinal(notif.type))]
    /\ UNCHANGED <<job, listeningClients, jobsOfClient, web, run, file, abandoned>>

\* remove_all_listening_clients_from_job
NotifyRemoveListeners ==
    /\ notif.pc = "delete"
    /\ listeningClients' = [listeningClients EXCEPT ![run[notif.run].job] = {}]
    /\ notif' = [notif EXCEPT !.pc = StepAfter("delete", TRUE)]
    /\ UNCHANGED <<job, jobsOfClient, web, run, file, abandoned>>

\* job.save_to_redis; with a final notification the run is over.
NotifySaveJob ==
    /\ notif.pc = "save"
    /\ job' = [job EXCEPT ![run[notif.run].job] = notif.rec]
    /\ run' = [run EXCEPT ![notif.run].phase = PhaseAfter(notif.type)]
    /\ notif' = LET next == StepAfter("save", IsFinal(notif.type))
                IN IF next = "idle" THEN NotifIdle ELSE [notif EXCEPT !.pc = next]
    /\ UNCHANGED <<listeningClients, jobsOfClient, web, file, abandoned>>

\* "Unable to update job state!": notify returns. The outcome of a run that
\* ends here is never recorded.
NotifySaveFails ==
    /\ "write" \in Faults
    /\ notif.pc = "save"
    /\ notif' = NotifIdle
    /\ IF IsFinal(notif.type)
       THEN /\ run' = [run EXCEPT ![notif.run] = LostRun]
            /\ abandoned' = abandoned \cup {run[notif.run].job}
       ELSE /\ run' = [run EXCEPT ![notif.run].phase = PhaseAfter(notif.type)]
            /\ UNCHANGED abandoned
    /\ UNCHANGED <<job, listeningClients, jobsOfClient, web, file>>

\* The message goes to every open socket of the clients in notif.clients.
NotifySend ==
    /\ notif.pc = "send"
    /\ notif' = NotifIdle
    /\ run' = IF IsFinal(notif.type) THEN [run EXCEPT ![notif.run] = NoRun] ELSE run
    /\ UNCHANGED <<job, listeningClients, jobsOfClient, web, file, abandoned>>

NotifyStep == NotifyReadListeners \/ NotifyRemoveListeners \/ NotifySaveJob
              \/ NotifySaveFails \/ NotifySend

------------------------------------------------------------------------------
(* The runs, as the server sees them *)

\* A worker took the run from the queue, connected and authenticated. RQ hands
\* entries out in order, but the workers of the pool connect in any.
Connect(r) ==
    /\ run[r].phase = "queued"
    /\ run' = [run EXCEPT ![r].phase = "connected"]
    /\ UNCHANGED <<job, listeningClients, jobsOfClient, web, notif, file, abandoned>>

\* JOB_CONVERSION_FINISHED with exit code 0: notify reads the job and returns
\* without saving it.
ConversionFinished(r) ==
    /\ notif.pc = "idle"
    /\ run[r].phase = "started"
    /\ run' = [run EXCEPT ![r].phase = "converted"]
    /\ UNCHANGED <<job, listeningClients, jobsOfClient, web, notif, file, abandoned>>

\* JOB_FINISHED with a size > 0: the server opens the job's file with 'wb+'.
BeginTransfer(r) ==
    /\ notif.pc = "idle"
    /\ run[r].phase = "converted"
    /\ run' = [run EXCEPT ![r].phase = "transferring"]
    /\ file' = [file EXCEPT ![run[r].job] = "partial"]
    /\ UNCHANGED <<job, listeningClients, jobsOfClient, web, notif, abandoned>>

\* All bytes arrived and the computed hash equals the given one.
EndTransfer(r) ==
    /\ notif.pc = "idle"
    /\ run[r].phase = "transferring"
    /\ run' = [run EXCEPT ![r].phase = "verified"]
    /\ file' = [file EXCEPT ![run[r].job] = "complete"]
    /\ UNCHANGED <<job, listeningClients, jobsOfClient, web, notif, abandoned>>

\* The worker or its connection ends otherwise: handle_exception's notify has no
\* job ID, raises KeyError, and the job's record is not touched.
Lose(r) ==
    /\ "lose" \in Faults
    /\ IsActive(r)
    /\ notif.run # r
    /\ run' = [run EXCEPT ![r] = LostRun]
    /\ abandoned' = abandoned \cup {run[r].job}
    /\ UNCHANGED <<job, listeningClients, jobsOfClient, web, notif, file>>

Advance(r) ==
    \/ \E type \in {"STARTED", "FINISHED", "FAILED"} : NotifyReadJob(r, type)
    \/ ConversionFinished(r) \/ BeginTransfer(r) \/ EndTransfer(r)

------------------------------------------------------------------------------
(* The environment *)

\* CACHE_ENTRY_VALID_FOR seconds have passed since archiveCachedUTCDate.
ArchiveExpires(j) ==
    /\ job[j].archive = "fresh"
    /\ job' = [job EXCEPT ![j].archive = "stale"]
    /\ UNCHANGED <<listeningClients, jobsOfClient, web, notif, run, file, abandoned>>

\* Redis and the queue survive a restart of the web process; both threads and
\* every connection are gone.
Crash ==
    LET cut == {r \in Runs : run[r].phase \in ActivePhases \ {"queued"}}
    IN /\ "crash" \in Faults
       /\ web' = WebIdle
       /\ notif' = NotifIdle
       /\ run' = [r \in Runs |-> CASE r \in cut -> LostRun
                                    [] run[r].phase = "over" -> NoRun
                                    [] OTHER -> run[r]]
       /\ abandoned' = abandoned \cup {run[r].job : r \in cut}
            \cup (IF web.pc \in {"listenRead", "listenWrite", "enqueue"} THEN {web.job} ELSE {})
       /\ UNCHANGED <<job, listeningClients, jobsOfClient, file>>

Next ==
    \/ \E c \in Clients, j \in Jobs, force \in BOOLEAN : Request(c, j, force)
    \/ WebStep
    \/ \E r \in Runs, type \in NotifTypes : NotifyReadJob(r, type)
    \/ NotifyStep
    \/ \E r \in Runs : \/ Connect(r) \/ ConversionFinished(r)
                       \/ BeginTransfer(r) \/ EndTransfer(r) \/ Lose(r)
    \/ \E j \in Jobs : ArchiveExpires(j)
    \/ Crash

Spec == Init /\ [][Next]_vars

\* Both threads go on with the command or notification they are in; a worker
\* fetches every queued run; and the IO loop, which polls every connection in
\* each iteration, gets to each run's messages however busy the others keep it.
Fairness ==
    /\ WF_vars(WebStep)
    /\ WF_vars(NotifyStep)
    /\ \A r \in Runs : WF_vars(Connect(r)) /\ SF_vars(Advance(r))

FairSpec == Spec /\ Fairness

------------------------------------------------------------------------------
(* Properties *)

\* At most one run of a job is queued or being converted: execute's check of
\* the record it read (schedule_job_command.py:127-151) excludes, without a
\* lock, a second worker for the same job and the same archive file.
OneActiveRun == \A j \in Jobs : Cardinality(ActiveRunsOf(j)) <= 1

\* The record notify saves was made from the record that is still in Redis:
\* execute never writes a job between notify's read and its write, so neither
\* thread's update is lost although both read, modify and write the whole
\* record (websockethandler.py:97-150, schedule_job_command.py:125-152).
NoLostUpdate ==
    notif.pc \in {"listeners", "delete", "save"} =>
        notif.rec = Updated(job[run[notif.run].job], notif.type)

\* The client whose command enqueued a run is among the listeners of every
\* notification of that run. It depends on the order "remove listeners, then
\* update the job's state", and it makes "WTH?! No listening clients stored!"
\* (websockethandler.py:133) unreachable.
SchedulerIsNotified ==
    notif.pc \in {"delete", "save", "send"} => run[notif.run].client \in notif.clients

\* A job is answered from the cache only with a file whose hash was verified:
\* no later run of the job truncates or rewrites it while the record says
\* FINISHED.
FinishedHasVerifiedFile ==
    \A j \in Jobs : job[j].state = "FINISHED" => file[j] = "complete"

\* A client never has more than MaxJobsPerClient of the runs it scheduled in
\* the queue or at work, although execute counts job by job while the TCP
\* thread changes the records.
LimitPerClient ==
    \A c \in Clients :
        Cardinality({r \in Runs : IsActive(r) /\ run[r].client = c})
            <= MaxJobsPerClient

\* A job is in progress without anybody working on it exactly when its run was
\* lost, or a fault came between saving and enqueuing it; every other path of
\* the code either ends the job or leaves somebody responsible for it.
BeingScheduled(j) == web.job = j /\ web.pc \in {"listenRead", "listenWrite", "enqueue"}
StuckOnlyIfAbandoned ==
    \A j \in Jobs :
        (IsInProgress(job[j]) /\ ActiveRunsOf(j) = {} /\ ~BeingScheduled(j))
            <=> j \in abandoned

\* "Job completely finished or failed -> remove all listeners from database
\* before updating job state in database" (websockethandler.py:145): a job
\* whose record says so has no listeners.
EndedJobHasNoListeners ==
    \A j \in Jobs : job[j].state \in {"FINISHED", "FAILED"} => listeningClients[j] = {}

\* The client answered with JobReadyMessage is told the outcome of its run,
\* unless the run is lost.
Told(r, c) == /\ notif.pc = "send" /\ notif.run = r
              /\ IsFinal(notif.type) /\ c \in notif.clients
SchedulerHearsOutcome ==
    \A r \in Runs, c \in Clients :
        (run[r].phase = "queued" /\ run[r].client = c) ~> (run[r].phase = "lost" \/ Told(r, c))

\* Every job's record lives the life that JobLifecycle promises.
Attempt(j) == IF ActiveRunsOf(j) # {} THEN "live"
              ELSE IF BeingScheduled(j) THEN "scheduling"
              ELSE IF j \in abandoned THEN "lost" ELSE "none"

Lifecycle == INSTANCE JobLifecycle
               WITH state <- [j \in Jobs |-> job[j].state],
                    attempt <- [j \in Jobs |-> Attempt(j)]
ImplementsLifecycle == Lifecycle!Spec

\* Each run goes through the phases of ConversionSession in order, whatever the
\* other runs, the commands and the faults do meanwhile.
Outcome(r) == IF run[r].phase = "over" THEN notif.type ELSE "none"
Session(r) == INSTANCE ConversionSession WITH phase <- run[r].phase, outcome <- Outcome(r)
ImplementsSessions ==
    /\ \A r \in Runs : Session(r)!Init
    /\ [][\A r \in Runs : [Session(r)!Next]_<<run[r].phase, Outcome(r)>>]_vars

------------------------------------------------------------------------------
(* The inductive invariant behind the safety properties *)

\* A command, a notification and a run in flight know whom they work for.
Owned ==
    /\ web.pc # "idle" => web.client \in Clients /\ web.job \in Jobs
    /\ notif.pc # "idle" => notif.run \in Runs /\ run[notif.run].phase \notin {"none", "lost"}
    /\ \A r \in Runs : run[r].phase \notin {"none", "lost"} =>
                          run[r].job \in Jobs /\ run[r].client \in Clients

\* A job that is converted is in progress, has no valid archive date, and is
\* converted by nobody else.
ActiveJobs ==
    /\ \A j \in Jobs : IsInProgress(job[j]) => job[j].archive = "none"
    /\ \A r \in Runs : IsActive(r) => IsInProgress(job[run[r].job])
    /\ \A r, s \in Runs : IsActive(r) /\ IsActive(s) /\ run[r].job = run[s].job => r = s

\* What the web thread has read still holds when it acts on it.
WebReadsAreGood ==
    /\ web.pc \in {"cached", "save"} => ~IsInProgress(job[web.job])
    /\ web.pc \in {"listenRead", "listenWrite", "enqueue"} =>
          /\ job[web.job] = ReadyJob
          /\ \A r \in Runs : IsActive(r) => run[r].job # web.job
    /\ web.pc = "enqueue" => web.client \in listeningClients[web.job]

\* The TCP thread is where the phase of its run says it is.
NotifFollowsRun ==
    /\ notif.pc \in {"listeners", "delete", "save"} =>
          run[notif.run].phase \in SourcePhases(notif.type)
    /\ notif.pc = "send" => run[notif.run].phase = PhaseAfter(notif.type)
    /\ notif.pc = "delete" => IsFinal(notif.type)

\* The client that scheduled a run stays listed until the run's last
\* notification has read the list, and no list the web thread is about to
\* write leaves it out.
LastWordRead(r) == notif.run = r /\ notif.pc = "save" /\ IsFinal(notif.type)
SchedulerListens ==
    \A r \in Runs : IsActive(r) /\ ~LastWordRead(r) =>
        /\ run[r].client \in listeningClients[run[r].job]
        /\ web.pc = "joinWrite" /\ web.job = run[r].job => run[r].client \in web.clients

VerifiedRunsHaveFile ==
    \A r \in Runs : run[r].phase = "verified" => file[run[r].job] = "complete"

IInv ==
    /\ TypeOK
    /\ Owned
    /\ ActiveJobs
    /\ WebReadsAreGood
    /\ NotifFollowsRun
    /\ NoLostUpdate
    /\ SchedulerListens
    /\ SchedulerIsNotified
    /\ VerifiedRunsHaveFile
    /\ FinishedHasVerifiedFile
    /\ StuckOnlyIfAbandoned
=============================================================================
