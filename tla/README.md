# Verification of ScratchToCatrobat

ScratchToCatrobat converts Scratch projects into Catrobat programs. It is a
command-line converter (Jython) and, around it, a web service that accepts
conversion jobs over WebSockets, queues them in Redis, lets worker processes
run the converter, follows the workers over TCP and serves the archives.

This directory holds TLA+ models of the code, the TLC configurations that check
them and TLAPS proofs about them. Paths are relative to the repository root;
`web/...` is the service and `src/scratchtocatrobat/...` the converter.

## 1. The system

### Web service

| Component | State | Operations |
|---|---|---|
| Web thread: WebSocket handler and commands (`web/websocketserver`) | `client_ID_open_sockets_map`; in Redis `job#{id}`, `listeningClientsOfJob#{id}`, `jobsOfClient#{client}`, `lastClientID` | authenticate, retrieve info, schedule job, close |
| TCP thread: job monitor server (`web/jobmonitorserver`) | `streams` (time of last use per stream), a coroutine per connection; the files in `download_dir` | greeting, authentication, started / output / progress / conversion finished / finished / failed notifications, file transfer, zombie watcher; calls `ConverterWebSocketHandler.notify` |
| Worker (`web/worker`), a process of RQ | its connection, the converter's subprocess, the line buffer | connect, authenticate, run the converter, report, transfer the archive, shut down |
| HTTP handlers (`web/converterwebapp.py`), on the web thread | `RESPONSE_CACHE`, `IN_PROGRESS_FUTURE_MAP`, `_projectMetaData` of `scratchwebapi`; the archives in `download_dir`, which the TCP thread writes | download, project details |
| Browser (`web/static/js`) | page state | requests and messages of the WebSocket protocol |

`main.py` starts the web server's IO loop and the TCP server's IO loop on two
threads of one process. They share Redis and `client_ID_open_sockets_map` and
take no lock. Workers are separate processes; the only links are the RQ queue
and one TLS connection per run.

What is hard here: every operation on a job is a read, a decision and a write on
Redis, and the other thread can be between any two of them; a worker, its
connection or the server can end at any point; notifications are sent once and
never repeated.

### Converter

| Component | State | Operations |
|---|---|---|
| Driver (`main.py`) | the project's folder, the exit code | download, unpack or use in place; rewrite Scratch 3 code; convert, save |
| Web API (`scratch/scratchwebapi.py`) | `_projectMetaData` cache | meta data, download of the project's code, retries |
| Helpers (`tools/helpers.py`, `tools/common.py`) | retry counters, temporary directories | `retry`, download, joining of threads |
| Scratch project (`scratch/*.py`) | objects, scripts as block lists, lists and variables, the workarounds asked for | parse, traversal, rewriting of scripts, helper scripts, download and verification of resources |
| Conversion of code (`converter/converter.py`) | class attributes with the current project, upcoming sprites, the block traverser's stacks, user lists and variables | conversion of scripts and sprites, default behaviour, key and cursor sprites |
| Conversion of media (`converter/mediaconverter.py`, `tools/*`) | the resources' folder, new paths, threads | scan, conversion in batches, copy, removal |

The converter runs once per call and its code conversion is sequential. What is
hard is what one part leaves behind for the next: the traverser's stack for the
block around, a sprite for the sprites after it, a run for the next run on the same
folder; and the threads, whose exceptions nobody sees.

### Properties that make it correct

* A job is converted by one worker at a time; no update of its record is lost.
* The client that scheduled a job is told every change and the outcome.
* A record says FINISHED only while a verified archive exists.
* A client has a bounded number of jobs at work.
* A job never stays in progress for good unless a fault interrupted it.
* A session between worker and server ends; neither waits for the other forever.
* A socket belongs to one client, and to none after it is closed.
* A download is one archive; the details of a project are recent, and one version.
* Rewriting and converting a script keeps its structure; every brick refers to the
  program that is saved; generated variables are fed; keys are served.
* A conversion that reports success has packed every resource, converted once; a
  folder that is converted in place survives; every call ends.

## 2. Plan

1. **JobScheduling** (done): both threads on Redis, refines **JobLifecycle**;
   proofs in **JobScheduling_proofs** and **JobScheduling_refinement**.
2. **JobMonitorProtocol** (done): one worker and the server's handler with two
   FIFO channels, exceptions with and without context, the zombie watcher. Both it
   and every run of JobScheduling refine **ConversionSession**: the first module
   may use the phases of the session, the second shows that the code has them.
3. **WebSocketSessions** (done): `client_ID_open_sockets_map` under the two threads.
4. **ScriptConversion** (done): a script of a sprite from the project file to
   bricks, composed of **ScratchCode**, **Scratch3Walk**, **ScriptRewriting**,
   **BrickConversion** and **ScriptTraversal**.
5. **SpriteConversion** (done), with **ProjectPreparation**: a whole project of several
   objects, over the class attributes that a sensor hat overwrites, with upcoming
   sprites, custom blocks, helper scripts, default behaviour, key sprites and the cursor.
6. **ConverterRun** (done): the driver with its exit codes, retries, the batches of
   download and conversion threads, the archive, and the folder a later call finds.
7. **ProjectInfoCache** (done): the project details with their caches and shared
   fetches. The download of an archive during its rewrite (done) is part of
   JobMonitorProtocol, which has the writes it races with.
8. Proofs (done): **JobMonitorProtocol_proofs**, with the
   refinement of ConversionSession; **WebSocketSessions_proofs**, **ConverterRun_proofs**,
   **ProjectInfoCache_proofs**; and **SpriteConversion_proofs**, for every set of projects.
9. `NobodyWaitsForever` without `ENABLED` (done): a statement about the
   guards of the two ends, proved in **JobMonitorProtocol_proofs**.
10. **ScriptTraversal** (done): the block traverser apart from the modules that recurse
    over trees, so that `LoopsAreClosed` can be proved of every script, in
    **ScriptTraversal_proofs**.

## 3. Modules

| Module | Role |
|---|---|
| `JobLifecycle` | abstract: the life of a job's record |
| `ConversionSession` | abstract: the phases of one run |
| `JobScheduling` | the web thread's `schedule_job` and the TCP thread's `notify` |
| `JobScheduling_proofs` | the inductive invariant, the safety theorems and the limit per client |
| `JobScheduling_refinement` | JobScheduling implements JobLifecycle, and every run of it ConversionSession |
| `JobMonitorProtocol` | one session between a worker and the TCP server, and a download of the archive meanwhile |
| `JobMonitorProtocol_proofs` | its safety theorems, and that it implements ConversionSession |
| `ProjectInfoCache` | requests for the details of a project |
| `ProjectInfoCache_proofs` | how old and how mixed answers are, for any requests |
| `WebSocketSessions` | clients, sockets and the map that relates them |
| `WebSocketSessions_proofs` | the map is right, and notifications reach the sockets |
| `ScratchCode` | what blocks, lists and values of a script are |
| `Scratch3Editor` (external) | how Scratch 3 stores a script in `project.json` |
| `Scratch3Walk` | `scratch3.py` and `scratch3visitor/*`: stored blocks to Scratch 2 code |
| `ScriptRewriting` | the code modifiers and `preprocess_object` |
| `BrickConversion` | what a single block becomes |
| `ScriptTraversal` | the block traverser and the collection of its result, for any tree |
| `ScriptTraversal_proofs` | the loops and branches of every script are closed |
| `ScriptConversion` | the whole way of one script, which ends with the traversal |
| `ProjectPreparation` | what the workarounds ask for, and the helper scripts they get |
| `SpriteConversion` | the conversion of a whole project, object by object |
| `SpriteConversion_proofs` | what bricks refer to, generated variables, keys, start values and failures, for any projects |
| `ConverterRun` | calls of the converter on one project and one folder |
| `ConverterRun_proofs` | threads, the package and the folder, for any project |
| `MC...` | values of the constants for TLC |

### JobScheduling

State: the Redis keys of jobs (`job`, `listeningClients`, `jobsOfClient`), the
archive of every job (`file`), the two threads with their program counters and
locals (`web`, `notif`), and the entries of the RQ queue with the sessions they
become (`run`). `abandoned` is a history variable, read by no action.

Each Redis call is one step, since a thread can be preempted around it; what
happens between two calls is part of the step before. `Request` ... `Enqueue` are
`ScheduleJobCommand.execute` in the order of its calls; `NotifyReadJob` ...
`NotifySend` are `ConverterWebSocketHandler.notify`. `Connect`,
`ConversionFinished`, `BeginTransfer` and `EndTransfer` move a run through the
phases the TCP server gives it. `Lose`, the failing writes and `Crash` are faults
and happen only if `Faults` allows them. `assign_job_to_client` is one step
because the TCP thread never touches its key. Outputs and progress are one kind of
notification, title and image URL are left out.

### JobMonitorProtocol

State: the worker with its place in `ConverterJobHandler.run` and its locals, the
handler with its place in `TCPConnectionHandler.run`, one FIFO channel per
direction, who has closed, whether the connection was reset, the stream's entry in
the watcher's table, the job's record and the archive. A step runs from one
`yield` to the next.

`troubles` is chosen at the start of a session and says what may go wrong in it;
every trouble is an action or a branch the code handles or fails to handle: no
connection, a wrong key, missing meta data, requests that are not valid JSON
(`Request.bytedata` builds JSON without escaping quotes), the converter's exit
code, no or an empty archive, an archive that another converter rewrites,
exceptions of `notify`, the end of the worker, the network or the server.

`download` is `_DownloadHandler.get` on the web thread: it opens the archive and
sends it chunk by chunk, and between any two of these steps the TCP thread may
remove the file, create it anew (`IsNewFile`: an open handle keeps the removed one)
or write a piece. A request for a range does not get that far: `seek(None)` raises.

### WebSocketSessions

State: the map from client IDs to lists of sockets, the sockets, what each of
them was told, and the two threads. Creating the list, appending, removing and
deleting the key are separate steps of the web thread; the TCP thread looks a
client up twice and iterates over the live list by position, as Python does.
`OncePerSocket` restricts a socket to one authentication, as the page's script
does; without it the assertion and the comment on one client per socket fail.

### ProjectInfoCache

`_ProjectHandler.get` for one project. All handlers run on one IO loop, so a step
runs up to the `yield` of the fetch and from there to the end; the requests that share
a fetch go on one after the other, with others in between. `Read` is
`getMetaDataEntry`, which decides anew for every entry whether the meta data are too
old. Time passes in half hours, in which the project may change on the server
(`doc`). An exception of the handler leaves the fetch in the map: only the code
behind it would have removed it.

### ScriptConversion and the modules it composes

A script is a tree of nodes (`ScratchCode`): blocks, lists, numbers, texts,
`False` and `None`. `Read` takes the Scratch 2 list as it is, or stores it as the
Scratch 3 editor would (`Scratch3Editor`) and walks the stored blocks
(`Scratch3Walk`). `Accept`, `Modify` and `Preprocess` follow `Object.__init__`,
`Script.__init__` with its modifiers, and `Object.preprocess_object`; what follows is
`ScriptTraversal`. Its `Enter` and
`Visit` are the two halves of the traverser's `traverse` with its `_stack` and
`_child_stack`; `Collect` is `_catrobat_script_from`. A step can abort, where an
exception leaves the conversion of a single block and ends that of the project: also
where the name of a math function is not a text (`LacksName`; the assertion in
`catrobat_brick_class_for` is outside the `try`), which no menu of Scratch lets an author
do. `TraversalSpec` is the traversal alone, of any tree; the module
recurses over nothing, and its theorem is about that specification.
`BrickConversion` has one operator per handler and two tables for the rows of
`complete_mapping` without one. Formula elements keep their operator and
operands, bricks their formulas; the Catroid classes are names.

### SpriteConversion and ProjectPreparation

`PreprocessObject` and `AddHelpers` are the constructors of the Scratch project,
`StartSprite`, `StartScript`, `ConvertBlock`, `DefaultBehaviour` and `FinishSprite`
the conversion of an object, `AddKeySprite` (once per key, in any order: the code
iterates over a set), `AddSpaceSprite` and `AddCursorSprite` what follows. A block is
its name and what it is about; its brick records which sprite, variable or list it
refers to and in which program that was looked up, because `converter`, the class
attributes, may be those of the dummy project. `upcoming` are the sprites that
bricks named before their turn. A step that raises sets `phase` to "failed".
A custom block is its header, the labels of its parameters and whether the values it
is given fit; `definitions` and `declared` are the maps of the `SpriteContext` that
`_create_user_brick` shares between the block's calls (`ConvertCall`) and its
definition (`StartScript`), and `roles` says what each script has become. `ProjectsAssumption` says
what any project file is: the stage and then its sprites, names that are no one else's and
neither the mouse pointer's nor the one that the stage has in the scene ("Hintergrund"),
scripts as `ProjectPreparation` has them (`SourceScripts`).
Every handler that refers to a sprite, a variable, a list or a custom block is an action:
`ConvertTarget` and `ConvertNoTarget` (clone, point towards, go to), `ConvertVariable`,
`ConvertShown`, `ConvertPen`, `ConvertList` (the blocks that change a list and those that read
it), `ConvertAnswer`, `ConvertCall`. All others are `ConvertOther`; that includes the reading
of a variable, because its formula has just the variable's name. Names are looked up
(`Lookup`, `LookupList`) among what is declared so far in the program of the converter, and
the sprite's own comes before that of all sprites (`OwnerIn`, what the code expects of
Catroid's data container). The pen's blocks are special (`converter.py:2151-2209`): they
declare the variables "red", "green", "blue" or "pen_size" for the sprite, and the bricks
that should set these set fresh variables of the same names that nobody declares, which the
model calls `Loose`. The several bricks such a block becomes are one here, and a second
declaration of the same variable changes nothing.
`PicturesAssumption`: there is a picture for the key "a", which stands for any key when no
other is waited for.

### ConverterRun

`pc` is the place in `run_converter`. The folder (`code`, `media`, `output`) is a
temporary one for a URL or an archive and the user's own for a directory, where it
keeps what a run has done to it. `threads` is the current batch, of downloads or of
conversions: the first uses of files that are not dealt with, as many as the limit
allows; a batch starts when the last one has been joined. What the main thread does to
files one after the other is one step per file: the renames of a Scratch 3 project
(`Rename`), the pngs that are moved to their rotation centre and, if they have a
resolution, scaled (`BeginTranslation` to `EndResize`), the texts drawn on costumes
(`BeginDrawing`, `EndDrawing`) and the removals (`RemoveSource`). A picture is written
onto itself: `ImageIO.write` deletes it and writes it anew, so that between beginning
and end of the write it is gone or half there, and stays so if the run ends there.
`media` knows a file by what its content is worth: "wrong" is one whose name is not its hash,
"renamed" one whose new name the code does not have yet, "rewritten" one that was
written in place. A text is drawn on the file, so that later uses of the file
show it; that a use without a text gets the texts of those before is in
`IsRewritten`. `ProjectsAssumption` says what any project is: the uses of one file
agree on its kind, because its name ends with it, texts are on costumes, and no media
file of a folder has been converted before the first run. Any call may raise, a thread
too, and the process may be killed at every step; an exception of the main thread is an
action of its own (`Raise`) in every phase, but ends the run only after the
threads of the batch. `raised` and `leftovers` are history variables, read by no action.

## 4. What the runs check

| Run | Question | Instance | Distinct states |
|---|---|---|---|
| `races` | do commands, notifications and faults interleave safely, and are the two abstract specifications implemented | 3 clients, 1 job, 2 runs, limit 2, all faults, symmetry | 263 568 |
| `limit` | is the limit per client kept although records are counted one by one | 2 clients, 2 jobs, 3 runs, limit 1, no faults | 467 680 |
| `live` | does the client that scheduled a job hear its outcome | 1 client, 2 jobs, 2 runs, runs may be lost | 283 233 |
| `listeners` | does an ended job have no listeners | 2 clients, 1 job, 2 runs: violated | 918 when found |
| `session` | does the protocol keep lines, bytes, replies, records and downloads right, and does it end | five sets of troubles | 247 844 |
| `closing` | has every handler that ended closed its stream | a wrong key: violated | 38 when found |
| `sockets` | does the map match the sockets, and does a notification reach them | 3 sockets, 2 clients | 111 592 |
| `twice` | is a closed socket forgotten | a socket may authenticate again: violated | 1 992 when found |
| `scripts` | are scripts converted as a recursion over the author's blocks would | about 300 scripts, 3 project formats | 19 047 |
| `sprites` | do the sprites of a project refer to each other, to variables and to lists rightly | stage and two sprites, 4 850 projects | 151 488 |
| `converter` | does success mean a whole archive, does a folder survive, does every call end | 108 projects, 2 calls, 3 files | 562 069 |
| `http` | how old and how mixed are answers, who forgets a fetch, is everyone answered | 3 requests, 3 fetches, 3 hours | 110 453 |

What they show:

* `races`. `OneActiveRun`: no second worker for a job, though `execute` decides on
  a record it read without a lock. It holds because only the web thread schedules,
  and the TCP thread never makes a job that is not in progress so. `NoLostUpdate`:
  `notify` and `execute` both read, modify and write a whole record; they never
  overlap on one job because `execute` writes only records that are not in
  progress. `SchedulerIsNotified`: the order "remove listeners, then save" keeps
  the scheduler in the list of each notification of its run.
  `FinishedHasVerifiedFile`: a cached archive is whole; a forced run saves READY
  before the server can truncate the file. `StuckOnlyIfAbandoned`: a job stays in
  progress with nobody at work exactly after a fault. `ImplementsSessions`,
  `ImplementsLifecycle`: refinement.
* `session`. `RepliesMatch`, `NoLineIsLost` and `SuccessIsRecorded` (its part
  `FinishedMeansWholeFile` is about the archive, `VerdictIsRecorded` about the record)
  relate what one end believes to what the other did.
  `NobodyWaitsForever` and `SessionEnds`: apart from the listed cases a session
  does not depend on a time limit to end. `JobGetsFinished` for each combination
  of archive size and buffers. `DownloadIsOneArchive`: a download that began when the
  record said FINISHED is the archive that was hashed, and one that was over when the
  transfer began is the earlier one; one that began before FINISHED and was not over
  then may be a part of either. `ImplementsSession`: the phases JobScheduling uses.
* `sockets`. `MapMatchesSockets` and `EverySocketIsReached`: what a notification can
  still get wrong while sockets come and go (a skipped socket, a `KeyError`), and that
  this is all.
* `scripts`. `ResultMatchesRecursion` compares the stack-based traversal with a
  recursive definition of the conversion; it excludes blocks with their own name as
  a text, and blocks without a counterpart inside such blocks, where the code's
  stack does mix arguments up. `LoopsAreClosed`, `UnsupportedLeavesNote`,
  `WalkRebuildsScript` and `AbortsOnlyFor` cover what exceptions, notes, stored blocks
  and odd blocks do to a script.
  `FactorsGetBrackets` and `LooksAreCounted` hold but for one case each, which they
  name: the second sum of a product gets no brackets (against
  `test_scriptcodemodifier.py:77`), and the block that switches the backdrop and waits
  shows the look after the one asked for (against the comment at
  `converter.py:1795`).
* `sprites`. `RefersToSavedProgram`: a brick made before the sprite it names is
  still right, because `upcoming_sprites` hands that sprite out at its turn; after a
  sensor hat with a formula it is not, since the hat replaces the project in the class
  attributes. Neither is a brick that names the sprite it is in, other than to clone it, or
  the stage: a script that was dragged there from another sprite does, and the brick gets a
  second sprite of that name, which is in no scene (`NamesItself`). The pen's bricks are outside
  the claim: what they set is declared nowhere. Its part `NamesAreMeant`: a block with the name
  of a variable or a list gets the object's own, or else that of all sprites, whatever other
  objects declare; but the variables that the pen declares hide those of all sprites called
  "red", "green", "blue" or "pen_size" from the object's blocks after it. Its part `CallsHaveBodies`: calls and definition of a custom block share
  one definition brick in whatever order they come; a definition that cannot be
  converted, or a second one, becomes a start script, so that its body runs when the
  program starts. `GeneratedVariablesAreFed` (with `TimerRunsOnce`), `StartValuesAreKept`
  (with `AnswerStartsEmpty`), `KeysAreServed` (with `KeysHaveTheirPlaces`) and
  `ConversionFailsOnlyFor` each state what every project gets, with the exact set of
  projects that do not: a timer that is reset and watched but not read runs twice, an
  answer that only sprites read has no start value, "any" key waited for in one way
  and another key in the other way makes two key sprites overlap.
* `converter`. `SuccessShipsEverything`: exit code 0 with a resource missing or half
  converted needs an exception in a conversion thread, which only ends that thread,
  or a leftover of a run before in the same folder. `FolderSurvives` names what
  may become of a folder that is converted where it is: a run that ends inside a write
  leaves a picture that is gone or half there, one that ends between the renames of a Scratch 3
  project and the code that has the new names leaves files that the code does not know.
  No later run gets such a folder past verification. `OneThreadPerFile`, `RunsEnd`: what
  threads do to the files they share, and that every call ends.
* `http`. `DetailsAreRecent` (of the meta data, and with `RemixesAreRecent` of the fetch)
  and `OneVersion` bound the age of the parts of an answer and say when there is no
  bound: a fetch that a failed handler left in the map is used by the next request,
  however much later.
  `OnlySharersForget`: two fetches of one project at a time need a request that shared
  the first. `EveryRequestIsAnswered` is liveness.

`TypeOK` is a property of `races` and a theorem for each of the five state machines
with proofs; no other run spends its time on it.

### Disagreements between the code and what it says

| Run | Said | Done |
|---|---|---|
| `listeners` | listeners are removed before the state is updated (`websockethandler.py:145`) | a client that joins between the two stays listed |
| `closing` | "Closing connection." (`jobmonitortcpserver.py:225`) | `notify` without a job ID raises `KeyError` before the stream is closed |
| `twice` | "no more than 1 clientID per socket" (`websockethandler.py:191`) | a second authentication appends the socket again |

The assertion of `run_job` on missing meta data (`converterjob.py:74`, against "continue
without updating title and/or image URL!" at line 246) is a trouble of `session`, where
it ends the worker with the job still READY.

### Bounds

* `races`: a race of `execute` and `notify` needs two clients of one job, one that
  scheduled and one that joins; a third lets two join. Two runs let an ended run and
  its successor overlap. Keys of different jobs are independent except for the
  limit, which has a run of its own with two jobs; with limit 1 a client can exceed
  it only through records that change while they are counted, and three runs leave
  room for that.
* `live`: symmetry is not sound for liveness, so the instance is smaller; two jobs
  compete for the two threads.
* `session`: 3 lines with a line buffer of 2 cover a full, a partial and an empty
  buffer; sizes up to 4 with pieces of 3 and 2 and a window of 2 cover archives
  below, at and above each buffer. The three sets of troubles tell apart what holds
  always, without the server's troubles, and without any. Downloads have a set of
  their own with the rewrite of the archive and the end of the worker, an earlier
  archive or none, and chunks of 2. `CHECK_DEADLOCK FALSE`: a session ends.
* `sockets`: the smallest map in which a client loses a socket and keeps one while
  another client's list changes.
* `scripts`: every block of the modelled tables that has a branch of its own, bodies
  with none, one and two blocks, nesting up to three deep, blocks with and without
  a counterpart in every position; Scratch 2, and Scratch 3 with empty slots
  missing or stored. Scripts do not interact in these modules, so one at a time is
  enough.
* `sprites`: two sprites name each other, so that one of them is named before and
  one after its conversion; the stage is first and the watchers name all three. Key
  lists mix both ways of waiting for a key, "any", space and keys without picture. A
  custom block is called before, in and after its definitions, of which there are none,
  one or two, with agreeing labels or not, each with values that fit or not. The stage has a
  variable called like one of the pen's, which a sprite reads and sets before and after it sets
  its pen, and a variable and a list whose names one of the sprites has for its own.
* `converter`: four uses of three files, one used twice, so that with three threads
  the second use of a file falls into the first batch and a second batch is left;
  downloads in batches of two. Pngs with and without a resolution, and costumes with and
  without a text, the second use of a file among them. One retry shows the retried and the last attempt. A
  second call is what a folder's leftovers need.
* `http`: a fetch that is replaced while a request of the first still waits needs
  three requests. Three hours are longer than an answer, meta data and the two
  together are valid.

### Fairness

Only runs with liveness properties assume any. JobScheduling: weak fairness of both
threads (they block only in a Redis call), of `Connect` (RQ workers take every
entry), strong fairness of `Advance` for each run, because the TCP thread's IO loop
polls all connections in every iteration and cannot starve one for another's sake.
Nothing is assumed of clients, expiry or faults. JobMonitorProtocol: weak fairness
of both ends, of the callbacks of a closed stream, of the zombie watcher (a periodic
callback), and of `WorkerKilled`, RQ's time limit of 6000 s, which is shorter than
the 10800 s after which the watcher takes a stream for a zombie. ConverterRun: weak
fairness of `Continue`, the steps of the run and its threads: requests have timeouts
and a bounded number of attempts, and external programs are assumed to end; nothing is
assumed of exceptions, interruptions or the next call. ProjectInfoCache: the HTTP
client's requests time out, and the IO loop runs every callback. WebSocketSessions,
ScriptConversion and SpriteConversion state no liveness.

## 5. What is proved

Every invariant and action property of the passing runs on JobScheduling, JobMonitorProtocol,
WebSocketSessions, ConverterRun and ProjectInfoCache is a theorem, and so are every
refinement, the invariants of SpriteConversion, and `LoopsAreClosed` of ScriptTraversal.
The theorems hold for all values of the constants that satisfy the named assumptions of the modules: sets of clients,
jobs, sockets, requests and projects of any size, any limits, buffers and numbers of
retries. In each module the argument is the same: an inductive invariant, one lemma per
action or group of actions, and `PTL` at the end. TLC has checked each inductive
invariant on the instance of the module's run, but for that of ScriptTraversal, which says
that there are sets and places TLC would have to enumerate.

### JobScheduling

`JobScheduling_proofs` proves that `IInv` is inductive, and from it `TypeOK`,
`OneActiveRun`, `NoLostUpdate`, `SchedulerIsNotified`, `FinishedHasVerifiedFile` and
`StuckOnlyIfAbandoned`. Assumptions: the faults are of the named kinds, `None` is no
client, job or run, the limit is a natural number. Finiteness of the sets is not
needed: that two active runs of a job are equal is stated without counting and turned
into `Cardinality(...) <= 1` at the end. None of the properties is inductive alone.
`IInv` adds:

* `Owned`: a command, notification or run in flight has its job and client.
* `ActiveJobs`: a job with an active run is in progress, and the run is the only one.
  Needs to know that nobody schedules a job that is in progress, hence
* `WebReadsAreGood`: what the web thread has read of a record still holds when it
  acts. Between `LookupJob` and `Enqueue` it is the only one to write the record: the
  TCP thread writes records of active runs only, which are in progress.
* `NotifFollowsRun`: the TCP thread is where the phase of its run says it is.
* `SchedulerListens`: the client of an active run is listed until the list is read
  for the last notification, and no list the web thread is about to write back
  lacks it. This is where the order of `notify`'s calls is used.
* `VerifiedRunsHaveFile`: nobody truncates the file of a verified run, because the
  job has no other run.

`JobScheduling_refinement` proves `ImplementsLifecycle`. It maps each job to its state
and to an attempt: live while it has an active run, scheduling while the web thread
is between save and enqueue, lost once a fault ended it. Most steps stutter;
`SaveReadyJob`, `Enqueue`, `NotifySaveJob`, the lost runs and the crash map to steps of
JobLifecycle, with `IInv` as the invariant that makes the mapped guard true.
It also proves `ImplementsSessions`, for every run at once. That needs
one thing more (`OverIsSent`): a run whose outcome is recorded is the one whose last
message is being sent, so that nobody overwrites its outcome before its slot is free.

The last part of `JobScheduling_proofs` proves `LimitPerClient` under one hypothesis, that
no write to Redis fails. It is the hypothesis of the run `limit` and cannot be dropped: `execute`
ignores a failed write of the client's list, and the job missing in it is not counted
next time. The invariant follows the loop: while records are counted, `count` bounds the
active runs of the jobs counted so far, although the TCP thread changes records behind
and before it, because only the web thread makes runs active; afterwards it bounds all
of the client's runs until the job is in the queue.

### JobMonitorProtocol

`JobMonitorProtocol_proofs` proves `RepliesMatch`, `NoLineIsLost`, `SuccessIsRecorded`,
`DownloadIsOneArchive`, `NobodyWaitsForever` and `ImplementsSession`, for any sets of troubles. The properties
speak of both ends and what is between them; the invariant has to say where one end is
while the other is somewhere else:

* `InStep`, `Answers`, `Late`: as long as the handler serves the worker, its stage is
  where the worker's last positive reply leads, and a reply in flight is the only one.
* `Channel`, `Sent`: which requests may be in flight at a stage, stated of the channel
  and the server alone, since a worker that ended or vanished leaves what it had sent.
* `Bytes`: what is written, in flight and still unsent is no more than what was
  announced, and corrupted bytes make the archive bad for good.
* `Lines`: the lines recorded, in flight and in the buffer are those printed. Counting
  along the channel would be a recursion; instead there is a function with the
  partial sums, which every step extends, cuts or shifts.
* `Ended`, `Verdict`, `Download`: a record that says how the job ended is not touched,
  and a download is a prefix of the archive it opened.
* `Progress`, for `NobodyWaitsForever`, which speaks of the guards of the two ends
  (`WorkerCanGo`, `HandlerCanGo`) and not of `ENABLED`. A worker that waits for a reply
  that is not on its way has its request last in the channel, behind its updates
  (`Asked`), so the handler can read. While bytes are transferred, those in the file, in
  flight and still unsent are together what was announced (`Accounted`), so that a
  handler that waits for more has a worker that will send more, unless the worker had
  announced another size than it sends, the case the property names.

### WebSocketSessions

`WebSocketSessions_proofs` proves `TypeOK` without a hypothesis, and `MapMatchesSockets`
and `EverySocketIsReached` if no socket authenticates twice (`OncePerSocket`, the setting
of the run `sockets`; the run `twice` shows that the code needs it). `Lists` states the
map between any two accesses of the web thread. The loop of `notify` runs over a list
that shrinks and grows under it: `NotYet` says that nothing at or behind its position
has got the message, `Ahead` that whatever still has to get it is there, or that one of
the client's sockets has left. That `list.remove` takes away the one position of the
socket and shifts the rest are lemmas about sequences (`OneRemoved`, `RemovedOnce`,
`AppendedOnce`).

### ConverterRun

`ConverterRun_proofs` proves `OneThreadPerFile`, `SuccessShipsEverything` and
`FolderSurvives`, for projects that satisfy `ProjectsAssumption`. `Batched`, with the
lemmas `BatchIsGapless` and `ThreadsStart`, is about the batches: nothing of the set is
left out between two of them, and two first uses never have the same file. `Scanned`,
`Writing` and `Outputs` follow a file from its verification through the writes in place into
the batch phase: what the next use needs of its file is known at each step (`Content`,
`Worth`), `Dealt` says that every file that had to be converted is converted or has raised,
and an output that is taken for a conversion was made in this run or found when it began.
`Shipped` carries that through the texts and the copies to the archive. `Runs`
says that the first run finds no output, and `Folder` what all the runs before have
left: for each file whether it is what it was or why not (`Kept`), and which names the code
knows while it is that of Scratch 3 (`Named`). `WhileHalfDone` is why what is half done stays
named: with it, verification ends the run.

### ProjectInfoCache

`ProjectInfoCache_proofs` proves `DetailsAreRecent`, `OneVersion` and `OnlySharersForget`.
`Answer` dates each answer by the time until which it is valid, which turns ages that
change with the clock into differences of times that do not. `Shared` is what makes the
fetch of an answer as old as the answer: the fetch that is in the map has a request
that waits for it, unless a handler has failed, and the clock does not go on while a
request could. `Numbered` orders the fetches, for `OnlySharersForget`.

### SpriteConversion

`SpriteConversion_proofs` proves `TypeOK`, `RefersToSavedProgram`, `KeysAreServed`,
`ConversionFailsOnlyFor`, `StartValuesAreKept` and `GeneratedVariablesAreFed`, for all projects that satisfy
`ProjectsAssumption`: any number of objects, scripts, blocks and keys in any order. `Inv` is
what the first needs and the others rest on; each of these adds an invariant of its own.

* `Prepared`: the workarounds change blocks, not what a script is or which block it
  defines, and leave no block that names a sprite but the three that look it up, and
  distances to sprites there are not. This is where the conversion depends on the step before it.
* `BrickRefers`: while objects are converted, a brick may refer to a sprite that is not
  there yet. Then it is the one of that name that `upcoming` hands out, and no sprite of
  that name has begun: when one begins, it is that one (`Grows`). At the end every object
  has its sprite, so nothing is waited for (`RefersAtTheEnd`); a pointer's sprite that
  was named is added. Of variables and lists it says that they are declared, of the pen's
  bricks nothing.
* `CustomBlocks`: a header has at most one definition brick; a script that has it is the
  only one; and the first definition whose labels are those of the last one is met, with
  the brick or, if it is odd, without. The last definition always agrees with itself, so
  every block that is defined is met in the end (`CallsAtTheEnd`).
* `MeantInv`, for `NamesAreMeant`: what an object has in the project file is declared before
  its first brick, and it owns no variable called like one of all sprites but its own and its
  pen's, since only a lookup that finds nothing declares one (`OwnsOnly`). Whoever owns a
  variable has begun, so none is waiting for an object whose turn comes. The bricks so far
  have what their names mean, and keep it, as nothing that is declared goes (`Meant`).

* `KeyInv`, for `KeysAreServed`: whoever was dealt with is served and serves "any"
  (`SeenIsServed`), and every sprite is at a place before the next free one (`Placed`).
  What a sprite says of having been made is wrong only if both workarounds make it, which
  takes mixed ways of waiting (`KeyIsDealtWith`); otherwise a new sprite takes the next place
  and no other has it. Places repeat neither in a row nor between rows, and the four that the
  space key touches are left out (`Places`).
* `FailInv`, for `ConversionFailsOnlyFor`: whatever the workarounds ask for is named by a
  block of the project file, and so is a pointer that `upcoming` waits for. The last is why
  `SameScript` says that blocks that name a sprite stay what and where they are.
* `StartInv`, for `StartValuesAreKept`: while the stage is converted its answer variable is
  declared exactly if the answer is watched or a block so far uses it; no generated variable
  is taken for it. When the stage is finished all its blocks have been met (`StageUsesAnswer`).
* `FedInv`, for `GeneratedVariablesAreFed`: the scripts that are converted are those of the
  preparation, which read a generated variable only if it was asked for (`PreparedBlock`),
  and then helpers, which set those the stage declares (`HelperBlock`); so a lookup finds the
  variable of all sprites (`OwnerOfFed`), and no sprite gets one of its own. Bricks mirror
  blocks, so what is asked for is set (`HelperSets`), and the counting scripts of the stage
  are at two places at most, both taken only in the named case (`CountingHelpers`).

No prover knows that a text is a string; the types have the texts of the modules listed
next to `STRING` (`Texts`).

### ScriptTraversal

`ScriptTraversal_proofs` proves `LoopsAreClosed` for trees of any size and depth, of any
blocks with any arguments, and for all names of lists, sounds, looks and variables a
sprite may have. It is a theorem of `TraversalSpec`. What it asks of the tree (`IsScriptTree`) is
what `from_raw_block` builds of a block list: code, blocks that have a name, and no text
that is the name of a list (`<LIST>`, `scratch.py:903`). ScriptConversion starts the traversal
with such trees only: TLC evaluates that of the scripts of the run, as
`TreesAreScriptTrees` of `MCScriptConversion`.

It would be simple if every element got the arguments that are its own. It does not:
`_visit` looks for its name from the top of the stack, and a block with a text argument
that equals its name finds the text, takes only what is above it, and leaves its own name
and the other arguments behind. So the invariant is not "what lies above a name is what the
children became", and has to say what such a block does to the blocks around it:

* `Walking`: the elements that are being visited have their names on the stack, each at a
  place of its own (`Frames`), whatever else is there. Between two of these names is a
  `Segment`, which is `Good`: it holds something foreign, or its bricks are nested.
* Foreign is what neither a brick is nor disappears: a name or an argument that was left
  behind, a formula. Nothing foreign can become part of a script: a list that holds it is not
  a list of bricks, the brick constructors refuse it, and at last `Collect` does. A
  block that takes the wrong entry leaves its name, which is foreign, so that what
  it breaks is never converted (`Settled`, `VisitGives`).
* `SoundSet`: every list that lies on the stack, which is the body of a loop or
  a branch to come, is `Good` too. `ConversionOutcome` and the lemmas before it go through every
  handler: of sound arguments it makes an exception, one value or brick that opens and closes
  nothing, or bricks that are nested around the bodies it was given.
* `Waiting`: the child stack holds notes only, so that it does not matter which
  block they are put before.

`LoopsAreClosed` follows the open loops and branches along the bricks. It is stated for
sequences by `Leads`, of which the lemmas say that pieces can be joined, and that what
is nested by itself is so between other bricks. These are inductions over the length of a
sequence. The induction theorems of the library take an operator as a parameter and cannot
be used; the lemma `Induction` gets it from the well-foundedness of `<` (`WFMin`), for the set of
numbers for which the statement holds, and `Iterates` gets from it that the function
with the open bricks exists.

### What is only model-checked

* Liveness: `SchedulerHearsOutcome`, `SessionEnds`, `JobGetsFinished`, `RunsEnd`,
  `EveryRequestIsAnswered` (fairness is out of the prover's reach).
* `ResultMatchesRecursion`, `UnsupportedLeavesNote`, `WalkRebuildsScript`, `AbortsOnlyFor`,
  `FactorsGetBrackets` and `LooksAreCounted`: they relate the traversal to the author's
  script by way of ScriptConversion, Scratch3Walk and ScriptRewriting, which recurse over trees with
  RECURSIVE operators, and the prover does not support these.

## 6. What is not modelled

* Custom blocks of Scratch 3 (procedures and argument reporters in the walk over stored
  blocks), and which parameter of a custom block becomes which element of its brick.
* Names, costumes made of texts, the fields of the program's header, rotation centres
  and the new names of media files: values that no decision of the code depends on.
* The progress bar and the progress protocol of the converter: dormant, since the
  expected progress is never set; JobMonitorProtocol has the lines a worker reads.
* `--extract-resulting-catrobat`, the checks of the Java environment and of versions in
  `main.py`: they only read, or copy what is finished.
* That messages of broadcasts get lower case, and the texts of the bricks.
* `retrieve_info`, which only reads what `schedule_job` reads in the same way.
* Media formats (`svgtopng`, `wavconverter`), XML and zip writing, Catroid's
  classes: data formats and third-party code with no control of their own.
* The browser's script, pages, deployment; `progressbar` and `docopt` (vendored); the
  source code filter, a build-time tool.
* Redis and RQ are external: single commands are atomic, the queue keeps its
  entries. TLS and TCP are FIFO channels that can be reset.
