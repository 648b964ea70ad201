------------------------- MODULE JobMonitorProtocol -------------------------
(***************************************************************************)
(* One session between a worker (ConverterJobHandler, a process of RQ) and *)
(* the job monitor server's handler of its connection                      *)
(* (TCPConnectionHandler): requests, replies, the transfer of the archive, *)
(* and every way in which the session can break.                           *)
(*                                                                         *)
(* Both ends are coroutines; a step runs from one yield to the next. The   *)
(* connection is a FIFO channel in each direction. An end that closes with *)
(* data unread, or that is written to after it closed, resets the          *)
(* connection, and what is still in flight may then be lost.               *)
(***************************************************************************)
EXTENDS Naturals, Sequences

CONSTANTS MaxLines,         \* bound: output lines of a conversion
          MaxProgress,      \* bound: progress updates of a conversion
          MaxSize,          \* bound: size of an archive
          EarlierSizes,     \* bound: sizes of the archive of an earlier run, 0 for none
          LINE_BUFFER_SIZE, \* lines the worker collects before it sends them
          BUFFER_SIZE,      \* bytes the worker reads and sends at once
          DOWNLOAD_BUFFER,  \* bytes a download reads at once
          MaxInputBuffer,   \* max_input_buffer_size: bytes the server reads at once
          Window,           \* what a connection takes in before a writer has to wait
          Verbose,          \* the worker sends the converter's output
          TroubleSets       \* what may go wrong in a session: sets of TroubleKinds

TroubleKinds ==
    {"refuse",   \* the worker cannot connect
     "auth",     \* the server does not accept the worker's key
     "meta",     \* the project's title or image could not be fetched
     "garble",   \* a title or a line that Request.bytedata makes invalid JSON of
     "exit",     \* the converter ends with an exit code other than 0
     "nofile",   \* there is no archive after the conversion
     "empty",    \* the archive is empty
     "rewrite",  \* another converter of the job rewrites the archive meanwhile
     "notify",   \* notify raises (Redis, or the socket of a listener is closed
                 \* meanwhile), or returns without having saved the record
     "kill",     \* the worker ends: its timeout in RQ, or a signal
     "vanish",   \* the worker's machine or network fails without a word
     "crash",    \* the web process ends
     "download"} \* an archive of an earlier run may be there, and it is downloaded

ASSUME TroublesAssumption == TroubleSets \subseteq SUBSET TroubleKinds
ASSUME BoundsAssumption == {MaxLines, MaxProgress, MaxSize} \cup EarlierSizes \subseteq Nat
ASSUME BuffersAssumption ==
    {LINE_BUFFER_SIZE, BUFFER_SIZE, DOWNLOAD_BUFFER, MaxInputBuffer, Window} \subseteq Nat \ {0}
ASSUME VerboseAssumption == Verbose \in BOOLEAN

VARIABLES worker,     \* the worker: where run() is, and its locals
          server,     \* the handler: where run() is, and its locals
          toServer,   \* requests and bytes of the archive in flight
          toWorker,   \* replies in flight
          closed,     \* the ends that have closed the connection
          reset,      \* data in flight may be lost
          registered, \* the stream is in server.streams
          record,     \* job#{id} in Redis
          file,       \* the archive in download_dir
          download,   \* one download of it, on the web thread
          troubles    \* what may go wrong in this session

net  == <<toServer, toWorker, closed, reset>>
session == <<worker, server, toServer, toWorker, closed, reset, registered, record, file>>
vars == <<session, download, troubles>>

MinOf(a, b) == IF a < b THEN a ELSE b

------------------------------------------------------------------------------
(* Requests and replies *)

\* Request.COMMAND_ARGS
CommandArgs ==
    [AUTH           |-> {"KEY"},
     JOB_STARTED    |-> {"ID", "TITLE", "IMAGE", "MSG"},
     JOB_PROGRESS   |-> {"ID", "PROGRESS"},
     JOB_OUTPUT     |-> {"ID", "LINES"},
     JOB_CONVERTED  |-> {"ID", "RESULT", "MSG"},
     JOB_FINISHED   |-> {"ID", "SIZE", "HASH"},
     JOB_FAILED     |-> {"ID", "MSG"}]

\* Request.is_valid looks at the arguments only, never at the command. A request
\* that is not good is no JSON any more when it arrives.
IsValid(data, expected) ==
    data.good /\ CommandArgs[expected] \subseteq CommandArgs[data.cmd]

IsJson == IF "garble" \in troubles THEN BOOLEAN ELSE {TRUE}

\* val: the number of lines, the exit code or the size. A byte of the archive is
\* good when it is the byte that was hashed.
Data(cmd, val, good) == [cmd |-> cmd, val |-> val, good |-> good]
Requests == [cmd : DOMAIN CommandArgs \cup {"BYTE"}, val : Nat, good : BOOLEAN]

Waits   == {"greeting", "auth", "start", "end", "file", "verdict"}
Replies == [result : BOOLEAN, to : Waits \cup {"jobs", "transfer"}]

------------------------------------------------------------------------------
(* The two ends *)

WorkerSteps == Waits \cup {"connect", "hung", "sendAuth", "sendStart", "convert",
                           "sendEnd", "post", "send", "done", "ended", "vanished"}

WorkerLocals == [pc : WorkerSteps, buffer : Nat, printed : Nat, progress : Nat,
                 exitCode : 0 .. 1, unsent : Nat, same : BOOLEAN, success : BOOLEAN]

\* stage: the part of run() the handler is in, named for what the worker waits
\* for. onClose: the callback of the closed stream has not run yet.
Stages == Waits \cup {"jobs", "transfer"}
ServerLocals == [pc : {"none", "greet", "read", "notify", "bytes", "fail",
                       "failNotify", "over"},
                 stage : Stages, context : BOOLEAN, size : Nat, onClose : BOOLEAN]

\* size: the length of the file when the download began. from: the archives it
\* has read bytes of, the one of the earlier run and that of this one.
Downloads == [pc : {"none", "reading", "served", "broken"}, size : Nat, got : Nat,
              from : SUBSET {"earlier", "hashed", "other"}, finished : BOOLEAN]

TypeOK ==
    /\ worker \in WorkerLocals
    /\ server \in ServerLocals
    /\ toServer \in Seq(Requests)
    /\ toWorker \in Seq(Replies)
    /\ closed \subseteq {"worker", "server"}
    /\ reset \in BOOLEAN
    /\ registered \in BOOLEAN
    /\ record \in [state : {"READY", "RUNNING", "FINISHED", "FAILED"}, lines : Nat]
    /\ file \in [bytes : Nat, good : BOOLEAN]
    /\ download \in Downloads
    /\ troubles \in TroubleSets

Init ==
    /\ worker = [pc |-> "connect", buffer |-> 0, printed |-> 0, progress |-> 0,
                 exitCode |-> 0, unsent |-> 0, same |-> TRUE, success |-> FALSE]
    /\ server = [pc |-> "none", stage |-> "greeting", context |-> FALSE, size |-> 0,
                 onClose |-> TRUE]
    /\ toServer = <<>> /\ toWorker = <<>>
    /\ closed = {} /\ reset = FALSE
    /\ registered = FALSE
    /\ record = [state |-> "READY", lines |-> 0]
    /\ troubles \in TroubleSets
    /\ \E n \in IF "download" \in troubles THEN EarlierSizes ELSE {0} :
         file = [bytes |-> n, good |-> TRUE]
    /\ download = [pc |-> "none", size |-> 0, got |-> 0, from |-> {}, finished |-> FALSE]

\* The bytes handle_job_finished asks for next.
BufferSize_Whole(left) == MaxInputBuffer
BufferSize(left) == MinOf(left, MaxInputBuffer)
EnoughBytes == Len(toServer) >= BufferSize(server.size - file.bytes)

WorkerClosed == "worker" \in closed
ServerClosed == "server" \in closed

\* An end closes the stream: what it has not read is gone.
WorkerCloses(unread) ==
    /\ closed' = closed \cup {"worker"}
    /\ reset' = (reset \/ unread # <<>>)
    /\ toWorker' = <<>>
ServerCloses ==
    /\ closed' = closed \cup {"server"}
    /\ reset' = (reset \/ toServer # <<>>)
    /\ toServer' = <<>>

------------------------------------------------------------------------------
(* The worker: JobHandler.run and ConverterJobHandler *)

\* yield send_message(...) returns once the data are written: a writer waits
\* while the connection takes in no more. A server that waits for bytes takes
\* them into its buffer.
CanWrite == \/ Len(toServer) < Window
            \/ server.pc = "bytes" /\ ~EnoughBytes
            \/ ServerClosed
Sends(data) ==
    /\ CanWrite
    /\ IF ServerClosed THEN reset' = TRUE /\ UNCHANGED toServer
                       ELSE toServer' = toServer \o data /\ UNCHANGED reset
    /\ UNCHANGED <<toWorker, closed>>

\* handle_exception closes the stream, and on_close stops the IO loop.
WorkerEnds(unread) ==
    /\ worker' = [worker EXCEPT !.pc = "ended"]
    /\ WorkerCloses(unread)
    /\ UNCHANGED <<server, toServer, registered, record, file>>

Connect ==
    /\ worker.pc = "connect"
    /\ worker' = [worker EXCEPT !.pc = "greeting"]
    /\ server' = [server EXCEPT !.pc = "greet"]
    /\ registered' = TRUE
    /\ UNCHANGED <<net, record, file>>

\* handle_exception raises too, since there is no connection, and nobody stops
\* the IO loop.
ConnectFails ==
    /\ "refuse" \in troubles
    /\ worker.pc = "connect"
    /\ worker' = [worker EXCEPT !.pc = "hung"]
    /\ UNCHANGED <<server, net, registered, record, file>>

\* What the worker does after a positive reply. The archive was hashed before;
\* if it is rewritten, other bytes are sent, and more or fewer of them.
AfterReply(w) ==
    CASE w.pc = "greeting" -> {[w EXCEPT !.pc = "sendAuth"]}
      [] w.pc = "auth"     -> {[w EXCEPT !.pc = "sendStart"]}
      [] w.pc = "start"    -> {[w EXCEPT !.pc = "convert"]}
      [] w.pc = "end"      -> {[w EXCEPT !.pc = "post"]}
      [] w.pc = "file"     -> {[w EXCEPT !.pc = "send"]} \cup
             (IF "rewrite" \in troubles
              THEN {[w EXCEPT !.pc = "send", !.unsent = n, !.same = FALSE] : n \in 0 .. MaxSize}
              ELSE {})
      [] w.pc = "verdict"  -> {[w EXCEPT !.pc = "done", !.success = TRUE]}

ReceiveReply ==
    /\ worker.pc \in Waits
    /\ toWorker # <<>>
    /\ IF Head(toWorker).result
       THEN /\ worker' \in AfterReply(worker)
            /\ toWorker' = Tail(toWorker)
            /\ UNCHANGED <<server, toServer, closed, reset, registered, record, file>>
       ELSE WorkerEnds(Tail(toWorker))

SendAuth ==
    /\ worker.pc = "sendAuth"
    /\ Sends(<<Data("AUTH", 0, TRUE)>>)
    /\ worker' = [worker EXCEPT !.pc = "auth"]
    /\ UNCHANGED <<server, registered, record, file>>

\* run_job: the title and the image have to be strings, then the converter is
\* started and JOB_STARTED is sent.
AssertionFails ==
    /\ "meta" \in troubles
    /\ worker.pc = "sendStart"
    /\ WorkerEnds(toWorker)
StartJob ==
    /\ worker.pc = "sendStart"
    /\ \E good \in IsJson :
         Sends(<<Data("JOB_STARTED", 0, good)>>)
    /\ worker' = [worker EXCEPT !.pc = "start"]
    /\ UNCHANGED <<server, registered, record, file>>

SendsLines(n) ==
    \E good \in IsJson :
        Sends(<<Data("JOB_OUTPUT", n, good)>>)

\* A line of the converter's output: sent with the lines before it once there
\* are LINE_BUFFER_SIZE of them.
ReadLine ==
    /\ worker.pc = "convert" /\ worker.printed < MaxLines
    /\ LET full == Verbose /\ worker.buffer + 1 >= LINE_BUFFER_SIZE
       IN /\ worker' = [worker EXCEPT !.printed = @ + 1,
                                      !.buffer = IF full THEN 0 ELSE @ + 1]
          /\ IF full THEN SendsLines(worker.buffer + 1) ELSE UNCHANGED net
    /\ UNCHANGED <<server, registered, record, file>>

\* A line that reports a higher progress.
ReadProgress ==
    /\ worker.pc = "convert" /\ worker.progress < MaxProgress
    /\ worker' = [worker EXCEPT !.progress = @ + 1]
    /\ Sends(<<Data("JOB_PROGRESS", worker.progress + 1, TRUE)>>)
    /\ UNCHANGED <<server, registered, record, file>>

\* What is left in the buffer when the output ends.
RestOfLines_Dropped(buffer) == 0
RestOfLines(buffer) == IF Verbose THEN buffer ELSE 0

ConverterEnds ==
    /\ worker.pc = "convert"
    /\ \E code \in IF "exit" \in troubles THEN {0, 1} ELSE {0} :
         worker' = [worker EXCEPT !.pc = "sendEnd", !.buffer = 0, !.exitCode = code]
    /\ IF RestOfLines(worker.buffer) > 0 THEN SendsLines(RestOfLines(worker.buffer))
                                         ELSE UNCHANGED net
    /\ UNCHANGED <<server, registered, record, file>>

SendConversionFinished_NoReply ==
    /\ worker.pc = "sendEnd"
    /\ Sends(<<Data("JOB_CONVERTED", worker.exitCode, TRUE)>>)
    /\ worker' = [worker EXCEPT !.pc = "post"]
    /\ UNCHANGED <<server, registered, record, file>>
SendConversionFinished ==
    /\ worker.pc = "sendEnd"
    /\ Sends(<<Data("JOB_CONVERTED", worker.exitCode, TRUE)>>)
    /\ worker' = [worker EXCEPT !.pc = "end"]
    /\ UNCHANGED <<server, registered, record, file>>

\* post_processing
FileDoesNotExist ==
    /\ "nofile" \in troubles
    /\ worker.pc = "post"
    /\ Sends(<<Data("JOB_FAILED", 0, TRUE)>>)
    /\ worker' = [worker EXCEPT !.pc = "done"]
    /\ UNCHANGED <<server, registered, record, file>>
AnnounceFile ==
    /\ worker.pc = "post"
    /\ \E size \in IF "empty" \in troubles THEN 0 .. MaxSize ELSE 1 .. MaxSize :
         /\ Sends(<<Data("JOB_FINISHED", size, TRUE)>>)
         /\ worker' = [worker EXCEPT !.pc = "file", !.unsent = size]
    /\ UNCHANGED <<server, registered, record, file>>

SendBytes ==
    /\ worker.pc = "send" /\ worker.unsent > 0
    /\ LET n == MinOf(BUFFER_SIZE, worker.unsent)
       IN /\ Sends([i \in 1 .. n |-> Data("BYTE", 0, worker.same)])
          /\ worker' = [worker EXCEPT !.unsent = @ - n]
    /\ UNCHANGED <<server, registered, record, file>>
AllSent ==
    /\ worker.pc = "send" /\ worker.unsent = 0
    /\ worker' = [worker EXCEPT !.pc = "verdict"]
    /\ UNCHANGED <<server, net, registered, record, file>>

\* shutdown stops the IO loop; the process ends and its connection with it.
Shutdown ==
    /\ worker.pc = "done"
    /\ WorkerEnds(toWorker)

\* StreamClosedError, or on_close, which stops the IO loop whatever run() is at.
WorkerLosesConnection ==
    /\ ServerClosed
    /\ worker.pc \in WorkerSteps \ {"connect", "hung", "done", "ended", "vanished"}
    /\ worker.pc \in Waits => toWorker = <<>> \/ reset
    /\ WorkerEnds(toWorker)

WorkerStep ==
    \/ Connect \/ ConnectFails \/ ReceiveReply \/ SendAuth \/ AssertionFails \/ StartJob
    \/ ReadLine \/ ReadProgress \/ ConverterEnds \/ SendConversionFinished
    \/ FileDoesNotExist \/ AnnounceFile \/ SendBytes \/ AllSent
    \/ Shutdown \/ WorkerLosesConnection

\* JobTimeoutException of RQ, or the process is killed.
WorkerKilled ==
    /\ "kill" \in troubles
    /\ worker.pc \notin {"ended", "vanished"}
    /\ WorkerEnds(toWorker)

\* Nobody closes the connection; some of what was sent never arrives.
WorkerVanishes ==
    /\ "vanish" \in troubles
    /\ worker.pc \notin {"ended", "vanished"}
    /\ worker' = [worker EXCEPT !.pc = "vanished"]
    /\ \E n \in 0 .. Len(toServer) : toServer' = SubSeq(toServer, 1, n)
    /\ UNCHANGED <<server, toWorker, closed, reset, registered, record, file>>

------------------------------------------------------------------------------
(* The handler: TCPConnectionHandler.run *)

Reading(stage)   == [server EXCEPT !.pc = "read", !.stage = stage]
Notifying(stage) == [server EXCEPT !.pc = "notify", !.stage = stage]
Failing(context) == [server EXCEPT !.pc = "fail", !.context = context]
Over             == [server EXCEPT !.pc = "over"]

\* What a worker sent before it closed the connection is read first, unless the
\* connection was reset.
Arrived(cmd) == server.pc = "read" /\ ~ServerClosed /\ toServer # <<>>
                /\ IsValid(Head(toServer), cmd)
Rest == Tail(toServer)

\* yield send_message(Reply(...)), after which the handler goes on as next. Once
\* the worker has closed the connection, the write may be the one that fails.
SendsReply(to, rest, next) ==
    \/ /\ IF WorkerClosed THEN UNCHANGED toWorker
          ELSE toWorker' = Append(toWorker, [result |-> TRUE, to |-> to])
       /\ toServer' = rest
       /\ reset' = (reset \/ WorkerClosed)
       /\ server' = next
       /\ UNCHANGED closed
    \/ /\ WorkerClosed
       /\ ServerCloses
       /\ server' = Failing(FALSE)
       /\ UNCHANGED toWorker

\* What ConverterWebSocketHandler.notify makes of the job's record.
Recorded_Early(cmd, val) ==
    CASE cmd = "JOB_STARTED"   -> [record EXCEPT !.state = "RUNNING"]
      [] cmd = "JOB_OUTPUT"    -> [record EXCEPT !.lines = @ + val]
      [] cmd = "JOB_FAILED"    -> [record EXCEPT !.state = "FAILED"]
      [] cmd \in {"JOB_CONVERTED", "JOB_FINISHED"} -> [record EXCEPT !.state = "FINISHED"]
      [] cmd = "JOB_PROGRESS"  -> record
Recorded(cmd, val) ==
    CASE cmd = "JOB_STARTED"   -> [record EXCEPT !.state = "RUNNING"]
      [] cmd = "JOB_OUTPUT"    -> [record EXCEPT !.lines = @ + val]
      [] cmd = "JOB_FINISHED"  -> [record EXCEPT !.state = "FINISHED"]
      [] cmd = "JOB_FAILED"    -> [record EXCEPT !.state = "FAILED"]
      [] cmd \in {"JOB_PROGRESS", "JOB_CONVERTED"} -> record

\* notify, with or without trouble: it may raise before or after it has saved
\* the record.
Notifies(cmd, val, next) ==
    \/ record' = Recorded(cmd, val) /\ server' = next
    \/ /\ "notify" \in troubles
       /\ \/ UNCHANGED record /\ server' = next
          \/ record' \in {record, Recorded(cmd, val)} /\ server' = Failing(FALSE)

SendGreeting ==
    /\ server.pc = "greet"
    /\ SendsReply("greeting", toServer, Reading("auth"))
    /\ UNCHANGED <<worker, registered, record, file>>

\* The head of the channel is no JSON or is not what this part of run expects.
Expected(stage) ==
    CASE stage = "auth"  -> {"AUTH"}
      [] stage = "start" -> {"JOB_STARTED"}
      [] stage = "jobs"  -> {"JOB_CONVERTED", "JOB_OUTPUT", "JOB_PROGRESS"}
      [] stage = "file"  -> {"JOB_FINISHED", "JOB_FAILED"}
InvalidData ==
    /\ server.pc = "read" /\ ~ServerClosed /\ toServer # <<>>
    /\ \A cmd \in Expected(server.stage) : ~IsValid(Head(toServer), cmd)
    /\ server' = Failing(FALSE)
    /\ toServer' = Rest
    /\ UNCHANGED <<worker, toWorker, closed, reset, registered, record, file>>

\* StreamClosedError while it waits for a message or for bytes.
ReadFails ==
    /\ server.pc \in {"read", "bytes"}
    /\ \/ ServerClosed
       \/ WorkerClosed /\ (reset \/ toServer = <<>> \/ (server.pc = "bytes" /\ ~EnoughBytes))
    /\ ServerCloses
    /\ server' = Failing(FALSE)
    /\ UNCHANGED <<worker, toWorker, registered, record, file>>

HandleAuthentication ==
    /\ server.stage = "auth" /\ Arrived("AUTH")
    /\ \/ SendsReply("auth", Rest, Reading("start"))
       \/ /\ "auth" \in troubles
          /\ server' = Failing(FALSE)
          /\ toServer' = Rest
          /\ UNCHANGED <<toWorker, closed, reset>>
    /\ UNCHANGED <<worker, registered, record, file>>

\* The worker gets its reply before the record is changed.
HandleJobStarted ==
    /\ server.stage = "start" /\ Arrived("JOB_STARTED")
    /\ SendsReply("start", Rest, Notifying("start"))
    /\ UNCHANGED <<worker, registered, record, file>>
NotifyStarted ==
    /\ server.pc = "notify" /\ server.stage = "start"
    /\ Notifies("JOB_STARTED", 0, Reading("jobs"))
    /\ UNCHANGED <<worker, net, registered, file>>

\* JOB_CONVERSION_FINISHED is looked for first. Updates have no reply.
HandleUpdate ==
    /\ server.stage = "jobs" /\ ~Arrived("JOB_CONVERTED")
    /\ \/ /\ Arrived("JOB_OUTPUT")
          /\ Notifies("JOB_OUTPUT", Head(toServer).val, Reading("jobs"))
       \/ /\ ~Arrived("JOB_OUTPUT") /\ Arrived("JOB_PROGRESS")
          /\ Notifies("JOB_PROGRESS", 0, Reading("jobs"))
    /\ toServer' = Rest
    /\ UNCHANGED <<worker, toWorker, closed, reset, registered, file>>

HandleConversionFinished ==
    /\ server.stage = "jobs" /\ Arrived("JOB_CONVERTED")
    /\ IF Head(toServer).val # 0
       THEN /\ server' = [Failing(TRUE) EXCEPT !.stage = "end"]
            /\ toServer' = Rest
            /\ UNCHANGED <<toWorker, closed, reset>>
       ELSE SendsReply("end", Rest, Notifying("end"))
    /\ UNCHANGED <<worker, registered, record, file>>
NotifyConversionFinished ==
    /\ server.pc = "notify" /\ server.stage = "end"
    /\ Notifies("JOB_CONVERTED", 0, Reading("file"))
    /\ UNCHANGED <<worker, net, registered, file>>

\* handle_job_finished: the worker has no archive. It returns as if all were
\* well, and run closes the stream.
HandleJobFailed ==
    /\ server.stage = "file" /\ ~Arrived("JOB_FINISHED") /\ Arrived("JOB_FAILED")
    /\ Notifies("JOB_FAILED", 0, Over)
    /\ IF server'.pc = "over" THEN ServerCloses
       ELSE toServer' = Rest /\ UNCHANGED <<closed, reset>>
    /\ UNCHANGED <<worker, toWorker, registered, file>>

\* The file is truncated once the reply is written.
HandleFileTransfer ==
    /\ server.stage = "file" /\ Arrived("JOB_FINISHED")
    /\ LET size == Head(toServer).val
       IN IF size = 0
          THEN /\ server' = Failing(TRUE)
               /\ toServer' = Rest
               /\ UNCHANGED <<toWorker, closed, reset, file>>
          ELSE /\ SendsReply("file", Rest, [server EXCEPT !.pc = "bytes", !.stage = "transfer",
                                                          !.size = size])
               /\ file' = IF server'.pc = "bytes" THEN [bytes |-> 0, good |-> TRUE] ELSE file
    /\ UNCHANGED <<worker, registered, record>>

\* The hash of what was written equals the hash that was announced.
Verified_SizeOnly(content, size) == content.bytes = size
Verified(content, size) == content.bytes = size /\ content.good

\* The reply to the last bytes depends on the hash.
ReadBytes ==
    /\ server.pc = "bytes" /\ ~ServerClosed /\ EnoughBytes
    /\ LET n       == BufferSize(server.size - file.bytes)
           rest    == SubSeq(toServer, n + 1, Len(toServer))
           written == [bytes |-> file.bytes + n,
                       good  |-> file.good /\ \A i \in 1 .. n : toServer[i].good]
       IN /\ file' = written
          /\ IF written.bytes < server.size
             THEN toServer' = rest /\ UNCHANGED <<server, toWorker, closed, reset>>
             ELSE IF Verified(written, server.size)
             THEN SendsReply("verdict", rest, Notifying("verdict"))
             ELSE /\ server' = Failing(TRUE)
                  /\ toServer' = rest
                  /\ UNCHANGED <<toWorker, closed, reset>>
    /\ UNCHANGED <<worker, registered, record>>

NotifyFinished ==
    /\ server.pc = "notify" /\ server.stage = "verdict"
    /\ Notifies("JOB_FINISHED", 0, Over)
    /\ IF server'.pc = "over" THEN ServerCloses ELSE UNCHANGED <<toServer, closed, reset>>
    /\ UNCHANGED <<worker, toWorker, registered, file>>

\* handle_exception: send_message makes the stream active again in
\* server.streams, even a closed one. On a closed stream it returns None, which
\* ends the coroutine or not, depending on the version of Tornado.
SendFailure ==
    /\ server.pc = "fail"
    /\ registered' = TRUE
    /\ \/ /\ server' = [server EXCEPT !.pc = "failNotify"]
          /\ toWorker' = IF closed = {} THEN Append(toWorker, [result |-> FALSE, to |-> server.stage])
                                        ELSE toWorker
          /\ reset' = (reset \/ WorkerClosed)
          /\ UNCHANGED <<toServer, closed>>
       \/ /\ closed # {}
          /\ server' = Over
          /\ ServerCloses
          /\ UNCHANGED toWorker
    /\ UNCHANGED <<worker, record, file>>

\* Without a context notify has no job ID and raises KeyError: the stream stays
\* open and the record stays as it is.
NotifyFailure ==
    /\ server.pc = "failNotify"
    /\ server' = Over
    /\ IF server.context
       THEN \/ record' = Recorded("JOB_FAILED", 0) /\ ServerCloses
            \/ "notify" \in troubles /\ UNCHANGED record /\ ServerCloses
            \/ /\ "notify" \in troubles
               /\ record' \in {record, Recorded("JOB_FAILED", 0)}
               /\ UNCHANGED <<toServer, closed, reset>>
       ELSE UNCHANGED <<record, toServer, closed, reset>>
    /\ UNCHANGED <<worker, toWorker, registered, file>>

HandlerStep ==
    \/ SendGreeting \/ InvalidData \/ ReadFails \/ HandleAuthentication
    \/ HandleJobStarted \/ NotifyStarted \/ HandleUpdate
    \/ HandleConversionFinished \/ NotifyConversionFinished
    \/ HandleJobFailed \/ HandleFileTransfer \/ ReadBytes \/ NotifyFinished
    \/ SendFailure \/ NotifyFailure

------------------------------------------------------------------------------
(* A download on the web thread: _DownloadHandler.get *)

IsNewFile == server.stage \in {"transfer", "verdict"}

\* The job's archive exists and has a length; a request for a range of it raises
\* (file.seek) after that. Before the server asks for the file nothing changes it.
BeginDownload ==
    /\ "download" \in troubles
    /\ download.pc = "none" /\ server.stage \in {"file", "transfer", "verdict"}
    /\ IsNewFile \/ file.bytes > 0
    /\ \E pc \in {"reading", "broken"} :
         download' = [download EXCEPT !.pc = pc, !.size = file.bytes,
                                      !.finished = (record.state = "FINISHED")]

\* The next bytes of the file as it is now; the TCP thread may have truncated it.
ReadChunk ==
    /\ download.pc = "reading" /\ file.bytes > download.got
    /\ LET kind == IF ~IsNewFile THEN "earlier" ELSE IF file.good THEN "hashed" ELSE "other"
       IN download' = [download EXCEPT !.got = MinOf(@ + DOWNLOAD_BUFFER, file.bytes),
                                       !.from = @ \cup {kind}]

\* The end of the file: Tornado refuses a body that has not the announced length.
FinishDownload ==
    /\ download.pc = "reading" /\ file.bytes <= download.got
    /\ download' = [download EXCEPT !.pc = IF download.got = download.size THEN "served" ELSE "broken"]

DownloadStep == BeginDownload \/ ReadChunk \/ FinishDownload

------------------------------------------------------------------------------
(* The server's streams *)

\* on_close, once: a handler that fails afterwards registers the stream again.
OnClose ==
    /\ ServerClosed /\ server.onClose
    /\ server' = [server EXCEPT !.onClose = FALSE]
    /\ registered' = FALSE
    /\ UNCHANGED <<worker, net, record, file>>

\* A stream nobody reads from is closed when the worker's end is, unless data
\* were left in its buffer.
NoticeClose ==
    /\ server.pc = "over" /\ WorkerClosed /\ ~ServerClosed
    /\ toServer = <<>> \/ reset
    /\ ServerCloses
    /\ UNCHANGED <<worker, server, toWorker, registered, record, file>>

\* close_streams_after_timeout. A living worker is never inactive for as long
\* as connection_timeout (10800 s): RQ ends it after 6000 s.
CollectClosed ==
    /\ ServerClosed /\ registered
    /\ registered' = FALSE
    /\ UNCHANGED <<worker, server, net, record, file>>
CloseZombie ==
    /\ registered /\ ~ServerClosed
    /\ worker.pc \in {"ended", "vanished"}
    /\ \/ server.pc = "over"
       \/ server.pc = "read" /\ toServer = <<>>
       \/ server.pc = "bytes" /\ ~EnoughBytes
    /\ ServerCloses
    /\ registered' = FALSE
    /\ UNCHANGED <<worker, server, toWorker, record, file>>

ZombieWatcher_ActiveOnly == CloseZombie
ZombieWatcher == CollectClosed \/ CloseZombie

\* The web process ends, and all its connections with it.
ServerCrashes ==
    /\ "crash" \in troubles
    /\ server.pc # "none" /\ (server.pc # "over" \/ ~ServerClosed)
    /\ server' = [Over EXCEPT !.onClose = FALSE]
    /\ ServerCloses
    /\ registered' = FALSE
    /\ download' = IF download.pc = "reading" THEN [download EXCEPT !.pc = "broken"] ELSE download
    /\ UNCHANGED <<worker, toWorker, record, file>>

SessionStep ==
    \/ WorkerStep \/ WorkerKilled \/ WorkerVanishes
    \/ HandlerStep \/ OnClose \/ NoticeClose \/ ZombieWatcher

Next ==
    /\ \/ SessionStep /\ UNCHANGED download
       \/ ServerCrashes
       \/ DownloadStep /\ UNCHANGED session
    /\ UNCHANGED troubles

Spec == Init /\ [][Next]_vars

\* Both processes go on when they can; the callbacks of a closed stream run, the
\* watcher comes round, and RQ ends a worker that takes too long.
Fairness ==
    /\ WF_session(WorkerStep) /\ WF_session(WorkerKilled)
    /\ WF_session(HandlerStep) /\ WF_session(OnClose) /\ WF_session(NoticeClose)
    /\ WF_session(ZombieWatcher)

FairSpec == Spec /\ Fairness

------------------------------------------------------------------------------
(* Properties *)

\* Every positive reply in flight answers what the worker waits for, and there
\* is one at most: although errors are replied to as well, and updates are not
\* answered at all, the worker never takes one reply for another
\* (jobhandler.py:51-141, jobmonitortcpserver.py:96-219).
WaitsFor == IF worker.pc = "send" /\ worker.unsent = 0 THEN "verdict" ELSE worker.pc
RepliesMatch ==
    \A i \in DOMAIN toWorker :
        toWorker[i].result => i = 1 /\ (WaitsFor = "vanished" \/ WaitsFor = toWorker[i].to)

\* When the server has taken note of the end of the conversion, each line the
\* converter printed is in the record once: those in flight, and those still in
\* the worker's buffer, came before (converterjob.py:111-118).
NoLineIsLost ==
    Verbose /\ "notify" \notin troubles /\ server.stage \in {"end", "file", "transfer", "verdict"}
        => record.lines = worker.printed

\* What each end needs in order to take a step of its own: the guards of
\* WorkerStep and of HandlerStep.
WorkerCanGo ==
    \/ worker.pc \in {"connect", "done"}
    \/ worker.pc \in Waits /\ toWorker # <<>>
    \/ worker.pc \in {"sendAuth", "sendStart", "convert", "sendEnd", "post"} /\ CanWrite
    \/ worker.pc = "send" /\ (worker.unsent = 0 \/ CanWrite)
    \/ ServerClosed /\ worker.pc \notin {"hung", "ended", "vanished"}
HandlerCanGo ==
    \/ server.pc \in {"greet", "notify", "fail", "failNotify"}
    \/ server.pc = "read"  /\ (toServer # <<>> \/ closed # {})
    \/ server.pc = "bytes" /\ (EnoughBytes \/ closed # {})

\* The two never wait for each other: when neither end can go on without a
\* timeout, nothing is left to do; or the worker's machine failed, or it never
\* connected; or the handler ended by an exception without context and left the
\* stream open; or the archive shrank after it was announced, and the server
\* waits for the rest while the worker waits for the verdict
\* (jobhandler.py:51-141, jobmonitortcpserver.py:96-233).
NobodyWaitsForever ==
    ~(WorkerCanGo \/ HandlerCanGo) =>
        \/ worker.pc \in {"vanished", "hung"}
        \/ worker.pc = "ended" /\ server.pc \in {"none", "over"}
        \/ server.pc = "over" /\ ~ServerClosed
        \/ worker.pc = "verdict" /\ server.pc = "bytes" /\ ~worker.same

\* A record says FINISHED only when the server has written exactly as many bytes
\* as were announced, all of them the bytes that were hashed: for sizes at, below
\* and above both buffers (jobmonitortcpserver.py:197-213, converterjob.py:156-162).
FinishedMeansWholeFile ==
    record.state = "FINISHED" =>
        file.bytes = server.size /\ file.good /\ worker.unsent = 0

\* A worker that got a positive verdict leaves a job that is FINISHED, or about
\* to be, unless notify or the web process failed.
VerdictIsRecorded ==
    worker.success /\ troubles \cap {"notify", "crash"} = {} =>
        \/ record.state = "FINISHED"
        \/ server.pc = "notify" /\ server.stage = "verdict"
SuccessIsRecorded == FinishedMeansWholeFile /\ VerdictIsRecorded

\* The session goes through the phases ConversionSession promises to the web
\* thread, in that order, and its record is FINISHED or FAILED when it is over.
PhaseOf(stage) ==
    CASE stage \in {"greeting", "auth", "start"} -> "connected"
      [] stage \in {"jobs", "end"}               -> "started"
      [] stage = "file"                          -> "converted"
      [] stage = "transfer"                      -> "transferring"
      [] stage = "verdict"                       -> "verified"
phase ==
    IF server.pc = "none"
    THEN IF worker.pc \in {"ended", "vanished"} THEN "lost" ELSE "queued"
    ELSE IF record.state \in {"FINISHED", "FAILED"} THEN "over"
    ELSE IF server.pc = "over" THEN "lost"
    ELSE PhaseOf(server.stage)

outcome == IF record.state \in {"FINISHED", "FAILED"} THEN record.state ELSE "none"

Session == INSTANCE ConversionSession
ImplementsSession == Session!Spec

\* A download that begins when the record says FINISHED serves the whole archive
\* that was hashed. One that began before serves the earlier archive if it is over
\* when the transfer begins; of what it is given later, while the server writes the
\* file and has not yet verified it, nothing is said (converterwebapp.py:82-134,
\* jobmonitortcpserver.py:201).
ServedWhole == download.from \subseteq {"hashed"} /\ download.got = server.size
DownloadIsOneArchive ==
    download.pc = "served" =>
        \/ ServedWhole
        \/ /\ ~download.finished
           /\ download.from = {"earlier"} \/ IsNewFile

\* Whatever happens, the session comes to an end, and the server forgets its
\* stream.
SessionEnds ==
    <>[](worker.pc \in {"ended", "vanished"} /\ server.pc \in {"none", "over"} /\ ~registered)

\* Without trouble the job gets FINISHED, however the sizes of the archive and of
\* the two ends' buffers relate. (The worker may end without reading the verdict:
\* on_close stops its IO loop.)
JobGetsFinished == troubles = {} => <>(record.state = "FINISHED")

\* "{}! Closing connection." (jobmonitortcpserver.py:225): a handler that ended
\* has closed its stream.
EndedHandlerHasClosed == server.pc = "over" => ServerClosed
=============================================================================
