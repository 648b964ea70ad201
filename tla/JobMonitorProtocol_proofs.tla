---------------------- MODULE JobMonitorProtocol_proofs ----------------------
(***************************************************************************)
(* Proofs about JobMonitorProtocol, for every size of an archive and of    *)
(* the buffers, every number of lines and every combination of troubles.   *)
(*                                                                         *)
(* The two ends go on in step (InStep): while the handler serves the       *)
(* worker, its stage is where the worker's last positive reply leads. A    *)
(* worker that ended or vanished leaves what it had sent, so that what the *)
(* server may still find in the channel is stated of the channel and of    *)
(* the server alone (Channel), and each request names the steps the worker *)
(* may be in that sent it (Senders).                                       *)
(***************************************************************************)
EXTENDS JobMonitorProtocol, SequenceTheorems, TLAPS

------------------------------------------------------------------------------
(* The invariant *)

Dead == {"ended", "vanished"}

\* The handler may still take something from the channel.
Serving == server.pc \in {"greet", "read", "notify", "bytes"} /\ ~ServerClosed

\* The stage of the handler: in "start" it waits for the request first and
\* notifies after its reply.
At == IF server.stage = "start" /\ server.pc = "notify" THEN "started" ELSE server.stage

Shape ==
    /\ server.pc = "none"   => server.stage = "greeting"
    /\ server.pc = "greet"  => server.stage = "greeting"
    /\ server.pc = "read"   => server.stage \in {"auth", "start", "jobs", "file"}
    /\ server.pc = "notify" => server.stage \in {"start", "end", "verdict"}
    /\ server.pc = "bytes"  => server.stage = "transfer" /\ file.bytes < server.size
    /\ server.pc \in {"none", "greet", "notify"} => ~ServerClosed
    /\ ServerClosed => toServer = <<>>
    /\ WorkerClosed <=> worker.pc = "ended"
    /\ WorkerClosed => toWorker = <<>>
    /\ server.context => /\ server.pc \in {"fail", "failNotify", "over"}
                         /\ server.stage \in {"end", "file", "transfer"}

\* Before the connection nothing has happened.
NotConnected ==
    /\ worker.pc \in {"connect", "hung"} => server.pc = "none"
    /\ server.pc = "none" =>
          /\ worker.pc \in {"connect", "hung"} \cup Dead
          /\ toServer = <<>> /\ toWorker = <<>>
          /\ record = [state |-> "READY", lines |-> 0]
          /\ worker.printed = 0 /\ worker.buffer = 0

\* The requests that may be in flight to the server at a stage. One that is
\* answered is the last: the worker waits for the reply.
Updates == {"JOB_OUTPUT", "JOB_PROGRESS"}
Requested(at) ==
    CASE at = "auth"               -> {"AUTH"}
      [] at = "start"              -> {"JOB_STARTED"}
      [] at \in {"started", "jobs"} -> Updates \cup {"JOB_CONVERTED"}
      [] at \in {"end", "file"}    -> {"JOB_FINISHED", "JOB_FAILED"}
      [] at = "transfer"           -> {"BYTE"}
      [] OTHER                     -> {}
Channel ==
    Serving => \A i \in 1 .. Len(toServer) :
        /\ toServer[i].cmd \in Requested(At)
        /\ toServer[i].cmd \notin Updates \cup {"BYTE"} => i = Len(toServer)

Senders(cmd) ==
    CASE cmd = "AUTH"          -> {"auth"}
      [] cmd = "JOB_STARTED"   -> {"start"}
      [] cmd \in Updates       -> {"convert", "sendEnd", "end"}
      [] cmd = "JOB_CONVERTED" -> {"end"}
      [] cmd = "JOB_FINISHED"  -> {"file"}
      [] cmd = "JOB_FAILED"    -> {"done"}
      [] cmd = "BYTE"          -> {"send", "verdict"}
Sent ==
    Serving => \A i \in 1 .. Len(toServer) :
        worker.pc \in Senders(toServer[i].cmd) \cup Dead

\* Where the handler is while the worker is at a step and no reply is in
\* flight; and the step a positive reply leads to.
Beside(w) ==
    CASE w = "greeting"                     -> {"greeting"}
      [] w \in {"sendAuth", "auth"}         -> {"auth"}
      [] w \in {"sendStart", "start"}       -> {"start"}
      [] w \in {"convert", "sendEnd", "end"} -> {"started", "jobs"}
      [] w \in {"post", "file"}             -> {"end", "file"}
      [] w \in {"send", "verdict"}          -> {"transfer"}
      [] w = "done"                         -> {"end", "file", "verdict"}
      [] OTHER                              -> {}
StepAfterReply(w) ==
    CASE w = "greeting" -> "sendAuth"
      [] w = "auth"     -> "sendStart"
      [] w = "start"    -> "convert"
      [] w = "end"      -> "post"
      [] w = "file"     -> "send"
      [] w \in {"send", "verdict"} -> "done"
      [] OTHER          -> "hung"
InStep ==
    Serving /\ worker.pc \notin Dead =>
        At \in Beside(IF toWorker = <<>> THEN worker.pc ELSE StepAfterReply(worker.pc))

\* The stages of a handler that has sent a positive reply last.
StagesAfter(to) ==
    CASE to = "greeting" -> {"auth"}
      [] to = "auth"     -> {"start"}
      [] to = "start"    -> {"start", "jobs"}
      [] to = "end"      -> {"end", "file"}
      [] to = "file"     -> {"transfer"}
      [] to = "verdict"  -> {"verdict"}
      [] OTHER           -> {}
Answers ==
    \A i \in 1 .. Len(toWorker) :
        /\ toWorker[i].result =>
             /\ i = 1 /\ (Serving => toServer = <<>>)
             /\ server.stage \in StagesAfter(toWorker[i].to)
             /\ At = "started" => toWorker[i].to = "start"
             /\ WaitsFor \in {toWorker[i].to, "vanished"}
        /\ ~toWorker[i].result => server.pc \in {"failNotify", "over"}

\* The worker at the later stages of the server, whether it is served or not.
Late ==
    /\ server.stage \in {"end", "file", "transfer", "verdict"} =>
          worker.pc \in {"end", "post", "file", "send", "verdict", "done"} \cup Dead
    /\ server.stage \in {"transfer", "verdict"} =>
          worker.pc \in {"file", "send", "verdict", "done"} \cup Dead

\* Nothing but the bytes that were announced is written to the archive.
Bytes ==
    /\ Serving => \A i \in 1 .. Len(toServer) :
          /\ toServer[i].cmd = "JOB_FINISHED" => toServer[i].val = worker.unsent
          /\ toServer[i].cmd = "BYTE" => toServer[i].good = worker.same
    /\ server.stage = "transfer" /\ worker.pc = "file" => file.bytes = 0
    /\ ~worker.same => server.stage \in {"transfer", "verdict"}
    /\ server.stage \in {"transfer", "verdict"} =>
          /\ server.size > 0
          /\ Serving /\ worker.same =>
                file.bytes + Len(toServer) + worker.unsent <= server.size
          /\ ~worker.same => file.bytes = 0 \/ ~file.good
    /\ server.stage = "verdict" =>
          file.bytes = server.size /\ file.good /\ worker.same /\ worker.unsent = 0

\* A record that says how the job ended is not touched any more.
Ended ==
    /\ record.state = "FINISHED" => server.stage = "verdict"
    /\ record.state \in {"FINISHED", "FAILED"} =>
          \/ server.pc = "over"
          \/ server.pc \in {"fail", "failNotify"} /\ ~server.context

Verdict ==
    /\ worker.success => server.stage = "verdict"
    /\ server.stage = "verdict" /\ troubles \cap {"notify", "crash"} = {} =>
          record.state = "FINISHED" \/ server.pc = "notify"

\* n is the number of the lines recorded, then in flight: its last value is that
\* of the lines that left the worker.
LinesOf(data) == IF data.cmd = "JOB_OUTPUT" THEN data.val ELSE 0
Counts(n, from, requests) ==
    /\ n[0] = from
    /\ \A i \in 1 .. Len(requests) : n[i] = n[i-1] + LinesOf(requests[i])
Lines ==
    Verbose /\ "notify" \notin troubles =>
        /\ worker.pc = "sendEnd" => worker.buffer = 0
        /\ server.stage \in {"end", "file", "transfer", "verdict"} => record.lines = worker.printed
        /\ Serving /\ server.stage \in {"greeting", "auth", "start", "jobs"} =>
             \E n \in [0 .. Len(toServer) -> 0 .. worker.printed] :
                /\ Counts(n, record.lines, toServer)
                /\ worker.pc # "vanished" => n[Len(toServer)] + worker.buffer = worker.printed
                /\ \A i \in 1 .. Len(toServer) :
                      toServer[i].cmd = "JOB_CONVERTED" => n[i] = worker.printed

Download ==
    /\ download.finished => record.state = "FINISHED" /\ download.from \subseteq {"hashed"}
                            /\ download.size = server.size
    /\ download.from \subseteq {"earlier"} \/ IsNewFile
    /\ download.from = {} => download.got = 0
    /\ download.pc = "none" => download.from = {}
    /\ download.pc \in {"reading", "served"} => download.size > 0 \/ IsNewFile
    /\ download.pc = "served" => download.got = download.size

Inv == /\ TypeOK /\ Shape /\ NotConnected /\ Channel /\ Sent /\ InStep /\ Answers /\ Late
       /\ Bytes /\ Ended /\ Verdict /\ Lines /\ Download

\* A step of the session as ConversionSession describes it, or none.
Moves == [Session!Next]_<<phase, outcome>>

------------------------------------------------------------------------------
(* Types *)

LEMMA TypeInit == Init => TypeOK
<1> SUFFICES ASSUME Init PROVE TypeOK
  OBVIOUS
<1> USE DEF Init
<1>1. toServer \in Seq(Requests) /\ toWorker \in Seq(Replies)
  BY EmptySeq
<1>2. file \in [bytes : Nat, good : BOOLEAN]
  BY BoundsAssumption
<1>3. worker \in WorkerLocals /\ server \in ServerLocals
  BY DEF WorkerLocals, WorkerSteps, Waits, ServerLocals, Stages
<1>4. download \in Downloads
  BY DEF Downloads
<1>5. record \in [state : {"READY", "RUNNING", "FINISHED", "FAILED"}, lines : Nat]
  OBVIOUS
<1> QED
  BY <1>1, <1>2, <1>3, <1>4, <1>5 DEF TypeOK

\* One request more, and one less.
LEMMA OneMore ==
  ASSUME NEW S, NEW s \in Seq(S), NEW d \in S
  PROVE  /\ s \o <<d>> \in Seq(S)
         /\ Len(s \o <<d>>) = Len(s) + 1
         /\ \A i \in 1 .. Len(s) : (s \o <<d>>)[i] = s[i]
         /\ (s \o <<d>>)[Len(s) + 1] = d
<1>1. s \o <<d>> = Append(s, d)
  BY AppendIsConcat
<1> QED
  BY <1>1, AppendProperties

LEMMA OneLess ==
  ASSUME NEW S, NEW s \in Seq(S), s # <<>>
  PROVE  /\ Head(s) \in S /\ Head(s) = s[1]
         /\ Tail(s) \in Seq(S)
         /\ Len(Tail(s)) = Len(s) - 1 /\ Len(s) \in Nat \ {0}
         /\ \A i \in 1 .. Len(Tail(s)) : Tail(s)[i] = s[i+1]
BY HeadTailProperties, EmptySeq

LEMMA DataType ==
  ASSUME NEW cmd \in DOMAIN CommandArgs \cup {"BYTE"}, NEW val \in Nat, NEW good \in BOOLEAN
  PROVE  Data(cmd, val, good) \in Requests
BY DEF Data, Requests

LEMMA Commands ==
  DOMAIN CommandArgs = {"AUTH", "JOB_STARTED", "JOB_PROGRESS", "JOB_OUTPUT", "JOB_CONVERTED",
                        "JOB_FINISHED", "JOB_FAILED"}
BY DEF CommandArgs

LEMMA InFlight ==
  ASSUME TypeOK
  PROVE  \A i \in 1 .. Len(toServer) :
            /\ toServer[i] \in Requests /\ toServer[i].val \in Nat /\ toServer[i].good \in BOOLEAN
            /\ toServer[i].cmd \in DOMAIN CommandArgs \cup {"BYTE"}
<1>1. toServer \in Seq(Requests)
  BY DEF TypeOK
<1>2. \A i \in 1 .. Len(toServer) : toServer[i] \in Requests
  BY <1>1, ElementOfSeq
<1> QED BY <1>2 DEF Requests

\* A request that is sent, or lost because the server has closed the connection.
LEMMA SendsOne ==
  ASSUME TypeOK, NEW d \in Requests, Sends(<<d>>)
  PROVE  /\ toServer' \in Seq(Requests) /\ reset' \in BOOLEAN /\ UNCHANGED <<toWorker, closed>>
         /\ \/ ServerClosed /\ toServer' = toServer
            \/ /\ ~ServerClosed /\ Len(toServer') = Len(toServer) + 1
               /\ \A i \in 1 .. Len(toServer) : toServer'[i] = toServer[i]
               /\ toServer'[Len(toServer) + 1] = d
<1>1. UNCHANGED <<toWorker, closed>>
  BY DEF Sends
<1>2. CASE ServerClosed
  BY <1>1, <1>2 DEF Sends, TypeOK
<1>3. CASE ~ServerClosed
  <2>1. toServer' = toServer \o <<d>> /\ reset' = reset
    BY <1>3 DEF Sends
  <2>2. toServer \in Seq(Requests)
    BY DEF TypeOK
  <2> QED BY <1>1, <1>3, <2>1, <2>2, OneMore DEF TypeOK
<1> QED BY <1>2, <1>3

LEMMA IsJsonType == IsJson \in SUBSET BOOLEAN
BY DEF IsJson

LEMMA TypeWorkerSends ==
  ASSUME TypeOK, \/ SendAuth \/ StartJob \/ ReadLine \/ ReadProgress \/ ConverterEnds
                 \/ SendConversionFinished \/ FileDoesNotExist \/ AnnounceFile
  PROVE  worker' \in WorkerLocals
<1> USE DEF WorkerLocals, WorkerSteps, Waits
<1>1. worker \in WorkerLocals
  BY DEF TypeOK
<1>2. CASE SendAuth \/ StartJob \/ SendConversionFinished \/ FileDoesNotExist
  BY <1>1, <1>2 DEF SendAuth, StartJob, SendConversionFinished, FileDoesNotExist
<1>3. CASE ReadLine
  <2> DEFINE full == Verbose /\ worker.buffer + 1 >= LINE_BUFFER_SIZE
             n    == IF full THEN 0 ELSE worker.buffer + 1
  <2>1. worker' = [worker EXCEPT !.printed = worker.printed + 1, !.buffer = n]
    BY <1>3 DEF ReadLine
  <2>2. n \in Nat /\ worker.printed + 1 \in Nat
    BY <1>1
  <2> HIDE DEF n
  <2> QED BY <1>1, <2>1, <2>2
<1>4. CASE ReadProgress
  BY <1>1, <1>4 DEF ReadProgress
<1>5. CASE ConverterEnds
  <2>1. PICK code \in {0, 1} :
          worker' = [worker EXCEPT !.pc = "sendEnd", !.buffer = 0, !.exitCode = code]
    BY <1>5 DEF ConverterEnds
  <2>2. code \in 0 .. 1
    OBVIOUS
  <2> QED BY <1>1, <2>1, <2>2
<1>6. CASE AnnounceFile
  <2>1. PICK size \in IF "empty" \in troubles THEN 0 .. MaxSize ELSE 1 .. MaxSize :
          worker' = [worker EXCEPT !.pc = "file", !.unsent = size]
    BY <1>6 DEF AnnounceFile
  <2>2. size \in Nat
    BY BoundsAssumption
  <2> QED BY <1>1, <2>1, <2>2
<1> QED
  BY <1>2, <1>3, <1>4, <1>5, <1>6

------------------------------------------------------------------------------
(* The worker speaks *)

\* One of these requests is in the channel, or lost since the server has closed.
Adds(cmds) ==
    \/ ServerClosed /\ toServer' = toServer
    \/ /\ ~ServerClosed /\ toServer' \in Seq(Requests) /\ Len(toServer') = Len(toServer) + 1
       /\ \A i \in 1 .. Len(toServer) : toServer'[i] = toServer[i]
       /\ toServer'[Len(toServer) + 1].cmd \in cmds
       /\ toServer'[Len(toServer) + 1].cmd = "JOB_FINISHED" =>
             toServer'[Len(toServer) + 1].val = worker'.unsent

Speaks ==
    /\ UNCHANGED <<server, toWorker, closed, registered, record, file>>
    /\ toServer' \in Seq(Requests) /\ reset' \in BOOLEAN /\ worker' \in WorkerLocals
    /\ worker'.same = worker.same /\ worker'.success = worker.success
    /\ worker'.pc # "file" => worker'.unsent = worker.unsent
    /\ \/ worker.pc = "sendAuth"  /\ worker'.pc = "auth"  /\ Adds({"AUTH"})
       \/ worker.pc = "sendStart" /\ worker'.pc = "start" /\ Adds({"JOB_STARTED"})
       \/ /\ worker.pc = "convert" /\ worker'.pc \in {"convert", "sendEnd"}
          /\ Adds(Updates) \/ toServer' = toServer
       \/ worker.pc = "sendEnd" /\ worker'.pc = "end"  /\ Adds({"JOB_CONVERTED"})
       \/ worker.pc = "post"    /\ worker'.pc = "done" /\ Adds({"JOB_FAILED"})
       \/ worker.pc = "post"    /\ worker'.pc = "file" /\ Adds({"JOB_FINISHED"})

LEMMA AddsOne ==
  ASSUME TypeOK, NEW cmd \in DOMAIN CommandArgs, NEW val \in Nat, NEW good \in BOOLEAN,
         Sends(<<Data(cmd, val, good)>>), cmd = "JOB_FINISHED" => val = worker'.unsent
  PROVE  /\ Adds({cmd}) /\ toServer' \in Seq(Requests) /\ reset' \in BOOLEAN
         /\ UNCHANGED <<toWorker, closed>>
<1>1. Data(cmd, val, good) \in Requests
  BY DataType
<1>2. Data(cmd, val, good).cmd = cmd /\ Data(cmd, val, good).val = val
  BY DEF Data
<1> QED
  BY <1>1, <1>2, SendsOne DEF Adds

LEMMA AddsMore == ASSUME NEW S, NEW T, S \subseteq T, Adds(S) PROVE Adds(T)
BY DEF Adds

LEMMA WorkerSpeaks ==
  ASSUME TypeOK, \/ SendAuth \/ StartJob \/ ReadLine \/ ReadProgress \/ ConverterEnds
                 \/ SendConversionFinished \/ FileDoesNotExist \/ AnnounceFile
  PROVE  Speaks
<1>1. worker \in WorkerLocals /\ worker' \in WorkerLocals /\ toServer \in Seq(Requests)
      /\ reset \in BOOLEAN
  BY TypeWorkerSends DEF TypeOK
<1>2. /\ worker.buffer \in Nat /\ worker.buffer + 1 \in Nat /\ worker.progress + 1 \in Nat
      /\ worker.exitCode \in Nat
  BY <1>1 DEF WorkerLocals
<1> USE <1>1, Commands, AddsOne DEF Speaks
<1>3. CASE SendAuth
  BY <1>3 DEF SendAuth, WorkerLocals
<1>4. CASE StartJob
  <2>1. PICK good \in BOOLEAN : Sends(<<Data("JOB_STARTED", 0, good)>>)
    BY <1>4, IsJsonType DEF StartJob
  <2> QED BY <1>4, <2>1 DEF StartJob, WorkerLocals
<1>5. ASSUME NEW n \in Nat, SendsLines(n)
      PROVE  /\ Adds(Updates) /\ toServer' \in Seq(Requests) /\ reset' \in BOOLEAN
             /\ UNCHANGED <<toWorker, closed>>
  <2>1. PICK good \in BOOLEAN : Sends(<<Data("JOB_OUTPUT", n, good)>>)
    BY <1>5, IsJsonType DEF SendsLines
  <2>2. {"JOB_OUTPUT"} \subseteq Updates
    BY DEF Updates
  <2> QED BY <2>1, <2>2, AddsMore
<1>6. CASE ReadLine
  <2>1. worker.pc = "convert" /\ worker'.pc = "convert" /\ worker'.same = worker.same
        /\ worker'.success = worker.success /\ worker'.unsent = worker.unsent
    BY <1>6 DEF ReadLine, WorkerLocals
  <2>2. UNCHANGED <<server, registered, record, file>> /\ (SendsLines(worker.buffer + 1) \/ UNCHANGED net)
    BY <1>6 DEF ReadLine
  <2>3. CASE UNCHANGED net
    BY <2>1, <2>2, <2>3 DEF net
  <2>4. CASE SendsLines(worker.buffer + 1)
    BY <1>2, <1>5, <2>1, <2>2, <2>4
  <2> QED BY <2>2, <2>3, <2>4
<1>7. CASE ReadProgress
  <2>1. {"JOB_PROGRESS"} \subseteq Updates
    BY DEF Updates
  <2>2. Sends(<<Data("JOB_PROGRESS", worker.progress + 1, TRUE)>>)
    BY <1>7 DEF ReadProgress
  <2>3. Adds({"JOB_PROGRESS"}) /\ toServer' \in Seq(Requests) /\ reset' \in BOOLEAN
        /\ UNCHANGED <<toWorker, closed>>
    BY <1>2, <2>2
  <2>4. Adds(Updates)
    BY <2>1, <2>3, AddsMore
  <2> QED BY <1>7, <2>3, <2>4 DEF ReadProgress, WorkerLocals
<1>8. CASE ConverterEnds
  <2>1. worker.pc = "convert" /\ worker'.pc = "sendEnd" /\ worker'.same = worker.same
        /\ worker'.success = worker.success /\ worker'.unsent = worker.unsent
    BY <1>8 DEF ConverterEnds, WorkerLocals
  <2>2. /\ UNCHANGED <<server, registered, record, file>>
        /\ SendsLines(RestOfLines(worker.buffer)) \/ UNCHANGED net
    BY <1>8 DEF ConverterEnds
  <2>3. CASE UNCHANGED net
    BY <2>1, <2>2, <2>3 DEF net
  <2>4. CASE SendsLines(RestOfLines(worker.buffer))
    <3>1. RestOfLines(worker.buffer) \in Nat
      BY <1>2 DEF RestOfLines
    <3> QED BY <1>5, <2>1, <2>2, <2>4, <3>1
  <2> QED BY <2>2, <2>3, <2>4
<1>9. CASE SendConversionFinished
  BY <1>2, <1>9 DEF SendConversionFinished, WorkerLocals
<1>10. CASE FileDoesNotExist
  BY <1>10 DEF FileDoesNotExist, WorkerLocals
<1>11. CASE AnnounceFile
  <2>1. PICK size \in IF "empty" \in troubles THEN 0 .. MaxSize ELSE 1 .. MaxSize :
          /\ worker' = [worker EXCEPT !.pc = "file", !.unsent = size]
          /\ Sends(<<Data("JOB_FINISHED", size, TRUE)>>)
    BY <1>11 DEF AnnounceFile
  <2>2. size \in Nat
    BY BoundsAssumption
  <2>3. worker'.pc = "file" /\ worker'.unsent = size /\ worker'.same = worker.same
        /\ worker'.success = worker.success
    BY <2>1 DEF WorkerLocals
  <2>4. Adds({"JOB_FINISHED"}) /\ toServer' \in Seq(Requests) /\ reset' \in BOOLEAN
        /\ UNCHANGED <<toWorker, closed>>
    BY <2>1, <2>2, <2>3
  <2> QED BY <1>11, <2>3, <2>4 DEF AnnounceFile
<1> QED
  BY <1>3, <1>4, <1>6, <1>7, <1>8, <1>9, <1>10, <1>11

\* A worker that does not wait has no positive reply in flight.
LEMMA NoAnswer ==
  ASSUME TypeOK, Answers, WaitsFor \notin Waits \cup {"vanished"}
  PROVE  /\ \A i \in 1 .. Len(toWorker) : ~toWorker[i].result
         /\ Serving => toWorker = <<>>
<1>1. toWorker \in Seq(Replies) /\ Len(toWorker) \in Nat
  BY LenProperties DEF TypeOK
<1>3. ASSUME NEW i \in 1 .. Len(toWorker), toWorker[i].result PROVE FALSE
  <2>1. server.stage \in StagesAfter(toWorker[i].to)
    BY <1>3 DEF Answers
  <2>2. toWorker[i].to \in Waits
    BY <2>1 DEF StagesAfter, Waits
  <2>3. toWorker[i].to = WaitsFor
    BY <1>3 DEF Answers
  <2> QED BY <2>2, <2>3
<1>4. ASSUME Serving, toWorker # <<>> PROVE FALSE
  <2>1. 1 \in 1 .. Len(toWorker)
    BY <1>1, <1>4, EmptySeq
  <2> QED BY <1>3, <1>4, <2>1 DEF Answers, Serving
<1> QED BY <1>3, <1>4

LEMMA SpeaksInStep ==
  ASSUME TypeOK, Inv, Speaks
  PROVE  Channel' /\ Sent' /\ InStep' /\ Answers'
<1>1. /\ worker.pc \in {"sendAuth", "sendStart", "convert", "sendEnd", "post"}
      /\ worker'.pc \notin Dead
      /\ UNCHANGED <<server, toWorker, closed>>
  BY DEF Speaks, Dead
<1>2. /\ \A i \in 1 .. Len(toWorker) : ~toWorker[i].result
      /\ Serving => toWorker = <<>>
  BY <1>1, NoAnswer DEF Inv, Waits, WaitsFor
<1>3. Answers'
  BY <1>1, <1>2 DEF Inv, Answers
<1>4. At' = At /\ Serving' = Serving
  BY <1>1 DEF At, Serving, ServerClosed
<1>5. Serving => At \in Beside(worker.pc)
  BY <1>1, <1>2 DEF Inv, InStep, Dead
<1>6. InStep'
  BY <1>1, <1>2, <1>4, <1>5 DEF InStep, Beside, Speaks
<1>7. Len(toServer) \in Nat
  BY LenProperties DEF TypeOK
<1>8. ASSUME Serving, NEW i \in 1 .. Len(toServer)
      PROVE  /\ toServer[i].cmd \in Updates /\ toServer[i].cmd \in Requested(At)
             /\ worker.pc \in {"convert", "sendEnd"}
  <2>1. worker.pc \in Senders(toServer[i].cmd) /\ toServer[i].cmd \in Requested(At)
    BY <1>1, <1>8 DEF Inv, Sent, Channel, Dead
  <2> QED BY <1>1, <2>1 DEF Senders, Requested, Updates
<1>9. CASE ~Serving
  BY <1>4, <1>6, <1>3, <1>9 DEF Channel, Sent
<1>10. CASE Serving
  <2>1. CASE toServer' = toServer
    BY <1>3, <1>4, <1>6, <1>8, <1>10, <2>1 DEF Inv, Channel, Sent, Senders, Updates, Speaks
  <2>2. ASSUME NEW cmds, Adds(cmds), toServer' # toServer,
               cmds \subseteq Requested(At),
               \A cmd \in cmds : worker'.pc \in Senders(cmd),
               worker.pc \in {"convert", "sendEnd"} => worker'.pc \in Senders("JOB_OUTPUT")
        PROVE  Channel' /\ Sent'
    <3>1. /\ Len(toServer') = Len(toServer) + 1
          /\ \A i \in 1 .. Len(toServer) : toServer'[i] = toServer[i]
          /\ toServer'[Len(toServer) + 1].cmd \in cmds
      BY <2>2 DEF Adds
    <3>2. \A i \in 1 .. Len(toServer') : i = Len(toServer') \/ i \in 1 .. Len(toServer)
      BY <1>7, <3>1
    <3>3. Channel'
      BY <1>4, <1>8, <1>10, <2>2, <3>1, <3>2 DEF Channel
    <3>4. \A i \in 1 .. Len(toServer) : worker'.pc \in Senders(toServer[i].cmd)
      BY <1>8, <1>10, <2>2 DEF Senders, Updates
    <3>5. Sent'
      BY <1>4, <1>10, <2>2, <3>1, <3>2, <3>4 DEF Sent
    <3> QED BY <3>3, <3>5
  <2> HIDE DEF Serving
  <2>3. CASE worker.pc = "sendAuth"
    BY <1>3, <1>5, <1>6, <1>10, <2>1, <2>2, <2>3 DEF Speaks, Beside, Requested, Senders, Updates
  <2>4. CASE worker.pc = "sendStart"
    BY <1>3, <1>5, <1>6, <1>10, <2>1, <2>2, <2>4 DEF Speaks, Beside, Requested, Senders, Updates
  <2>5. CASE worker.pc = "convert"
    BY <1>3, <1>5, <1>6, <1>10, <2>1, <2>2, <2>5 DEF Speaks, Beside, Requested, Senders, Updates
  <2>6. CASE worker.pc = "sendEnd"
    BY <1>3, <1>5, <1>6, <1>10, <2>1, <2>2, <2>6 DEF Speaks, Beside, Requested, Senders, Updates
  <2>7. CASE worker.pc = "post"
    BY <1>3, <1>5, <1>6, <1>10, <2>1, <2>2, <2>7 DEF Speaks, Beside, Requested, Senders, Updates
  <2> QED BY <1>1, <1>3, <1>6, <2>3, <2>4, <2>5, <2>6, <2>7
<1> QED BY <1>9, <1>10

LEMMA SpeaksRest ==
  ASSUME TypeOK, Inv, Speaks, UNCHANGED <<download, troubles>>
  PROVE  Shape' /\ NotConnected' /\ Late' /\ Bytes' /\ Ended' /\ Verdict' /\ Download'
<1> USE DEF Inv
<1>1. /\ worker.pc \in {"sendAuth", "sendStart", "convert", "sendEnd", "post"}
      /\ worker'.pc \in {"auth", "start", "convert", "sendEnd", "end", "done", "file"}
      /\ worker.pc # "post" => worker'.pc \notin {"done", "file"}
      /\ UNCHANGED <<server, toWorker, closed, record, file, download, troubles>>
      /\ worker'.same = worker.same /\ worker'.success = worker.success
      /\ worker'.pc # "file" => worker'.unsent = worker.unsent
  BY DEF Speaks
<1>2. server.pc # "none"
  BY <1>1 DEF NotConnected, Dead
<1>3. Shape'
  BY <1>1 DEF Shape, Speaks, Adds, ServerClosed, WorkerClosed
<1>4. NotConnected' /\ Late'
  BY <1>1, <1>2 DEF NotConnected, Late, Dead, Speaks
<1>5. Ended' /\ Verdict'
  BY <1>1 DEF Ended, Verdict
<1>6. Download'
  BY <1>1 DEF Download, IsNewFile
<1>7. Bytes'
  <2>1. Len(toServer) \in Nat
    BY LenProperties DEF TypeOK
  <2>2. server.stage \notin {"transfer", "verdict"} /\ worker.same
    BY <1>1 DEF Late, Bytes, Dead
  <2>3. ASSUME Serving', NEW i \in 1 .. Len(toServer')
        PROVE  /\ toServer'[i].cmd = "JOB_FINISHED" => toServer'[i].val = worker'.unsent
               /\ toServer'[i].cmd # "BYTE"
    <3>1. Serving /\ ~ServerClosed /\ At' = At
      BY <1>1, <2>3 DEF Serving, ServerClosed, At
    <3>2. toServer'[i].cmd # "BYTE"
      BY <2>2, <2>3, <3>1, SpeaksInStep DEF Channel, Requested, At, Updates
    <3>3. CASE i \in 1 .. Len(toServer) /\ toServer'[i] = toServer[i]
      <4>1. worker.pc \in Senders(toServer[i].cmd)
        BY <1>1, <3>1, <3>3 DEF Sent, Dead
      <4>2. toServer[i].cmd # "JOB_FINISHED"
        BY <1>1, <4>1 DEF Senders, Updates
      <4> QED BY <3>2, <3>3, <4>2
    <3>4. CASE ~(i \in 1 .. Len(toServer) /\ toServer'[i] = toServer[i])
      BY <2>1, <2>3, <3>1, <3>2, <3>4 DEF Speaks, Adds
    <3> QED BY <3>3, <3>4
  <2> QED BY <1>1, <2>2, <2>3 DEF Bytes
<1> QED
  BY <1>3, <1>4, <1>5, <1>6, <1>7

\* Lines that were counted, with one request more.
LEMMA CountsMore ==
  ASSUME toServer \in Seq(Requests), toServer' \in Seq(Requests),
         worker.printed \in Nat, worker'.printed \in Nat, worker.printed <= worker'.printed,
         Len(toServer') = Len(toServer) + 1, \A i \in 1 .. Len(toServer) : toServer'[i] = toServer[i],
         NEW n \in [0 .. Len(toServer) -> 0 .. worker.printed], Counts(n, record.lines, toServer),
         NEW k \in Nat, LinesOf(toServer'[Len(toServer) + 1]) = k,
         n[Len(toServer)] + k <= worker'.printed
  PROVE  \E m \in [0 .. Len(toServer') -> 0 .. worker'.printed] :
            /\ Counts(m, record.lines, toServer')
            /\ m[Len(toServer')] = n[Len(toServer)] + k
<1> DEFINE s == toServer
           t == toServer'
           p == worker.printed
           q == worker'.printed
<1> DEFINE m == [i \in 0 .. Len(t) |-> IF i <= Len(s) THEN n[i] ELSE n[Len(s)] + k]
<1>1. Len(s) \in Nat /\ Len(t) \in Nat
  BY LenProperties
<1>2. \A i \in 0 .. Len(s) : n[i] \in 0 .. p
  OBVIOUS
<1>3. \A i \in 0 .. Len(t) : m[i] \in 0 .. q
  BY <1>1, <1>2
<1>4. m \in [0 .. Len(t) -> 0 .. q]
  BY <1>3
<1>5. m[0] = record.lines /\ m[Len(t)] = n[Len(s)] + k
  BY <1>1 DEF Counts
<1>6. ASSUME NEW i \in 1 .. Len(t) PROVE m[i] = m[i-1] + LinesOf(t[i])
  <2>1. CASE i \in 1 .. Len(s)
    BY <1>1, <2>1 DEF Counts
  <2>2. CASE i = Len(s) + 1
    BY <1>1, <2>2
  <2> QED BY <1>1, <2>1, <2>2
<1> HIDE DEF m
<1> QED BY <1>4, <1>5, <1>6 DEF Counts

\* k lines left the worker's buffer.
AddsLines(k) ==
    \/ ServerClosed
    \/ k = 0 /\ toServer' = toServer
    \/ /\ toServer' \in Seq(Requests) /\ Len(toServer') = Len(toServer) + 1
       /\ \A i \in 1 .. Len(toServer) : toServer'[i] = toServer[i]
       /\ LinesOf(toServer'[Len(toServer) + 1]) = k

LEMMA AddsItsLines ==
  ASSUME TypeOK, NEW cmd \in DOMAIN CommandArgs, NEW val \in Nat, NEW good \in BOOLEAN,
         Sends(<<Data(cmd, val, good)>>)
  PROVE  AddsLines(IF cmd = "JOB_OUTPUT" THEN val ELSE 0)
<1>1. Data(cmd, val, good) \in Requests
  BY DataType
<1>2. LinesOf(Data(cmd, val, good)) = IF cmd = "JOB_OUTPUT" THEN val ELSE 0
  BY DEF Data, LinesOf
<1> QED
  BY <1>1, <1>2, SendsOne DEF AddsLines

\* Each line that was printed is in the buffer or leaves it with a request.
Balanced(k) ==
    /\ AddsLines(k)
    /\ worker'.buffer + k + worker.printed = worker.buffer + worker'.printed
    /\ worker.printed <= worker'.printed
    /\ worker.pc # "convert" => worker'.printed = worker.printed
    /\ worker'.pc = "sendEnd" => worker'.buffer = 0
    /\ worker.pc = "sendEnd" => worker'.buffer = worker.buffer

LEMMA WorkerKeepsLines ==
  ASSUME TypeOK, Verbose, \/ SendAuth \/ StartJob \/ ReadLine \/ ReadProgress \/ ConverterEnds
                          \/ SendConversionFinished \/ FileDoesNotExist \/ AnnounceFile
  PROVE  \E k \in Nat : Balanced(k)
<1>1. /\ worker \in WorkerLocals /\ worker.buffer \in Nat /\ worker.buffer + 1 \in Nat
      /\ worker.printed \in Nat /\ worker.progress + 1 \in Nat /\ worker.exitCode \in Nat
  BY DEF TypeOK, WorkerLocals
<1> USE <1>1, Commands
<1>2. ASSUME AddsLines(0), worker'.printed = worker.printed, worker'.buffer = worker.buffer,
             worker'.pc # "sendEnd"
      PROVE  \E k \in Nat : Balanced(k)
  BY <1>2 DEF Balanced
<1>3. ASSUME NEW n \in Nat, SendsLines(n) PROVE AddsLines(n)
  <2>1. PICK good \in BOOLEAN : Sends(<<Data("JOB_OUTPUT", n, good)>>)
    BY <1>3, IsJsonType DEF SendsLines
  <2> QED BY <2>1, AddsItsLines
<1>4. CASE SendAuth
  <2>1. AddsLines(0)
    BY <1>4, AddsItsLines DEF SendAuth
  <2> QED BY <1>2, <1>4, <2>1 DEF SendAuth, WorkerLocals
<1>5. CASE StartJob
  <2>1. PICK good \in BOOLEAN : Sends(<<Data("JOB_STARTED", 0, good)>>)
    BY <1>5, IsJsonType DEF StartJob
  <2>2. AddsLines(0)
    BY <2>1, AddsItsLines
  <2> QED BY <1>2, <1>5, <2>2 DEF StartJob, WorkerLocals
<1>6. CASE ReadLine
  <2> DEFINE full == Verbose /\ worker.buffer + 1 >= LINE_BUFFER_SIZE
  <2>1. /\ worker.pc = "convert" /\ worker'.pc = "convert"
        /\ worker'.printed = worker.printed + 1
        /\ worker'.buffer = IF full THEN 0 ELSE worker.buffer + 1
        /\ IF full THEN SendsLines(worker.buffer + 1) ELSE UNCHANGED net
    BY <1>6 DEF ReadLine, WorkerLocals
  <2>2. CASE full
    BY <1>3, <2>1, <2>2 DEF Balanced
  <2>3. CASE ~full
    <3>1. AddsLines(0)
      BY <2>1, <2>3 DEF AddsLines, net
    <3> QED BY <2>1, <2>3, <3>1 DEF Balanced
  <2> QED BY <2>2, <2>3
<1>7. CASE ReadProgress
  <2>1. AddsLines(0)
    BY <1>7, AddsItsLines DEF ReadProgress
  <2> QED BY <1>2, <1>7, <2>1 DEF ReadProgress, WorkerLocals
<1>8. CASE ConverterEnds
  <2>1. /\ worker.pc = "convert" /\ worker'.pc = "sendEnd" /\ worker'.buffer = 0
        /\ worker'.printed = worker.printed
        /\ IF worker.buffer > 0 THEN SendsLines(worker.buffer) ELSE UNCHANGED net
    BY <1>8 DEF ConverterEnds, WorkerLocals, RestOfLines
  <2>2. AddsLines(worker.buffer)
    BY <1>3, <2>1 DEF AddsLines, net
  <2> QED BY <2>1, <2>2 DEF Balanced
<1>9. CASE SendConversionFinished
  <2>1. AddsLines(0)
    BY <1>9, AddsItsLines DEF SendConversionFinished
  <2> QED BY <1>2, <1>9, <2>1 DEF SendConversionFinished, WorkerLocals
<1>10. CASE FileDoesNotExist
  <2>1. AddsLines(0)
    BY <1>10, AddsItsLines DEF FileDoesNotExist
  <2> QED BY <1>2, <1>10, <2>1 DEF FileDoesNotExist, WorkerLocals
<1>11. CASE AnnounceFile
  <2>1. PICK size \in IF "empty" \in troubles THEN 0 .. MaxSize ELSE 1 .. MaxSize :
          /\ worker' = [worker EXCEPT !.pc = "file", !.unsent = size]
          /\ Sends(<<Data("JOB_FINISHED", size, TRUE)>>)
    BY <1>11 DEF AnnounceFile
  <2>2. size \in Nat
    BY BoundsAssumption
  <2>3. AddsLines(0)
    BY <2>1, <2>2, AddsItsLines
  <2> QED BY <1>2, <2>1, <2>3 DEF WorkerLocals
<1> QED
  BY <1>4, <1>5, <1>6, <1>7, <1>8, <1>9, <1>10, <1>11

LEMMA SpeaksLines ==
  ASSUME TypeOK, Inv, Speaks, UNCHANGED troubles,
         Verbose => \E k \in Nat : Balanced(k)
  PROVE  Lines'
<1> SUFFICES ASSUME Verbose, "notify" \notin troubles
             PROVE  Lines'
  BY DEF Lines
<1> PICK k \in Nat : Balanced(k)
  OBVIOUS
<1>1. /\ UNCHANGED <<server, record, closed, troubles>>
      /\ worker.pc \in {"sendAuth", "sendStart", "convert", "sendEnd", "post"}
      /\ worker'.pc # "vanished"
      /\ worker'.pc = "end" => worker.pc = "sendEnd"
  BY DEF Speaks
<1>2. /\ worker.printed \in Nat /\ worker'.printed \in Nat /\ worker.buffer \in Nat
      /\ worker'.buffer \in Nat /\ Len(toServer) \in Nat /\ toServer \in Seq(Requests)
  BY LenProperties DEF TypeOK, WorkerLocals, Speaks
<1>3. server.stage \in {"end", "file", "transfer", "verdict"} => worker'.printed = worker.printed
  BY <1>1 DEF Inv, Late, Dead, Balanced
<1>4. \A x \in Nat : x + worker.buffer = worker.printed => x + k + worker'.buffer = worker'.printed
  <2>1. worker'.buffer + k + worker.printed = worker.buffer + worker'.printed
    BY DEF Balanced
  <2>2. ASSUME NEW x \in Nat, NEW a \in Nat, NEW b \in Nat, NEW c \in Nat, NEW d \in Nat,
               d + k + b = a + c, x + a = b
        PROVE  x + k + d = c
    BY <2>2
  <2>3. ASSUME NEW x \in Nat, x + worker.buffer = worker.printed
        PROVE  x + k + worker'.buffer = worker'.printed
    <3> DEFINE a == worker.buffer
               b == worker.printed
               c == worker'.printed
               d == worker'.buffer
    <3>1. a \in Nat /\ b \in Nat /\ c \in Nat /\ d \in Nat /\ d + k + b = a + c /\ x + a = b
      BY <1>2, <2>1, <2>3
    <3> HIDE DEF a, b, c, d
    <3>2. x + k + d = c
      BY <2>2, <3>1
    <3> USE DEF a, b, c, d
    <3> QED BY <3>2
  <2> QED BY <2>3
<1>5. ASSUME Serving, server.stage \in {"greeting", "auth", "start", "jobs"}
      PROVE  \E m \in [0 .. Len(toServer') -> 0 .. worker'.printed] :
                /\ Counts(m, record.lines, toServer')
                /\ m[Len(toServer')] + worker'.buffer = worker'.printed
                /\ \A i \in 1 .. Len(toServer') :
                      toServer'[i].cmd = "JOB_CONVERTED" => m[i] = worker'.printed
  <2>1. PICK n \in [0 .. Len(toServer) -> 0 .. worker.printed] :
           /\ Counts(n, record.lines, toServer)
           /\ n[Len(toServer)] + worker.buffer = worker.printed
    BY <1>1, <1>5 DEF Inv, Lines
  <2>2. n[Len(toServer)] \in Nat /\ n[Len(toServer)] + k + worker'.buffer = worker'.printed
    <3>1. Len(toServer) \in 0 .. Len(toServer)
      BY <1>2
    <3>2. n[Len(toServer)] \in Nat
      BY <1>2, <3>1
    <3> QED BY <1>4, <2>1, <3>2
  <2>3. worker.printed <= worker'.printed /\ n[Len(toServer)] + k <= worker'.printed
    BY <1>2, <2>2 DEF Balanced
  <2>4. \A i \in 1 .. Len(toServer) : toServer[i].cmd # "JOB_CONVERTED"
    BY <1>1, <1>5 DEF Inv, Sent, Senders, Updates, Dead
  <2>5. CASE k = 0 /\ toServer' = toServer
    <3>1. n \in [0 .. Len(toServer) -> 0 .. worker'.printed]
      BY <1>2, <2>1, <2>3
    <3> QED BY <2>1, <2>2, <2>4, <2>5, <3>1
  <2>6. CASE /\ toServer' \in Seq(Requests) /\ Len(toServer') = Len(toServer) + 1
             /\ \A i \in 1 .. Len(toServer) : toServer'[i] = toServer[i]
             /\ LinesOf(toServer'[Len(toServer) + 1]) = k
    <3>1. PICK m \in [0 .. Len(toServer') -> 0 .. worker'.printed] :
             /\ Counts(m, record.lines, toServer')
             /\ m[Len(toServer')] = n[Len(toServer)] + k
      BY <1>2, <2>1, <2>3, <2>6, CountsMore
    <3>2. ASSUME NEW i \in 1 .. Len(toServer'), toServer'[i].cmd = "JOB_CONVERTED"
          PROVE  m[i] = worker'.printed
      <4>1. i = Len(toServer')
        <5>1. i \in 1 .. Len(toServer) \/ i = Len(toServer')
          BY <1>2, <2>6
        <5>2. i \in 1 .. Len(toServer) => toServer'[i].cmd # "JOB_CONVERTED"
          BY <2>4, <2>6
        <5> QED BY <3>2, <5>1, <5>2
      <4>2. Serving'
        BY <1>1, <1>5 DEF Serving, ServerClosed
      <4>3. worker'.pc = "end"
        BY <3>2, <4>2, SpeaksInStep DEF Sent, Senders, Updates, Speaks, Dead
      <4>4. worker'.buffer = 0
        <5>1. worker.pc = "sendEnd"
          BY <1>1, <4>3
        <5> QED BY <5>1 DEF Inv, Lines, Balanced
      <4> QED BY <1>2, <2>2, <3>1, <4>1, <4>4
    <3> QED BY <2>2, <3>1, <3>2
  <2> QED BY <1>5, <2>5, <2>6 DEF Balanced, AddsLines, Serving
<1>6. Serving' => Serving
  BY <1>1 DEF Serving, ServerClosed
<1> QED
  BY <1>1, <1>3, <1>5, <1>6 DEF Lines, Inv, Balanced

LEMMA SpeaksKeeps ==
  ASSUME Inv, \/ SendAuth \/ StartJob \/ ReadLine \/ ReadProgress \/ ConverterEnds
              \/ SendConversionFinished \/ FileDoesNotExist \/ AnnounceFile,
         UNCHANGED <<download, troubles>>
  PROVE  Inv'
<1>1. TypeOK /\ Speaks
  BY WorkerSpeaks DEF Inv
<1>2. TypeOK'
  BY <1>1 DEF TypeOK, Speaks
<1>3. Lines'
  BY <1>1, WorkerKeepsLines, SpeaksLines
<1> QED
  BY <1>1, <1>2, <1>3, SpeaksInStep, SpeaksRest DEF Inv

------------------------------------------------------------------------------
(* The connection *)

LEMMA ConnectKeeps ==
  ASSUME Inv, Connect, UNCHANGED <<download, troubles>>
  PROVE  Inv'
<1> USE DEF Inv
<1>1. /\ worker \in WorkerLocals /\ server \in ServerLocals
      /\ worker.pc = "connect" /\ server.pc = "none" /\ server.stage = "greeting"
      /\ ~ServerClosed
  BY DEF TypeOK, Connect, NotConnected, Shape
<1>2. /\ worker' = [worker EXCEPT !.pc = "greeting"] /\ server' = [server EXCEPT !.pc = "greet"]
      /\ registered' = TRUE
      /\ UNCHANGED <<toServer, toWorker, closed, reset, record, file, download, troubles>>
  BY DEF Connect, net
<1>3. /\ worker' \in WorkerLocals /\ worker'.pc = "greeting"
      /\ worker'.buffer = 0 /\ worker'.printed = 0 /\ worker'.unsent = worker.unsent
      /\ worker'.same = worker.same /\ worker'.success = worker.success
      /\ server' \in ServerLocals /\ server'.pc = "greet" /\ server'.stage = "greeting"
      /\ server'.size = server.size
  BY <1>1, <1>2 DEF WorkerLocals, WorkerSteps, Waits, ServerLocals, NotConnected
<1>4. /\ toServer = <<>> /\ toWorker = <<>> /\ Len(toServer) = 0 /\ Len(toWorker) = 0
      /\ record.state = "READY" /\ record.lines = 0
  BY <1>1 DEF NotConnected
<1> HIDE DEF Inv
<1>5. TypeOK'
  BY <1>2, <1>3 DEF Inv, TypeOK
<1>6. Shape' /\ NotConnected'
  BY <1>1, <1>2, <1>3, <1>4 DEF Inv, Shape, NotConnected, ServerClosed, WorkerClosed, Dead
<1>7. Channel' /\ Sent' /\ Answers'
  BY <1>2, <1>4 DEF Channel, Sent, Answers
<1>8. InStep'
  BY <1>2, <1>3, <1>4 DEF InStep, At, Beside
<1>9. Late' /\ Ended' /\ Verdict' /\ Bytes' /\ Download'
  BY <1>1, <1>2, <1>3, <1>4 DEF Inv, Late, Ended, Verdict, Bytes, Download, IsNewFile
<1>10. Lines'
  <2> DEFINE n == [i \in 0 .. 0 |-> 0]
  <2>1. /\ n \in [0 .. Len(toServer') -> 0 .. worker'.printed]
        /\ Counts(n, record'.lines, toServer')
        /\ n[Len(toServer')] + worker'.buffer = worker'.printed
        /\ \A i \in 1 .. Len(toServer') : FALSE
    BY <1>2, <1>3, <1>4 DEF Counts
  <2> HIDE DEF n
  <2> QED BY <1>3, <2>1 DEF Lines
<1> QED
  BY <1>5, <1>6, <1>7, <1>8, <1>9, <1>10 DEF Inv

LEMMA ConnectFailsKeeps ==
  ASSUME Inv, ConnectFails, UNCHANGED <<download, troubles>>
  PROVE  Inv'
<1>1. /\ worker \in WorkerLocals /\ worker.pc = "connect" /\ server.pc = "none"
      /\ server.stage = "greeting"
  BY DEF Inv, TypeOK, ConnectFails, NotConnected, Shape
<1>2. /\ worker' = [worker EXCEPT !.pc = "hung"]
      /\ UNCHANGED <<server, registered, toServer, toWorker, closed, reset, record, file,
                     download, troubles>>
  BY DEF ConnectFails, net
<1>3. /\ worker' \in WorkerLocals /\ worker'.pc = "hung"
      /\ worker'.buffer = worker.buffer /\ worker'.printed = worker.printed
      /\ worker'.unsent = worker.unsent
      /\ worker'.same = worker.same /\ worker'.success = worker.success
  BY <1>1, <1>2 DEF WorkerLocals, WorkerSteps
<1>4. Len(toServer) = 0 /\ Len(toWorker) = 0 /\ toServer = <<>> /\ toWorker = <<>>
  BY <1>1 DEF Inv, NotConnected
<1>5. TypeOK' /\ Shape' /\ NotConnected'
  BY <1>1, <1>2, <1>3 DEF Inv, TypeOK, Shape, NotConnected, ServerClosed, WorkerClosed
<1>6. Channel' /\ Sent' /\ Answers' /\ InStep' /\ Lines'
  BY <1>1, <1>2, <1>3, <1>4 DEF Inv, Channel, Sent, Answers, InStep, Serving, Lines
<1>7. Late' /\ Ended' /\ Verdict' /\ Bytes' /\ Download'
  BY <1>1, <1>2, <1>3, <1>4 DEF Inv, Late, Ended, Verdict, Bytes, Download, IsNewFile
<1> QED
  BY <1>5, <1>6, <1>7 DEF Inv

------------------------------------------------------------------------------
(* The worker listens, transfers the archive, and ends *)

LEMMA AfterTheReply ==
  ASSUME worker \in WorkerLocals, worker.pc \in Waits, worker' \in AfterReply(worker)
  PROVE  /\ worker' \in WorkerLocals /\ worker'.pc = StepAfterReply(worker.pc)
         /\ worker'.buffer = worker.buffer /\ worker'.printed = worker.printed
         /\ worker'.success => worker.success \/ worker.pc = "verdict"
         /\ \/ worker'.same = worker.same /\ worker'.unsent = worker.unsent
            \/ worker.pc = "file" /\ ~worker'.same
<1> USE DEF WorkerLocals, WorkerSteps, Waits, StepAfterReply
<1>1. CASE worker.pc \in {"greeting", "auth", "start", "end"}
  <2>1. worker' = [worker EXCEPT !.pc = StepAfterReply(worker.pc)]
    BY <1>1 DEF AfterReply
  <2> QED BY <1>1, <2>1
<1>2. CASE worker.pc = "verdict"
  <2>1. worker' = [worker EXCEPT !.pc = "done", !.success = TRUE]
    BY <1>2 DEF AfterReply
  <2> QED BY <1>2, <2>1
<1>3. CASE worker.pc = "file"
  <2>1. \/ worker' = [worker EXCEPT !.pc = "send"]
        \/ \E n \in 0 .. MaxSize :
              worker' = [worker EXCEPT !.pc = "send", !.unsent = n, !.same = FALSE]
    BY <1>3 DEF AfterReply
  <2>2. ASSUME NEW n \in Nat,
               worker' = [worker EXCEPT !.pc = "send", !.unsent = n, !.same = FALSE]
        PROVE  /\ worker' \in WorkerLocals /\ worker'.pc = "send" /\ ~worker'.same
               /\ worker'.buffer = worker.buffer /\ worker'.printed = worker.printed
               /\ worker'.success = worker.success
    BY <2>2
  <2>3. CASE worker' = [worker EXCEPT !.pc = "send"]
    BY <1>3, <2>3
  <2>4. CASE \E n \in 0 .. MaxSize :
               worker' = [worker EXCEPT !.pc = "send", !.unsent = n, !.same = FALSE]
    <3>1. \A n \in 0 .. MaxSize : n \in Nat
      BY BoundsAssumption
    <3> QED BY <1>3, <2>2, <2>4, <3>1
  <2> QED BY <2>1, <2>3, <2>4
<1> QED BY <1>1, <1>2, <1>3

\* The answer is the one the worker waits for, and nothing else is in flight.
LEMMA ReceiveKeeps ==
  ASSUME Inv, worker.pc \in Waits, toWorker # <<>>, Head(toWorker).result,
         worker' \in AfterReply(worker), toWorker' = Tail(toWorker),
         UNCHANGED <<server, toServer, closed, reset, registered, record, file,
                     download, troubles>>
  PROVE  Inv'
<1> USE DEF Inv
<1>1. /\ worker \in WorkerLocals /\ toWorker \in Seq(Replies) /\ Len(toWorker) \in Nat \ {0}
      /\ Head(toWorker) = toWorker[1] /\ toWorker' \in Seq(Replies)
      /\ Len(toWorker') = Len(toWorker) - 1 /\ Len(toWorker') \in Nat
      /\ \A i \in 1 .. Len(toWorker') : toWorker'[i] = toWorker[i + 1] /\ i + 1 \in 2 .. Len(toWorker)
  BY OneLess, LenProperties DEF TypeOK
<1>2. /\ toWorker[1].result /\ (Serving => toServer = <<>>)
      /\ server.stage \in StagesAfter(toWorker[1].to)
      /\ WaitsFor \in {toWorker[1].to, "vanished"}
  BY <1>1 DEF Answers
<1>3. server.stage \in StagesAfter(worker.pc)
  BY <1>2 DEF WaitsFor, Waits
<1>4. \A i \in 2 .. Len(toWorker) : ~toWorker[i].result /\ server.pc \in {"failNotify", "over"}
  BY <1>1 DEF Answers
<1>5. Serving => toWorker' = <<>>
  <2>1. Serving => Len(toWorker') = 0
    BY <1>1, <1>4 DEF Serving
  <2> QED BY <1>1, <2>1, EmptySeq
<1>6. /\ worker'.pc = StepAfterReply(worker.pc)
      /\ worker'.buffer = worker.buffer /\ worker'.printed = worker.printed
      /\ worker' \in WorkerLocals
  BY <1>1, AfterTheReply
<1>7. /\ worker'.success => worker.success \/ worker.pc = "verdict"
      /\ \/ worker'.same = worker.same /\ worker'.unsent = worker.unsent
         \/ worker.pc = "file" /\ ~worker'.same
  BY <1>1, AfterTheReply
<1>8. worker.pc \in Waits /\ worker.pc \notin Dead /\ worker'.pc \notin Dead
  BY <1>6 DEF Waits, Dead, StepAfterReply
<1>9. Serving' = Serving /\ At' = At /\ (Serving => Len(toServer) = 0)
  BY <1>2, EmptySeq DEF Serving, At, ServerClosed
<1> HIDE DEF Inv
<1>10. TypeOK'
  BY <1>1, <1>6 DEF Inv, TypeOK
<1>11. Shape' /\ NotConnected'
  BY <1>3, <1>6, <1>8, <1>1, EmptySeq
     DEF Inv, Shape, NotConnected, ServerClosed, WorkerClosed, Dead, Waits, StepAfterReply
<1>12. Channel' /\ Sent'
  BY <1>9 DEF Channel, Sent
<1>13. InStep'
  BY <1>5, <1>6, <1>8, <1>9 DEF Inv, InStep
<1>14. Answers'
  BY <1>1, <1>4 DEF Answers
<1>15. Late'
  BY <1>3, <1>6, <1>8 DEF Inv, Late, StagesAfter, StepAfterReply, Waits, Dead
<1>16. Bytes'
  BY <1>3, <1>6, <1>7, <1>8, <1>9 DEF Inv, Bytes, StagesAfter, StepAfterReply, Waits
<1>17. Ended' /\ Verdict' /\ Download'
  BY <1>3, <1>7 DEF Inv, Ended, Verdict, Download, IsNewFile, StagesAfter
<1>18. Lines'
  BY <1>6, <1>8, <1>9 DEF Inv, Lines, Dead, StepAfterReply
<1> QED
  BY <1>10, <1>11, <1>12, <1>13, <1>14, <1>15, <1>16, <1>17, <1>18 DEF Inv

\* A worker that ends closes its end, and what it sent can still be read.
LEMMA WorkerEndsKeeps ==
  ASSUME Inv, worker.pc \notin Dead, NEW unread, WorkerEnds(unread), UNCHANGED <<download, troubles>>
  PROVE  Inv'
<1>1. /\ worker \in WorkerLocals
      /\ worker' = [worker EXCEPT !.pc = "ended"] /\ closed' = closed \cup {"worker"}
      /\ reset' \in BOOLEAN /\ toWorker' = <<>> /\ Len(toWorker') = 0
      /\ UNCHANGED <<server, toServer, registered, record, file, download, troubles>>
  BY EmptySeq DEF Inv, TypeOK, WorkerEnds, WorkerCloses
<1>2. /\ worker' \in WorkerLocals /\ worker'.pc = "ended"
      /\ worker'.buffer = worker.buffer /\ worker'.printed = worker.printed
      /\ worker'.unsent = worker.unsent
      /\ worker'.same = worker.same /\ worker'.success = worker.success
  BY <1>1 DEF WorkerLocals, WorkerSteps
<1>3. Serving' = Serving /\ At' = At /\ ServerClosed' = ServerClosed /\ WorkerClosed'
  BY <1>1 DEF Serving, At, ServerClosed, WorkerClosed
<1>4. TypeOK'
  BY <1>1, <1>2, EmptySeq DEF Inv, TypeOK
<1>5. Shape' /\ NotConnected'
  BY <1>1, <1>2, <1>3 DEF Inv, Shape, NotConnected, Dead
<1>6. Channel' /\ Sent' /\ InStep' /\ Answers' /\ Late'
  BY <1>1, <1>2, <1>3 DEF Inv, Channel, Sent, InStep, Answers, Late, Dead
<1>7. Bytes'
  BY <1>1, <1>2, <1>3 DEF Inv, Bytes
<1>8. Ended' /\ Verdict' /\ Download'
  BY <1>1, <1>2 DEF Inv, Ended, Verdict, Download, IsNewFile
<1>9. Lines'
  BY <1>1, <1>2, <1>3 DEF Inv, Lines, Dead
<1> QED
  BY <1>4, <1>5, <1>6, <1>7, <1>8, <1>9 DEF Inv

\* Of what a worker sent that vanishes some may be lost, but not in between.
LEMMA WorkerVanishesKeeps ==
  ASSUME Inv, WorkerVanishes, UNCHANGED <<download, troubles>>
  PROVE  Inv'
<1>1. PICK n \in 0 .. Len(toServer) : toServer' = SubSeq(toServer, 1, n)
  BY DEF WorkerVanishes
<1>2. /\ worker.pc \notin Dead /\ worker \in WorkerLocals /\ worker' = [worker EXCEPT !.pc = "vanished"]
      /\ UNCHANGED <<server, toWorker, closed, reset, registered, record, file, download, troubles>>
      /\ toServer \in Seq(Requests) /\ Len(toServer) \in Nat
  BY LenProperties DEF Inv, TypeOK, WorkerVanishes, Dead
<1>3. /\ worker' \in WorkerLocals /\ worker'.pc = "vanished"
      /\ worker'.buffer = worker.buffer /\ worker'.printed = worker.printed
      /\ worker'.unsent = worker.unsent
      /\ worker'.same = worker.same /\ worker'.success = worker.success
      /\ WaitsFor' = "vanished"
  BY <1>2 DEF WorkerLocals, WorkerSteps, WaitsFor
<1>4. n \in Nat /\ n \in Int /\ 1 \in Int /\ (1 <= n => n - 1 + 1 = n) /\ (~(1 <= n) => n = 0)
      /\ \A i \in 1 .. n : i \in 1 .. Len(toServer) /\ 1 + i - 1 = i
  BY <1>2
<1>5. /\ toServer' \in Seq(Requests) /\ Len(toServer') = n
      /\ \A i \in 1 .. n : toServer'[i] = toServer[i] /\ i \in 1 .. Len(toServer)
  <2>1. \A i \in 1 .. n : toServer[i] \in Requests
    BY <1>2, <1>4, ElementOfSeq
  <2> QED BY <1>1, <1>4, <2>1, SubSeqProperties
<1>6. toServer = <<>> => toServer' = <<>>
  BY <1>2, <1>4, <1>5, EmptySeq
<1>7. Serving' = Serving /\ At' = At
  BY <1>2 DEF Serving, At, ServerClosed
<1>8. TypeOK'
  BY <1>2, <1>3, <1>5 DEF Inv, TypeOK
<1>9. Shape' /\ NotConnected'
  BY <1>2, <1>3, <1>6 DEF Inv, Shape, NotConnected, ServerClosed, WorkerClosed, Dead
<1>10. Channel'
  <2>1. \A i \in 1 .. n : i = Len(toServer) => i = n
    BY <1>4
  <2> QED BY <1>2, <1>5, <1>7, <2>1 DEF Inv, Channel
<1>11. Sent' /\ InStep' /\ Late'
  BY <1>2, <1>3 DEF Inv, Sent, InStep, Late, Dead
<1>12. Answers'
  BY <1>2, <1>3, <1>6, <1>7 DEF Inv, Answers
<1>13. Bytes'
  <2>1. ASSUME server.stage \in {"transfer", "verdict"}, Serving, worker.same
        PROVE  file.bytes + Len(toServer') + worker'.unsent <= server.size
    <3>1. file.bytes \in Nat /\ server.size \in Nat /\ worker.unsent \in Nat
      BY <1>2 DEF Inv, TypeOK, ServerLocals, WorkerLocals
    <3>2. file.bytes + Len(toServer) + worker.unsent <= server.size
      BY <2>1 DEF Inv, Bytes
    <3> QED BY <1>2, <1>3, <1>5, <3>1, <3>2
  <2> QED BY <1>2, <1>3, <1>5, <1>7, <2>1 DEF Inv, Bytes
<1>14. Ended' /\ Verdict' /\ Download'
  BY <1>2, <1>3 DEF Inv, Ended, Verdict, Download, IsNewFile
<1>15. Lines'
  <2>1. ASSUME Serving, server.stage \in {"greeting", "auth", "start", "jobs"},
               Verbose, "notify" \notin troubles
        PROVE  \E m \in [0 .. Len(toServer') -> 0 .. worker.printed] :
                  /\ Counts(m, record.lines, toServer')
                  /\ \A i \in 1 .. Len(toServer') :
                        toServer'[i].cmd = "JOB_CONVERTED" => m[i] = worker.printed
    <3>1. PICK s \in [0 .. Len(toServer) -> 0 .. worker.printed] :
             /\ Counts(s, record.lines, toServer)
             /\ \A i \in 1 .. Len(toServer) :
                   toServer[i].cmd = "JOB_CONVERTED" => s[i] = worker.printed
      BY <2>1 DEF Inv, Lines
    <3> DEFINE m == [i \in 0 .. n |-> s[i]]
    <3>2. /\ \A i \in 0 .. n : i \in 0 .. Len(toServer) /\ m[i] = s[i]
          /\ \A i \in 1 .. n : i \in 0 .. n /\ i - 1 \in 0 .. n
          /\ 0 \in 0 .. n
      BY <1>2, <1>4
    <3>3. m \in [0 .. Len(toServer') -> 0 .. worker.printed]
      BY <1>5, <3>2
    <3> HIDE DEF m
    <3>4. Counts(m, record.lines, toServer')
      BY <1>5, <3>1, <3>2 DEF Counts
    <3> QED BY <1>5, <3>1, <3>2, <3>3, <3>4
  <2> QED BY <1>2, <1>3, <1>7, <2>1 DEF Inv, Lines, Dead
<1> QED
  BY <1>8, <1>9, <1>10, <1>11, <1>12, <1>13, <1>14, <1>15 DEF Inv

\* The worker sends bytes of the archive.
LEMMA SendBytesKeeps ==
  ASSUME Inv, SendBytes, UNCHANGED <<download, troubles>>
  PROVE  Inv'
<1> DEFINE n == MinOf(BUFFER_SIZE, worker.unsent)
           d == Data("BYTE", 0, worker.same)
           more == [i \in 1 .. n |-> d]
<1>1. /\ worker \in WorkerLocals /\ worker.pc = "send" /\ worker.unsent > 0
      /\ worker.unsent \in Nat /\ worker.same \in BOOLEAN /\ BUFFER_SIZE \in Nat \ {0}
      /\ toServer \in Seq(Requests) /\ Len(toServer) \in Nat /\ reset \in BOOLEAN
  BY LenProperties, BuffersAssumption DEF Inv, TypeOK, WorkerLocals, SendBytes
<1>2. n \in Nat \ {0} /\ worker.unsent - n \in Nat
  BY <1>1 DEF MinOf
<1>3. d \in Requests /\ d.cmd = "BYTE" /\ d.good = worker.same
  BY <1>1, DataType DEF Data
<1>4. /\ worker' = [worker EXCEPT !.unsent = worker.unsent - n] /\ Sends(more)
      /\ UNCHANGED <<server, registered, record, file, download, troubles>>
  BY DEF SendBytes
<1> HIDE DEF n, d
<1>5. /\ worker' \in WorkerLocals /\ worker'.pc = "send"
      /\ worker'.buffer = worker.buffer /\ worker'.printed = worker.printed
      /\ worker'.unsent = worker.unsent - n
      /\ worker'.same = worker.same /\ worker'.success = worker.success
  BY <1>1, <1>2, <1>4 DEF WorkerLocals, WorkerSteps
<1>6. more \in Seq(Requests) /\ Len(more) = n /\ \A j \in 1 .. n : more[j] = d
  <2>1. more \in [1 .. n -> Requests]
    BY <1>3
  <2>2. more \in Seq(Requests)
    BY <1>2, <2>1, SeqDef
  <2>3. DOMAIN more = 1 .. Len(more) /\ DOMAIN more = 1 .. n /\ Len(more) \in Nat
    BY <2>2, LenProperties
  <2> QED BY <1>2, <2>2, <2>3
<1>7. /\ UNCHANGED <<toWorker, closed>> /\ reset' \in BOOLEAN
      /\ \/ ServerClosed /\ toServer' = toServer
         \/ /\ ~ServerClosed /\ toServer' \in Seq(Requests) /\ Len(toServer') = Len(toServer) + n
            /\ \A i \in 1 .. Len(toServer') :
                  toServer'[i] = d \/ (i \in 1 .. Len(toServer) /\ toServer'[i] = toServer[i])
  <2>1. CASE ServerClosed
    BY <1>4, <2>1 DEF Sends
  <2>2. CASE ~ServerClosed
    <3>1. toServer' = toServer \o more /\ reset' = reset /\ UNCHANGED <<toWorker, closed>>
      BY <1>4, <2>2 DEF Sends
    <3>2. /\ toServer' \in Seq(Requests) /\ Len(toServer') = Len(toServer) + n
          /\ \A i \in 1 .. Len(toServer) + n : toServer'[i] =
                IF i <= Len(toServer) THEN toServer[i] ELSE more[i - Len(toServer)]
      BY <1>1, <1>6, <3>1, ConcatProperties
    <3>3. ASSUME NEW i \in 1 .. Len(toServer')
          PROVE  toServer'[i] = d \/ (i \in 1 .. Len(toServer) /\ toServer'[i] = toServer[i])
      <4>1. CASE i <= Len(toServer)
        BY <1>1, <1>2, <3>2, <4>1
      <4>2. CASE ~(i <= Len(toServer))
        <5>1. i - Len(toServer) \in 1 .. n
          BY <1>1, <1>2, <3>2, <4>2
        <5> HIDE DEF more
        <5> QED BY <1>1, <1>2, <1>6, <3>2, <4>2, <5>1
      <4> QED BY <4>1, <4>2
    <3> QED BY <1>1, <2>2, <3>1, <3>2, <3>3
  <2> QED BY <2>1, <2>2
<1> HIDE DEF more
<1>8. Serving' = Serving /\ At' = At
  BY <1>4, <1>7 DEF Serving, At, ServerClosed
<1>9. /\ \A i \in 1 .. Len(toWorker) : ~toWorker[i].result
      /\ Serving => toWorker = <<>>
  BY <1>1, NoAnswer DEF Inv, WaitsFor, Waits
<1>10. Serving => At = "transfer" /\ server.stage = "transfer"
  BY <1>1, <1>9 DEF Inv, InStep, Beside, Dead, At
<1>11. Serving => \A i \in 1 .. Len(toServer) : toServer[i].cmd = "BYTE"
  BY <1>10 DEF Inv, Channel, Requested
<1>12. /\ TypeOK'
  BY <1>4, <1>5, <1>7 DEF Inv, TypeOK
<1>13. Shape' /\ NotConnected' /\ Late'
  BY <1>1, <1>4, <1>5, <1>7 DEF Inv, Shape, NotConnected, Late, ServerClosed, WorkerClosed, Dead
<1>14. Channel' /\ Sent'
  BY <1>3, <1>5, <1>7, <1>8, <1>10, <1>11 DEF Serving, Channel, Sent, Requested, Senders, Updates
<1>15. InStep' /\ Answers'
  BY <1>1, <1>4, <1>5, <1>7, <1>8, <1>9 DEF Inv, InStep, Answers
<1>16. Bytes'
  <2>1. ASSUME Serving
        PROVE  /\ \A i \in 1 .. Len(toServer') :
                    toServer'[i].cmd = "BYTE" /\ toServer'[i].good = worker'.same
               /\ worker'.same => file.bytes + Len(toServer') + worker'.unsent <= server.size
    <3>1. ~ServerClosed
      BY <2>1 DEF Serving
    <3>2. \A i \in 1 .. Len(toServer) : toServer[i].good = worker.same
      BY <1>11, <2>1 DEF Inv, Bytes
    <3>3. file.bytes \in Nat /\ server.size \in Nat
      BY DEF Inv, TypeOK, ServerLocals
    <3>4. worker.same => file.bytes + Len(toServer) + worker.unsent <= server.size
      BY <1>10, <2>1 DEF Inv, Bytes
    <3>5. \A i \in 1 .. Len(toServer') :
             toServer'[i].cmd = "BYTE" /\ toServer'[i].good = worker'.same
      BY <1>3, <1>5, <1>7, <1>11, <2>1, <3>1, <3>2
    <3>6. worker'.same => file.bytes + Len(toServer') + worker'.unsent <= server.size
      BY <1>1, <1>2, <1>5, <1>7, <3>1, <3>3, <3>4
    <3> QED BY <3>5, <3>6
  <2>2. server.stage # "verdict"
    <3> SUFFICES ASSUME server.stage = "verdict" PROVE FALSE
      OBVIOUS
    <3> QED BY <1>1 DEF Inv, Bytes
  <2> QED BY <1>4, <1>5, <1>8, <2>1, <2>2 DEF Inv, Bytes
<1>17. Ended' /\ Verdict' /\ Download'
  BY <1>4, <1>5 DEF Inv, Ended, Verdict, Download, IsNewFile
<1>18. Lines'
  BY <1>1, <1>4, <1>5, <1>8, <1>10 DEF Inv, Lines
<1> QED
  BY <1>12, <1>13, <1>14, <1>15, <1>16, <1>17, <1>18 DEF Inv

LEMMA AllSentKeeps ==
  ASSUME Inv, AllSent, UNCHANGED <<download, troubles>>
  PROVE  Inv'
<1>1. /\ worker \in WorkerLocals /\ worker.pc = "send" /\ worker.unsent = 0
      /\ worker' = [worker EXCEPT !.pc = "verdict"]
      /\ UNCHANGED <<server, toServer, toWorker, closed, reset, registered, record, file,
                     download, troubles>>
  BY DEF Inv, TypeOK, AllSent, net
<1>2. /\ worker' \in WorkerLocals /\ worker'.pc = "verdict"
      /\ worker'.buffer = worker.buffer /\ worker'.printed = worker.printed
      /\ worker'.unsent = worker.unsent
      /\ worker'.same = worker.same /\ worker'.success = worker.success
  BY <1>1 DEF WorkerLocals, WorkerSteps, Waits
<1>3. Serving' = Serving /\ At' = At /\ WaitsFor' = WaitsFor
  BY <1>1, <1>2 DEF Serving, At, ServerClosed, WaitsFor
<1>4. TypeOK' /\ Shape' /\ NotConnected' /\ Late'
  BY <1>1, <1>2 DEF Inv, TypeOK, Shape, NotConnected, Late, ServerClosed, WorkerClosed, Dead
<1>5. Channel' /\ Answers'
  BY <1>1, <1>3 DEF Inv, Channel, Answers
<1>6. Sent'
  BY <1>1, <1>2, <1>3, InFlight, Commands DEF Inv, Sent, Senders, Updates, Dead
<1>7. InStep'
  BY <1>1, <1>2, <1>3 DEF Inv, InStep, Beside, StepAfterReply, Dead
<1>8. Bytes'
  BY <1>1, <1>2, <1>3 DEF Inv, Bytes
<1>9. Ended' /\ Verdict' /\ Download' /\ Lines'
  BY <1>1, <1>2, <1>3 DEF Inv, Ended, Verdict, Download, IsNewFile, Lines
<1> QED
  BY <1>4, <1>5, <1>6, <1>7, <1>8, <1>9 DEF Inv

------------------------------------------------------------------------------
(* The handler stops serving the worker *)

LEMMA Handlers ==
  ASSUME server \in ServerLocals
  PROVE  /\ \A c \in BOOLEAN :
               /\ Failing(c) \in ServerLocals /\ Failing(c).pc = "fail" /\ Failing(c).context = c
               /\ Failing(c).stage = server.stage /\ Failing(c).size = server.size
         /\ Over \in ServerLocals /\ Over.pc = "over" /\ Over.context = server.context
         /\ Over.stage = server.stage /\ Over.size = server.size
         /\ \A s \in Stages :
               /\ Reading(s) \in ServerLocals /\ Reading(s).pc = "read"
               /\ Reading(s).stage = s /\ Reading(s).size = server.size
               /\ Reading(s).context = server.context
               /\ Notifying(s) \in ServerLocals /\ Notifying(s).pc = "notify"
               /\ Notifying(s).stage = s /\ Notifying(s).size = server.size
               /\ Notifying(s).context = server.context
BY DEF ServerLocals, Failing, Over, Reading, Notifying

\* How the handler may have got where it is, what it did to the record, and to the
\* archive. One that had been told how the job ended keeps to it.
Remembers ==
    \/ /\ record' = record
       /\ server.pc = "over" => server'.pc = "over"
       /\ server.pc \in {"fail", "failNotify"} /\ ~server.context =>
             \/ server'.pc = "over"
             \/ server'.pc \in {"fail", "failNotify"} /\ ~server'.context
       /\ server.pc = "notify" /\ server.stage = "verdict" => troubles \cap {"notify", "crash"} # {}
    \/ /\ record' = [record EXCEPT !.state = "FAILED"] /\ server'.pc = "over"
       /\ \/ server.pc = "failNotify" /\ server.context
          \/ server.pc = "read" /\ server.stage = "file"
    \/ /\ record' = [record EXCEPT !.state = "FINISHED"] /\ server'.pc = "over"
       /\ server.pc = "notify" /\ server.stage = "verdict"
    \/ /\ "notify" \in troubles /\ server.pc \in {"read", "notify"}
       /\ server'.pc = "fail" /\ ~server'.context
       /\ record' \in [state : {"READY", "RUNNING", "FINISHED", "FAILED"}, lines : Nat]
       /\ record'.state = "FINISHED" => record.state = "FINISHED" \/ server.stage = "verdict"
       /\ record'.state = "FAILED" => record.state = "FAILED" \/ server.stage = "file"

KeepsArchive ==
    \/ file' = file
    \/ /\ server.pc = "bytes" /\ file' \in [bytes : Nat, good : BOOLEAN]
       /\ server'.pc # "bytes"
       /\ worker.pc = "file" => file'.bytes = 0
       /\ ~worker.same => file'.bytes = 0 \/ ~file'.good

KeepsStage ==
    \/ server'.stage = server.stage
    \/ /\ server.stage = "jobs" /\ server'.stage = "end" /\ server'.pc = "fail"
       /\ toWorker = <<>> /\ toWorker' = <<>> /\ worker.pc \in {"end"} \cup Dead
       /\ Verbose /\ "notify" \notin troubles => record'.lines = worker.printed

Stops ==
    /\ UNCHANGED <<worker, troubles>>
    /\ server' \in ServerLocals /\ toServer' \in Seq(Requests) /\ toWorker' \in Seq(Replies)
    /\ closed' \in {closed, closed \cup {"server"}} /\ reset' \in BOOLEAN /\ registered' \in BOOLEAN
    /\ ServerClosed' => toServer' = <<>>
    /\ server.pc # "none" /\ server'.size = server.size
    /\ \/ server'.pc \in {"fail", "failNotify", "over"}
       \/ server'.pc = server.pc /\ server.pc \in {"read", "bytes"} /\ ServerClosed'
    /\ server.pc \in {"failNotify", "over"} => server'.pc \in {"failNotify", "over"}
    /\ \/ toWorker' = toWorker
       \/ /\ toWorker' = Append(toWorker, [result |-> FALSE, to |-> server.stage])
          /\ closed = {} /\ closed' = {} /\ server'.pc = "failNotify"
    /\ server'.context =>
          \/ server.context /\ server'.stage = server.stage
          \/ server'.pc = "fail" /\ server'.stage \in {"end", "file", "transfer"}
    /\ Remembers /\ KeepsArchive /\ KeepsStage
    /\ \/ download' = download
       \/ download' = [download EXCEPT !.pc = "broken"]

LEMMA StopsSession ==
  ASSUME Inv, Stops
  PROVE  TypeOK' /\ Shape' /\ NotConnected' /\ Channel' /\ Sent' /\ InStep' /\ Answers' /\ Late'
<1>1. ~Serving' /\ WorkerClosed' = WorkerClosed /\ WaitsFor' = WaitsFor
  BY DEF Stops, Serving, WorkerClosed, WaitsFor
<1>0. At' # "started"
  <2>1. server'.pc # "notify" /\ server'.stage \in Stages
    BY DEF Stops, ServerLocals
  <2> QED BY <2>1 DEF At, Stages, Waits
<1>2. TypeOK'
  <2>1. record' \in [state : {"READY", "RUNNING", "FINISHED", "FAILED"}, lines : Nat]
    BY DEF Inv, TypeOK, Stops, Remembers
  <2>2. file' \in [bytes : Nat, good : BOOLEAN]
    BY DEF Inv, TypeOK, Stops, KeepsArchive
  <2>3. download' \in Downloads
    BY DEF Inv, TypeOK, Stops, Downloads
  <2>4. closed' \subseteq {"worker", "server"}
    BY DEF Inv, TypeOK, Stops
  <2> QED BY <2>1, <2>2, <2>3, <2>4 DEF Inv, TypeOK, Stops
<1>3. WorkerClosed => closed # {}
  BY DEF WorkerClosed
<1>4. Shape'
  <2>1. server'.pc = server.pc /\ server.pc \in {"read", "bytes"} =>
           server'.stage = server.stage /\ file' = file
    BY DEF Stops, KeepsStage, KeepsArchive
  <2>2. WorkerClosed <=> worker.pc = "ended"
    BY DEF Inv, Shape
  <2>3. WorkerClosed => toWorker' = <<>>
    BY <1>3 DEF Inv, Shape, Stops
  <2> QED BY <1>1, <2>1, <2>2, <2>3 DEF Inv, Shape, Stops
<1>5. NotConnected'
  BY DEF Inv, NotConnected, Stops
<1>6. Channel' /\ Sent' /\ InStep'
  BY <1>1 DEF Channel, Sent, InStep
<1>7. Late'
  BY DEF Inv, Late, Stops, KeepsStage
<1>8. Answers'
  <2>1. CASE toWorker' = toWorker /\ server'.stage = server.stage
    BY <1>0, <1>1, <2>1 DEF Inv, Answers, Stops
  <2>2. CASE toWorker' = <<>>
    <3>1. Len(toWorker') = 0
      BY <2>2, EmptySeq
    <3> QED BY <3>1 DEF Answers
  <2>3. CASE /\ toWorker' = Append(toWorker, [result |-> FALSE, to |-> server.stage])
             /\ server'.pc = "failNotify"
    <3> DEFINE r == [result |-> FALSE, to |-> server.stage]
    <3>1. r \in Replies /\ r.result = FALSE
      BY DEF Inv, TypeOK, ServerLocals, Stages, Replies
    <3>2. toWorker \in Seq(Replies) /\ Len(toWorker) \in Nat
      BY LenProperties DEF Inv, TypeOK
    <3> HIDE DEF r
    <3>3. /\ Len(toWorker') = Len(toWorker) + 1
          /\ \A i \in 1 .. Len(toWorker) : toWorker'[i] = toWorker[i]
          /\ toWorker'[Len(toWorker) + 1] = r
      <4>1. toWorker' = Append(toWorker, r)
        BY <2>3 DEF r
      <4> QED BY <3>1, <3>2, <4>1, AppendProperties
    <3>4. server'.stage = server.stage
      BY <2>3 DEF Stops, KeepsStage
    <3>5. ASSUME NEW i \in 1 .. Len(toWorker')
          PROVE  toWorker'[i] = r \/ (i \in 1 .. Len(toWorker) /\ toWorker'[i] = toWorker[i])
      BY <3>2, <3>3
    <3> QED BY <1>0, <1>1, <2>3, <3>1, <3>4, <3>5 DEF Inv, Answers
  <2> QED BY <2>1, <2>2, <2>3 DEF Stops, KeepsStage
<1> QED
  BY <1>2, <1>4, <1>5, <1>6, <1>7, <1>8

------------------------------------------------------------------------------
(* The phases *)

LEMMA PhaseOfStage ==
  /\ \A s \in {"greeting", "auth", "start"} : PhaseOf(s) = "connected"
  /\ \A s \in {"jobs", "end"} : PhaseOf(s) = "started"
  /\ PhaseOf("file") = "converted" /\ PhaseOf("transfer") = "transferring"
  /\ PhaseOf("verdict") = "verified"
BY DEF PhaseOf

LEMMA SamePhase ==
  ASSUME server.pc # "none", server'.pc # "none", record'.state = record.state,
         server'.pc = "over" <=> server.pc = "over",
         PhaseOf(server'.stage) = PhaseOf(server.stage)
  PROVE  Moves
BY DEF Moves, phase, outcome

LEMMA StopsMoves ==
  ASSUME Inv, Stops
  PROVE  Moves
<1>1. /\ record.state \in {"READY", "RUNNING", "FINISHED", "FAILED"}
      /\ record'.state \in {"READY", "RUNNING", "FINISHED", "FAILED"}
      /\ server.stage \in Stages /\ server.pc # "none" /\ server'.pc # "none"
  BY StopsSession DEF Inv, TypeOK, ServerLocals, Stops
<1>2. PhaseOf(server'.stage) = PhaseOf(server.stage)
  BY PhaseOfStage DEF Stops, KeepsStage
<1>3. /\ PhaseOf(server.stage) \in Session!Active
      /\ PhaseOf(server.stage) = "verified" <=> server.stage = "verdict"
      /\ PhaseOf(server.stage) \in {"started", "converted", "transferring"} <=>
            server.stage \in {"jobs", "end", "file", "transfer"}
  <2>1. server.stage \in {"greeting", "auth", "start", "end", "file", "verdict", "jobs", "transfer"}
    BY <1>1 DEF Stages, Waits
  <2> QED BY <2>1, PhaseOfStage DEF Session!Active
<1>4. server.pc = "over" => server'.pc = "over"
  BY DEF Stops, Remembers
<1>5. CASE record.state \in {"FINISHED", "FAILED"}
  <2>1. record'.state = record.state
    BY <1>5 DEF Inv, Ended, Stops, Remembers
  <2> QED BY <1>1, <1>5, <2>1 DEF Moves, phase, outcome
<1>6. CASE record.state \notin {"FINISHED", "FAILED"} /\ record'.state \notin {"FINISHED", "FAILED"}
  <2>1. CASE server'.pc = "over" /\ server.pc # "over"
    <3>1. phase = PhaseOf(server.stage) /\ phase' = "lost" /\ outcome = "none" /\ outcome' = "none"
      BY <1>1, <1>6, <2>1 DEF phase, outcome
    <3> QED BY <1>3, <3>1 DEF Moves, Session!Next, Session!Lose, Session!Move
  <2>2. CASE server'.pc = "over" <=> server.pc = "over"
    BY <1>1, <1>2, <1>6, <2>2 DEF Moves, phase, outcome
  <2> QED BY <1>4, <2>1, <2>2
<1>7. CASE record.state \notin {"FINISHED", "FAILED"} /\ record'.state \in {"FINISHED", "FAILED"}
  <2>1. /\ server.pc # "over"
        /\ record'.state = "FINISHED" => server.stage = "verdict"
        /\ record'.state = "FAILED" => server.stage \in {"end", "file", "transfer"}
    <3>1. record \in [state : {"READY", "RUNNING", "FINISHED", "FAILED"}, lines : Nat]
      BY DEF Inv, TypeOK
    <3>2. record' # record
      BY <1>7
    <3> QED BY <1>7, <3>1, <3>2 DEF Inv, Shape, Stops, Remembers
  <2>2. /\ phase = PhaseOf(server.stage) /\ phase' = "over" /\ outcome = "none"
        /\ outcome' = record'.state
    BY <1>1, <1>7, <2>1 DEF phase, outcome
  <2> QED BY <1>3, <1>7, <2>1, <2>2 DEF Moves, Session!Next, Session!End
<1> QED BY <1>5, <1>6, <1>7

LEMMA StopsKeeps ==
  ASSUME Inv, Stops
  PROVE  Inv' /\ Moves
<1>1. ~Serving' /\ UNCHANGED <<worker, troubles>> /\ server'.size = server.size /\ server.pc # "none"
  BY DEF Stops, Serving
<1>2. record \in [state : {"READY", "RUNNING", "FINISHED", "FAILED"}, lines : Nat]
  BY DEF Inv, TypeOK
<1>3. record.state = "FINISHED" => record'.state = "FINISHED" \/ "notify" \in troubles
  BY <1>2 DEF Inv, Ended, Stops, Remembers
<1>4. Bytes'
  <2>1. CASE server'.stage = server.stage
    <3>1. CASE file' = file
      BY <1>1, <2>1, <3>1 DEF Inv, Bytes
    <3>2. CASE file' # file
      <4>1. server.stage = "transfer"
        BY <3>2 DEF Inv, Shape, Stops, KeepsArchive
      <4> QED BY <1>1, <2>1, <3>2, <4>1 DEF Inv, Bytes, Stops, KeepsArchive
    <3> QED BY <3>1, <3>2
  <2>2. CASE server'.stage # server.stage
    BY <1>1, <2>2 DEF Inv, Bytes, Stops, KeepsStage
  <2> QED BY <2>1, <2>2
<1>5. Ended'
  BY <1>1, <1>2 DEF Inv, Ended, Stops, Remembers, KeepsStage
<1>6. Verdict'
  BY <1>1, <1>2 DEF Inv, Ended, Verdict, Stops, Remembers, KeepsStage
<1>7. Lines'
  <2>1. "notify" \notin troubles => record'.lines = record.lines
    BY <1>2 DEF Stops, Remembers
  <2> QED BY <1>1, <2>1 DEF Inv, Lines, Stops, KeepsStage
<1>8. Download'
  <2>1. /\ download'.finished = download.finished /\ download'.from = download.from
        /\ download'.size = download.size /\ download'.got = download.got
        /\ download'.pc = download.pc \/ download'.pc = "broken"
    BY DEF Inv, TypeOK, Downloads, Stops
  <2>2. IsNewFile' = IsNewFile
    BY DEF IsNewFile, Stops, KeepsStage
  <2>3. record.state = "FINISHED" => record'.state = "FINISHED"
    <3>1. record.state = "FINISHED" => server.pc \notin {"read", "notify"}
                                       /\ ~(server.pc = "failNotify" /\ server.context)
      BY DEF Inv, Ended
    <3> QED BY <1>2, <3>1 DEF Stops, Remembers
  <2> QED BY <1>1, <2>1, <2>2, <2>3 DEF Inv, Download
<1> QED
  BY <1>4, <1>5, <1>6, <1>7, <1>8, StopsSession, StopsMoves DEF Inv

LEMMA Closing ==
  ASSUME Inv, ServerCloses
  PROVE  /\ closed' = closed \cup {"server"} /\ ServerClosed' /\ toServer' = <<>>
         /\ toServer' \in Seq(Requests) /\ reset' \in BOOLEAN
BY EmptySeq DEF Inv, TypeOK, ServerCloses, ServerClosed

\* A request, or what is no request, has been taken from the channel.
LEMMA FailsOnRequest ==
  ASSUME Inv, server.pc = "read", ~ServerClosed, toServer # <<>>, toServer' = Rest,
         NEW c \in BOOLEAN, server' = Failing(c), c => server.stage = "file",
         UNCHANGED <<worker, toWorker, closed, reset, registered, record, file, download, troubles>>
  PROVE  Stops
<1>1. toServer' \in Seq(Requests) /\ ServerClosed' = ServerClosed
  BY OneLess DEF Inv, TypeOK, Rest, ServerClosed
<1>2. server' \in ServerLocals /\ server'.pc = "fail" /\ server'.stage = server.stage
      /\ server'.size = server.size /\ server'.context = c
  BY Handlers DEF Inv, TypeOK
<1>3. Remembers /\ KeepsArchive /\ KeepsStage
  BY <1>2 DEF Remembers, KeepsArchive, KeepsStage
<1> QED
  BY <1>1, <1>2, <1>3 DEF Inv, TypeOK, Stops

\* The connection is closed: nothing can be read, or the reply cannot be written.
LEMMA FailsOnClose ==
  ASSUME Inv, server.pc \in {"greet", "read", "bytes"}, ServerCloses, server' = Failing(FALSE),
         file' = file \/ (server.pc = "bytes" /\ KeepsArchive),
         UNCHANGED <<worker, toWorker, registered, record, download, troubles>>
  PROVE  Stops
<1>1. server' \in ServerLocals /\ server'.pc = "fail" /\ server'.stage = server.stage
      /\ server'.size = server.size /\ server'.context = FALSE
  BY Handlers DEF Inv, TypeOK
<1>2. Remembers /\ KeepsArchive /\ KeepsStage
  BY <1>1 DEF Remembers, KeepsArchive, KeepsStage
<1> QED
  BY <1>1, <1>2, Closing DEF Inv, TypeOK, Stops

LEMMA RecordedType ==
  ASSUME Inv, NEW val \in Nat,
         NEW cmd \in {"JOB_STARTED", "JOB_OUTPUT", "JOB_PROGRESS", "JOB_CONVERTED", "JOB_FINISHED",
                      "JOB_FAILED"}
  PROVE  /\ Recorded(cmd, val) \in [state : {"READY", "RUNNING", "FINISHED", "FAILED"}, lines : Nat]
         /\ Recorded(cmd, val).lines = record.lines + (IF cmd = "JOB_OUTPUT" THEN val ELSE 0)
         /\ Recorded(cmd, val).state = CASE cmd = "JOB_STARTED" -> "RUNNING"
                                         [] cmd = "JOB_FINISHED" -> "FINISHED"
                                         [] cmd = "JOB_FAILED" -> "FAILED"
                                         [] OTHER -> record.state
<1>1. /\ record \in [state : {"READY", "RUNNING", "FINISHED", "FAILED"}, lines : Nat]
      /\ record.lines \in Nat /\ record.lines + val \in Nat
  BY DEF Inv, TypeOK
<1> QED
  BY <1>1 DEF Recorded

\* notify raises, before or after it has saved the record.
LEMMA FailsOnNotify ==
  ASSUME Inv, server.pc \in {"read", "notify"}, "notify" \in troubles, server' = Failing(FALSE),
         NEW val \in Nat,
         NEW cmd \in {"JOB_STARTED", "JOB_OUTPUT", "JOB_PROGRESS", "JOB_CONVERTED", "JOB_FINISHED",
                      "JOB_FAILED"},
         cmd = "JOB_FINISHED" => server.stage = "verdict",
         cmd = "JOB_FAILED" => server.stage = "file",
         record' \in {record, Recorded(cmd, val)},
         toServer' = toServer \/ (toServer # <<>> /\ ~ServerClosed /\ toServer' = Rest),
         UNCHANGED <<worker, toWorker, closed, reset, registered, file, download, troubles>>
  PROVE  Stops
<1>1. toServer' \in Seq(Requests) /\ (ServerClosed' => toServer' = <<>>)
  <2>1. toServer \in Seq(Requests) /\ ServerClosed' = ServerClosed /\ (ServerClosed => toServer = <<>>)
    BY DEF Inv, TypeOK, Shape, ServerClosed
  <2> QED BY <2>1, OneLess DEF Rest
<1>2. server' \in ServerLocals /\ server'.pc = "fail" /\ server'.stage = server.stage
      /\ server'.size = server.size /\ server'.context = FALSE
  BY Handlers DEF Inv, TypeOK
<1>3. Remembers
  <2> DEFINE r == Recorded(cmd, val)
  <2>1. /\ r \in [state : {"READY", "RUNNING", "FINISHED", "FAILED"}, lines : Nat]
        /\ r.state = "FINISHED" => record.state = "FINISHED" \/ cmd = "JOB_FINISHED"
        /\ r.state = "FAILED" => record.state = "FAILED" \/ cmd = "JOB_FAILED"
    BY RecordedType
  <2> HIDE DEF r
  <2>2. record' = record \/ record' = r
    BY DEF r
  <2> QED BY <1>2, <2>1, <2>2 DEF Remembers, Inv, TypeOK
<1>4. KeepsArchive /\ KeepsStage
  BY <1>2 DEF KeepsArchive, KeepsStage
<1> QED
  BY <1>1, <1>2, <1>3, <1>4 DEF Inv, TypeOK, Stops

\* InvalidData, ReadFails
LEMMA ReadingStops ==
  ASSUME Inv, InvalidData \/ ReadFails, UNCHANGED <<download, troubles>>
  PROVE  Inv' /\ Moves
<1>1. CASE InvalidData
  BY <1>1, FailsOnRequest, StopsKeeps DEF InvalidData
<1>2. CASE ReadFails
  BY <1>2, FailsOnClose, StopsKeeps DEF ReadFails
<1> QED BY <1>1, <1>2

LEMMA SendFailureKeeps ==
  ASSUME Inv, SendFailure, UNCHANGED <<download, troubles>>
  PROVE  Inv' /\ Moves
<1>1. /\ server.pc = "fail" /\ server \in ServerLocals /\ registered' = TRUE
      /\ UNCHANGED <<worker, record, file, download, troubles>>
  BY DEF SendFailure, Inv, TypeOK
<1>2. CASE /\ server' = [server EXCEPT !.pc = "failNotify"]
           /\ toWorker' = IF closed = {} THEN Append(toWorker, [result |-> FALSE, to |-> server.stage])
                                         ELSE toWorker
           /\ reset' = (reset \/ WorkerClosed)
           /\ UNCHANGED <<toServer, closed>>
  <2>1. /\ server' \in ServerLocals /\ server'.pc = "failNotify" /\ server'.stage = server.stage
        /\ server'.size = server.size /\ server'.context = server.context
    BY <1>1, <1>2 DEF ServerLocals
  <2>2. [result |-> FALSE, to |-> server.stage] \in Replies
    BY <1>1 DEF ServerLocals, Stages, Replies
  <2>3. /\ toWorker' \in Seq(Replies)
        /\ \/ toWorker' = toWorker
           \/ /\ toWorker' = Append(toWorker, [result |-> FALSE, to |-> server.stage])
              /\ closed = {} /\ closed' = {}
    BY <1>2, <2>2, AppendProperties DEF Inv, TypeOK
  <2>4. ServerClosed' => toServer' = <<>>
    BY <1>2 DEF Inv, Shape, ServerClosed
  <2>5. Remembers /\ KeepsArchive /\ KeepsStage
    BY <1>1, <2>1 DEF Remembers, KeepsArchive, KeepsStage
  <2> QED BY <1>1, <1>2, <2>1, <2>3, <2>4, <2>5, StopsKeeps DEF Inv, TypeOK, Stops
<1>3. CASE server' = Over /\ ServerCloses /\ UNCHANGED toWorker
  <2>1. /\ server' \in ServerLocals /\ server'.pc = "over" /\ server'.stage = server.stage
        /\ server'.size = server.size /\ server'.context = server.context
    BY <1>1, <1>3, Handlers
  <2>2. Remembers /\ KeepsArchive /\ KeepsStage
    BY <1>1, <2>1 DEF Remembers, KeepsArchive, KeepsStage
  <2> QED BY <1>1, <1>3, <2>1, <2>2, Closing, StopsKeeps DEF Inv, TypeOK, Stops
<1> QED
  BY <1>2, <1>3 DEF SendFailure

LEMMA NotifyFailureKeeps ==
  ASSUME Inv, NotifyFailure, UNCHANGED <<download, troubles>>
  PROVE  Inv' /\ Moves
<1>1. /\ server.pc = "failNotify" /\ server \in ServerLocals /\ server' = Over
      /\ UNCHANGED <<worker, toWorker, registered, file, download, troubles>>
  BY DEF NotifyFailure, Inv, TypeOK
<1>2. /\ server' \in ServerLocals /\ server'.pc = "over" /\ server'.stage = server.stage
      /\ server'.size = server.size /\ server'.context = server.context
  BY <1>1, Handlers
<1>3. /\ toServer' \in Seq(Requests) /\ reset' \in BOOLEAN
      /\ closed' \in {closed, closed \cup {"server"}} /\ (ServerClosed' => toServer' = <<>>)
  <2>1. ServerCloses \/ UNCHANGED <<toServer, closed, reset>>
    BY DEF NotifyFailure
  <2> QED BY <2>1, Closing DEF Inv, TypeOK, Shape, ServerClosed
<1>4. record' = record \/ (server.context /\ record' = [record EXCEPT !.state = "FAILED"])
  BY DEF NotifyFailure, Recorded
<1>5. Remembers
  BY <1>1, <1>2, <1>4 DEF Remembers
<1>6. KeepsArchive /\ KeepsStage
  BY <1>1, <1>2 DEF KeepsArchive, KeepsStage
<1> QED
  BY <1>1, <1>2, <1>3, <1>5, <1>6, StopsKeeps DEF Inv, TypeOK, Stops

\* The last notifications: of a worker without an archive, and of a verified one.
LEMMA LastNotifyKeeps ==
  ASSUME Inv, HandleJobFailed \/ NotifyFinished, UNCHANGED <<download, troubles>>
  PROVE  Inv' /\ Moves
<1> DEFINE cmd == IF server.pc = "notify" THEN "JOB_FINISHED" ELSE "JOB_FAILED"
<1>1. /\ \/ server.pc = "notify" /\ server.stage = "verdict"
         \/ server.pc = "read" /\ server.stage = "file" /\ toServer # <<>> /\ ~ServerClosed
      /\ server \in ServerLocals
      /\ Notifies(cmd, 0, Over)
      /\ UNCHANGED <<worker, toWorker, registered, file, download, troubles>>
  BY DEF HandleJobFailed, NotifyFinished, Arrived, Inv, TypeOK
<1>2. \/ server'.pc = "over" /\ ServerCloses
      \/ /\ server'.pc # "over" /\ UNCHANGED <<closed, reset>>
         /\ toServer' = toServer \/ (toServer # <<>> /\ ~ServerClosed /\ toServer' = Rest)
  BY DEF HandleJobFailed, NotifyFinished, Arrived
<1>3. /\ Over \in ServerLocals /\ Over.pc = "over" /\ Over.stage = server.stage
      /\ Over.size = server.size /\ Over.context = server.context /\ Failing(FALSE).pc = "fail"
  BY <1>1, Handlers
<1>4. CASE "notify" \in troubles /\ record' \in {record, Recorded(cmd, 0)} /\ server' = Failing(FALSE)
  <2>1. server'.pc # "over" /\ server.pc \in {"read", "notify"}
    BY <1>1, <1>3, <1>4
  <2>2. /\ cmd \in {"JOB_STARTED", "JOB_OUTPUT", "JOB_PROGRESS", "JOB_CONVERTED", "JOB_FINISHED",
                    "JOB_FAILED"}
        /\ cmd = "JOB_FINISHED" => server.stage = "verdict"
        /\ cmd = "JOB_FAILED" => server.stage = "file"
    BY <1>1
  <2> HIDE DEF cmd
  <2>3. Stops
    BY <1>1, <1>2, <1>4, <2>1, <2>2, FailsOnNotify
  <2> QED BY <2>3, StopsKeeps
<1>5. CASE server' = Over /\ (record' = Recorded(cmd, 0) \/ ("notify" \in troubles /\ record' = record))
  <2>1. ServerCloses
    BY <1>2, <1>3, <1>5
  <2>2. Remembers
    BY <1>1, <1>3, <1>5 DEF Remembers, Recorded
  <2>3. KeepsArchive /\ KeepsStage
    BY <1>1, <1>3, <1>5 DEF KeepsArchive, KeepsStage
  <2> HIDE DEF cmd
  <2> QED BY <1>1, <1>3, <1>5, <2>1, <2>2, <2>3, Closing, StopsKeeps DEF Inv, TypeOK, Stops
<1> QED
  BY <1>1, <1>4, <1>5 DEF Notifies

\* The server closes the stream while the handler waits for the worker, or after
\* it has ended, or it crashes.
LEMMA ServerClosesKeeps ==
  ASSUME Inv, UNCHANGED troubles,
         \/ (NoticeClose \/ CloseZombie) /\ UNCHANGED download
         \/ ServerCrashes
  PROVE  Inv' /\ Moves
<1>1. /\ ServerCloses /\ server.pc # "none" /\ server \in ServerLocals /\ download \in Downloads
      /\ registered' \in BOOLEAN /\ UNCHANGED <<worker, toWorker, record, file, troubles>>
  BY DEF NoticeClose, CloseZombie, ServerCrashes, Inv, TypeOK
<1>2. /\ server' \in ServerLocals /\ server'.stage = server.stage /\ server'.size = server.size
      /\ server'.context = server.context
      /\ \/ server'.pc = "over" /\ (server.pc = "notify" => "crash" \in troubles)
         \/ server' = server /\ server.pc \in {"read", "bytes", "over"}
  <2>1. CASE ServerCrashes
    <3>1. server' = [[server EXCEPT !.pc = "over"] EXCEPT !.onClose = FALSE] /\ "crash" \in troubles
      BY <2>1 DEF ServerCrashes, Over
    <3> QED BY <1>1, <3>1 DEF ServerLocals
  <2>2. CASE NoticeClose \/ CloseZombie
    BY <1>1, <2>2 DEF NoticeClose, CloseZombie
  <2> QED BY <2>1, <2>2
<1>3. Remembers /\ KeepsArchive /\ KeepsStage
  BY <1>1, <1>2 DEF Remembers, KeepsArchive, KeepsStage
<1>4. download' = download \/ download' = [download EXCEPT !.pc = "broken"]
  BY DEF ServerCrashes
<1> QED
  BY <1>1, <1>2, <1>3, <1>4, Closing, StopsKeeps DEF Inv, TypeOK, Stops

\* The list of streams is not looked at by the session.
LEMMA RegisteringKeeps ==
  ASSUME Inv, OnClose \/ CollectClosed, UNCHANGED <<download, troubles>>
  PROVE  Inv' /\ Moves
<1>1. /\ UNCHANGED <<worker, toServer, toWorker, closed, reset, record, file, download, troubles>>
      /\ registered' \in BOOLEAN /\ server \in ServerLocals
  BY DEF OnClose, CollectClosed, net, Inv, TypeOK
<1>2. /\ server' \in ServerLocals /\ server'.pc = server.pc /\ server'.stage = server.stage
      /\ server'.size = server.size /\ server'.context = server.context
  BY <1>1 DEF OnClose, CollectClosed, ServerLocals
<1>3. /\ Serving' = Serving /\ At' = At /\ ServerClosed' = ServerClosed
      /\ WorkerClosed' = WorkerClosed /\ WaitsFor' = WaitsFor
  BY <1>1, <1>2 DEF Serving, At, ServerClosed, WorkerClosed, WaitsFor
<1>4. TypeOK' /\ Shape' /\ NotConnected'
  BY <1>1, <1>2, <1>3 DEF Inv, TypeOK, Shape, NotConnected
<1>5. Channel' /\ Sent' /\ InStep' /\ Answers' /\ Late'
  BY <1>1, <1>2, <1>3 DEF Inv, Channel, Sent, InStep, Answers, Late
<1>6. Bytes' /\ Ended' /\ Verdict'
  BY <1>1, <1>2, <1>3 DEF Inv, Bytes, Ended, Verdict
<1>7. Lines' /\ Download'
  BY <1>1, <1>2, <1>3 DEF Inv, Lines, Download, IsNewFile
<1>8. Moves
  BY <1>1, <1>2 DEF Moves, phase, outcome
<1> QED
  BY <1>4, <1>5, <1>6, <1>7, <1>8 DEF Inv

------------------------------------------------------------------------------
(* The handler replies *)

\* Nothing is in flight to the worker while it is served and has a request in
\* flight, or has just connected.
LEMMA NoReplyYet ==
  ASSUME Inv, Serving, toServer # <<>> \/ server.pc = "greet"
  PROVE  toWorker = <<>> /\ Len(toWorker) = 0
<1>1. toWorker \in Seq(Replies)
  BY DEF Inv, TypeOK
<1>2. ASSUME toWorker # <<>> PROVE FALSE
  <2>1. 1 \in 1 .. Len(toWorker)
    BY <1>1, <1>2, EmptySeq
  <2>2. server.pc = "greet" => server.stage = "greeting"
    BY DEF Inv, Shape
  <2> QED BY <2>1, <2>2 DEF Inv, Answers, Serving, StagesAfter
<1> QED BY <1>2, EmptySeq

\* The handler has a request to handle: what it may be, and that one that is
\* answered is the only one.
LEMMA ArrivedOne ==
  ASSUME Inv, NEW cmd \in DOMAIN CommandArgs, Arrived(cmd)
  PROVE  /\ Serving /\ server.pc = "read" /\ ~ServerClosed /\ At = server.stage
         /\ toWorker = <<>> /\ Len(toWorker) = 0
         /\ Len(toServer) \in Nat \ {0} /\ Head(toServer) = toServer[1]
         /\ Head(toServer).val \in Nat /\ Head(toServer).cmd \in Requested(server.stage)
         /\ worker.pc \in Senders(Head(toServer).cmd) \cup Dead
         /\ CommandArgs[cmd] \subseteq CommandArgs[Head(toServer).cmd]
         /\ Rest \in Seq(Requests) /\ Len(Rest) = Len(toServer) - 1
         /\ \A i \in 1 .. Len(Rest) : Rest[i] = toServer[i + 1]
         /\ Head(toServer).cmd \notin Updates \cup {"BYTE"} => Len(toServer) = 1 /\ Rest = <<>>
<1>1. /\ server.pc = "read" /\ ~ServerClosed /\ toServer # <<>> /\ Serving /\ At = server.stage
      /\ toServer \in Seq(Requests)
  BY DEF Arrived, Serving, At, Inv, TypeOK
<1>2. /\ Len(toServer) \in Nat \ {0} /\ Head(toServer) = toServer[1] /\ 1 \in 1 .. Len(toServer)
      /\ Rest \in Seq(Requests) /\ Len(Rest) = Len(toServer) - 1
      /\ \A i \in 1 .. Len(Rest) : Rest[i] = toServer[i + 1]
  BY <1>1, OneLess DEF Rest
<1>3. Head(toServer).val \in Nat
  BY <1>2, InFlight DEF Inv
<1>4. /\ Head(toServer).cmd \in Requested(server.stage)
      /\ Head(toServer).cmd \notin Updates \cup {"BYTE"} => Len(toServer) = 1
  BY <1>1, <1>2 DEF Inv, Channel
<1>5. worker.pc \in Senders(Head(toServer).cmd) \cup Dead
  BY <1>1, <1>2 DEF Inv, Sent
<1>6. Len(toServer) = 1 => Rest = <<>>
  BY <1>2, EmptySeq
<1>7. CommandArgs[cmd] \subseteq CommandArgs[Head(toServer).cmd]
  BY DEF Arrived, IsValid
<1> QED
  BY <1>1, <1>2, <1>3, <1>4, <1>5, <1>6, <1>7, NoReplyYet

\* The lines of a worker that has none in flight.
NoneInFlight == worker.pc # "vanished" => record.lines + worker.buffer = worker.printed

\* A positive reply, and where the handler is before and after it.
Answering(to) ==
    /\ Serving /\ server.pc \in {"greet", "read", "bytes"}
    /\ UNCHANGED <<worker, closed, registered, record, download, troubles>>
    /\ toWorker = <<>> /\ toServer' = <<>> /\ reset' \in BOOLEAN
    /\ toWorker' = IF WorkerClosed THEN <<>> ELSE <<[result |-> TRUE, to |-> to]>>
    /\ server' \in ServerLocals /\ file' \in [bytes : Nat, good : BOOLEAN]
    /\ server'.context = server.context
    /\ \/ to = "greeting" /\ At = "greeting" /\ server'.pc = "read"   /\ server'.stage = "auth"
       \/ to = "auth"     /\ At = "auth"     /\ server'.pc = "read"   /\ server'.stage = "start"
       \/ to = "start"    /\ At = "start"    /\ server'.pc = "notify" /\ server'.stage = "start"
       \/ to = "end"      /\ At = "jobs"     /\ server'.pc = "notify" /\ server'.stage = "end"
       \/ to = "file"     /\ At = "file"     /\ server'.pc = "bytes"  /\ server'.stage = "transfer"
       \/ to = "verdict"  /\ At = "transfer" /\ server'.pc = "notify" /\ server'.stage = "verdict"
    /\ worker.pc \in Dead \/ worker.pc = to \/ (to = "verdict" /\ worker.pc = "send")
    /\ CASE to = "file"    -> /\ file' = [bytes |-> 0, good |-> TRUE]
                              /\ server'.size = worker.unsent /\ server'.size > 0
         [] to = "verdict" -> /\ file'.bytes = server'.size /\ file'.good /\ worker.same
                              /\ worker.unsent = 0 /\ server'.size = server.size
         [] OTHER          -> file' = file /\ server'.size = server.size
    /\ Verbose /\ "notify" \notin troubles =>
          CASE to \in {"greeting", "auth", "start"} -> NoneInFlight /\ record.lines <= worker.printed
            [] OTHER -> record.lines = worker.printed

LEMMA AnsweringKeeps ==
  ASSUME Inv, NEW to, Answering(to)
  PROVE  Inv' /\ Moves
<1>1. /\ server.pc \in {"greet", "read", "bytes"} /\ ~ServerClosed /\ At = server.stage
      /\ WorkerClosed' = WorkerClosed /\ ServerClosed' = ServerClosed /\ WaitsFor' = WaitsFor
      /\ UNCHANGED <<worker, closed, registered, record, download, troubles>>
      /\ toServer' = <<>> /\ Len(toServer') = 0
  BY EmptySeq DEF Answering, Serving, At, ServerClosed, WorkerClosed, WaitsFor
<1>2. /\ to \in {"greeting", "auth", "start", "end", "file", "verdict"}
      /\ server'.pc \in {"read", "notify", "bytes"}
      /\ Serving' /\ server'.stage \in StagesAfter(to)
  BY <1>1 DEF Answering, Serving, StagesAfter
<1>3. record.state \notin {"FINISHED", "FAILED"}
  BY <1>1 DEF Inv, Ended
<1>4. /\ server.stage # "verdict" /\ ~worker.success
      /\ server.stage # "transfer" => worker.same /\ to # "verdict"
      /\ server.stage = "transfer" <=> to = "verdict"
  BY <1>1 DEF Inv, Bytes, Verdict, Answering
<1>5. [result |-> TRUE, to |-> to] \in Replies /\ [result |-> TRUE, to |-> to].result
      /\ [result |-> TRUE, to |-> to].to = to
  BY <1>2 DEF Replies, Waits
<1>6. /\ toWorker' \in Seq(Replies)
      /\ WorkerClosed => toWorker' = <<>> /\ Len(toWorker') = 0
      /\ ~WorkerClosed => Len(toWorker') = 1 /\ toWorker' # <<>>
                          /\ toWorker'[1] = [result |-> TRUE, to |-> to]
  <2>1. CASE WorkerClosed
    BY <2>1, EmptySeq DEF Answering
  <2>2. CASE ~WorkerClosed
    <3> DEFINE r == [result |-> TRUE, to |-> to]
    <3>1. r \in Replies
      BY <1>5
    <3> HIDE DEF r
    <3>2. toWorker' = <<r>>
      BY <2>2 DEF Answering, r
    <3>3. toWorker' \in Seq(Replies) /\ Len(toWorker') = 1 /\ toWorker'[1] = r
      BY <3>1, <3>2
    <3>4. toWorker' # <<>>
      <4>1. Len(<<>>) = 0
        BY EmptySeq
      <4> QED BY <3>3, <4>1
    <3> QED BY <2>2, <3>3, <3>4 DEF r
  <2> QED BY <2>1, <2>2
<1>7. TypeOK'
  BY <1>1, <1>6, EmptySeq DEF Inv, TypeOK, Answering
<1>8. Shape'
  <2>1. server'.pc = "bytes" => file'.bytes < server'.size
    <3>1. server'.size \in Nat
      BY DEF Answering, ServerLocals
    <3> QED BY <3>1 DEF Answering
  <2> QED BY <1>1, <1>6, <2>1 DEF Inv, Shape, Answering
<1>9. NotConnected'
  BY <1>1, <1>2 DEF Inv, NotConnected
<1>10. Channel' /\ Sent'
  BY <1>1 DEF Channel, Sent
<1>11. InStep'
  <2>1. SUFFICES ASSUME worker.pc \notin Dead
                 PROVE  At' \in Beside(StepAfterReply(worker.pc))
    <3>1. worker.pc \notin Dead => ~WorkerClosed
      BY DEF Inv, Shape, Dead
    <3> QED BY <1>1, <1>6, <3>1 DEF InStep
  <2>2. worker.pc = to \/ (to = "verdict" /\ worker.pc = "send")
    BY <2>1 DEF Answering
  <2>3. At' = IF to = "start" THEN "started" ELSE server'.stage
    BY <1>2 DEF At, Answering
  <2> QED BY <1>2, <2>2, <2>3 DEF Answering, StepAfterReply, Beside
<1>12. Answers'
  <2>1. ~WorkerClosed => WaitsFor \in {to, "vanished"}
    <3>1. ~WorkerClosed => worker.pc # "ended"
      BY DEF Inv, Shape
    <3> QED BY <3>1 DEF Answering, Dead, WaitsFor
  <2>2. At' = "started" => to = "start"
    <3>1. server'.stage # "started"
      BY DEF Answering
    <3> QED BY <3>1 DEF At, Answering
  <2> QED BY <1>1, <1>2, <1>5, <1>6, <2>1, <2>2 DEF Answers
<1>13. Late'
  BY <1>1, <1>2 DEF Late, Answering, Dead
<1>14. Bytes'
  <2>1. CASE to = "file"
    <3>1. server'.size \in Nat /\ file'.bytes = 0
      BY <2>1 DEF Answering, ServerLocals
    <3> QED BY <1>1, <1>4, <2>1, <3>1 DEF Bytes, Answering
  <2>2. CASE to = "verdict"
    <3>1. server'.size \in Nat /\ server'.size > 0
      BY <1>1, <1>4, <2>2 DEF Inv, Bytes, Answering, ServerLocals
    <3>2. worker.same /\ worker.unsent = 0 /\ file'.bytes = server'.size /\ file'.good
      BY <2>2 DEF Answering
    <3>3. file'.bytes + Len(toServer') + worker'.unsent <= server'.size
      BY <1>1, <3>1, <3>2
    <3> QED BY <1>1, <2>2, <3>1, <3>2, <3>3 DEF Bytes, Answering
  <2>3. CASE to \in {"greeting", "auth", "start", "end"}
    BY <1>1, <1>4, <2>3 DEF Bytes, Answering
  <2> QED BY <1>2, <2>1, <2>2, <2>3
<1>15. Ended' /\ Verdict'
  BY <1>1, <1>3, <1>4 DEF Ended, Verdict, Answering
<1>16. Download'
  <2>1. IsNewFile => IsNewFile'
    BY <1>1, <1>4 DEF IsNewFile, Answering
  <2> QED BY <1>1, <1>3, <2>1 DEF Inv, Download
<1>17. Lines'
  <2>1. CASE to \in {"greeting", "auth", "start"}
    <3> SUFFICES ASSUME Verbose, "notify" \notin troubles
                 PROVE  Lines'
      BY <1>1 DEF Lines
    <3>1. /\ NoneInFlight /\ record.lines <= worker.printed
          /\ record.lines \in Nat /\ worker.printed \in Nat
          /\ server'.stage \in {"auth", "start"}
          /\ worker.pc = to \/ worker.pc \in Dead
      BY <1>1, <2>1 DEF Answering, Inv, TypeOK, WorkerLocals
    <3> DEFINE n == [i \in 0 .. 0 |-> record.lines]
    <3>2. /\ n \in [0 .. Len(toServer') -> 0 .. worker'.printed]
          /\ Counts(n, record'.lines, toServer')
          /\ n[Len(toServer')] = record.lines
      BY <1>1, <3>1 DEF Counts
    <3> HIDE DEF n
    <3> QED BY <1>1, <2>1, <3>1, <3>2 DEF Lines, NoneInFlight, Dead
  <2>2. CASE to \in {"end", "file", "verdict"}
    BY <1>1, <2>2 DEF Lines, Answering, Dead
  <2> QED BY <1>2, <2>1, <2>2
<1>18. Moves
  <2>1. /\ phase = PhaseOf(server.stage) /\ phase' = PhaseOf(server'.stage)
        /\ outcome = "none" /\ outcome' = "none"
    BY <1>1, <1>2, <1>3 DEF phase, outcome
  <2> QED BY <1>1, <2>1, PhaseOfStage
          DEF Answering, Moves, Session!Next, Session!Transfer, Session!Verify, Session!Move
<1> QED
  BY <1>7, <1>8, <1>9, <1>10, <1>11, <1>12, <1>13, <1>14, <1>15, <1>16, <1>17, <1>18 DEF Inv

\* The lines recorded when the only request in flight, if any, brings no lines.
LEMMA RecordedSoFar ==
  ASSUME Inv, Serving, server.stage \in {"greeting", "auth", "start", "jobs"},
         Verbose, "notify" \notin troubles,
         \/ Len(toServer) = 0
         \/ Len(toServer) = 1 /\ toServer[1].cmd # "JOB_OUTPUT"
  PROVE  /\ NoneInFlight /\ record.lines <= worker.printed
         /\ Len(toServer) = 1 /\ toServer[1].cmd = "JOB_CONVERTED" => record.lines = worker.printed
<1>1. PICK n \in [0 .. Len(toServer) -> 0 .. worker.printed] :
         /\ Counts(n, record.lines, toServer)
         /\ worker.pc # "vanished" => n[Len(toServer)] + worker.buffer = worker.printed
         /\ \A i \in 1 .. Len(toServer) : toServer[i].cmd = "JOB_CONVERTED" => n[i] = worker.printed
  BY DEF Inv, Lines
<1>2. record.lines \in Nat /\ worker.printed \in Nat /\ worker.buffer \in Nat
  BY DEF Inv, TypeOK, WorkerLocals
<1>3. n[0] = record.lines /\ n[0] \in 0 .. worker.printed
  BY <1>1, <1>2 DEF Counts
<1>4. n[Len(toServer)] = record.lines
  <2>1. CASE Len(toServer) = 0
    BY <1>3, <2>1
  <2>2. CASE Len(toServer) = 1 /\ toServer[1].cmd # "JOB_OUTPUT"
    <3>1. n[1] = n[0] + LinesOf(toServer[1]) /\ LinesOf(toServer[1]) = 0
      BY <1>1, <2>2 DEF Counts, LinesOf
    <3> QED BY <1>2, <1>3, <2>2, <3>1
  <2> QED BY <2>1, <2>2
<1> QED BY <1>1, <1>2, <1>3, <1>4 DEF NoneInFlight

LEMMA ReplyOrClosed ==
  ASSUME Inv, NEW to, NEW next, SendsReply(to, <<>>, next), toWorker = <<>>
  PROVE  \/ /\ server' = next /\ toServer' = <<>> /\ reset' \in BOOLEAN /\ UNCHANGED closed
            /\ toWorker' = IF WorkerClosed THEN <<>> ELSE <<[result |-> TRUE, to |-> to]>>
         \/ ServerCloses /\ server' = Failing(FALSE) /\ UNCHANGED toWorker
<1>1. Append(<<>>, [result |-> TRUE, to |-> to]) = <<[result |-> TRUE, to |-> to]>>
  OBVIOUS
<1> QED BY <1>1 DEF SendsReply, Inv, TypeOK

LEMMA SendGreetingKeeps ==
  ASSUME Inv, SendGreeting, UNCHANGED <<download, troubles>>
  PROVE  Inv' /\ Moves
<1>1. /\ server.pc = "greet" /\ server.stage = "greeting" /\ ~ServerClosed /\ Serving /\ At = "greeting"
      /\ toServer \in Seq(Requests) /\ UNCHANGED <<worker, registered, record, file, download, troubles>>
      /\ "auth" \in Stages /\ file \in [bytes : Nat, good : BOOLEAN]
  BY DEF SendGreeting, Inv, Shape, Serving, At, TypeOK, Stages, Waits
<1>2. toServer = <<>> /\ Len(toServer) = 0 /\ toWorker = <<>>
  <2>1. \A i \in 1 .. Len(toServer) : FALSE
    BY <1>1 DEF Inv, Channel, Requested
  <2>2. toServer = <<>>
    <3> SUFFICES ASSUME toServer # <<>> PROVE FALSE
      OBVIOUS
    <3>1. 1 \in 1 .. Len(toServer)
      BY <1>1, EmptySeq
    <3> QED BY <2>1, <3>1
  <2> QED BY <1>1, <2>2, EmptySeq, NoReplyYet
<1>3. worker.pc \in Dead \/ worker.pc = "greeting"
  BY <1>1, <1>2 DEF Inv, InStep, Beside
<1>4. \/ /\ server' = Reading("auth") /\ toServer' = <<>> /\ reset' \in BOOLEAN /\ UNCHANGED closed
         /\ toWorker' = IF WorkerClosed THEN <<>> ELSE <<[result |-> TRUE, to |-> "greeting"]>>
      \/ ServerCloses /\ server' = Failing(FALSE) /\ UNCHANGED toWorker
  BY <1>2, ReplyOrClosed DEF SendGreeting
<1>5. CASE /\ server' = Reading("auth") /\ toServer' = <<>> /\ reset' \in BOOLEAN /\ UNCHANGED closed
           /\ toWorker' = IF WorkerClosed THEN <<>> ELSE <<[result |-> TRUE, to |-> "greeting"]>>
  <2>1. /\ server' \in ServerLocals /\ server'.pc = "read" /\ server'.stage = "auth"
        /\ server'.size = server.size /\ server'.context = server.context
    BY <1>1, <1>5, Handlers DEF Inv, TypeOK
  <2>2. Verbose /\ "notify" \notin troubles => NoneInFlight /\ record.lines <= worker.printed
    BY <1>1, <1>2, RecordedSoFar
  <2>3. Answering("greeting")
    BY <1>1, <1>2, <1>3, <1>5, <2>1, <2>2 DEF Answering
  <2> QED BY <2>3, AnsweringKeeps
<1>6. CASE ServerCloses /\ server' = Failing(FALSE) /\ UNCHANGED toWorker
  BY <1>1, <1>6, FailsOnClose, StopsKeeps
<1> QED BY <1>4, <1>5, <1>6

\* The handler of the key, of JOB_STARTED and of JOB_CONVERTED.
LEMMA RequestKeeps ==
  ASSUME Inv, HandleAuthentication \/ HandleJobStarted \/ HandleConversionFinished,
         UNCHANGED <<download, troubles>>
  PROVE  Inv' /\ Moves
<1> DEFINE cmd  == CASE server.stage = "auth"  -> "AUTH"
                     [] server.stage = "start" -> "JOB_STARTED"
                     [] server.stage = "jobs"  -> "JOB_CONVERTED"
           to   == CASE server.stage = "auth"  -> "auth"
                     [] server.stage = "start" -> "start"
                     [] server.stage = "jobs"  -> "end"
           next == CASE server.stage = "auth"  -> Reading("start")
                     [] server.stage = "start" -> Notifying("start")
                     [] server.stage = "jobs"  -> Notifying("end")
<1>1. /\ server.stage \in {"auth", "start", "jobs"} /\ cmd \in DOMAIN CommandArgs /\ Arrived(cmd)
      /\ UNCHANGED <<worker, registered, record, file, download, troubles>>
  BY Commands DEF HandleAuthentication, HandleJobStarted, HandleConversionFinished
<1>2. Head(toServer).cmd = cmd
  <2>1. /\ Head(toServer).cmd \in Requested(server.stage)
        /\ CommandArgs[cmd] \subseteq CommandArgs[Head(toServer).cmd]
    BY <1>1, ArrivedOne
  <2>2. CASE server.stage \in {"auth", "start"}
    BY <2>1, <2>2 DEF Requested
  <2>3. CASE server.stage = "jobs"
    <3>1. /\ "RESULT" \notin CommandArgs["JOB_OUTPUT"] /\ "RESULT" \notin CommandArgs["JOB_PROGRESS"]
          /\ "RESULT" \in CommandArgs["JOB_CONVERTED"]
      BY DEF CommandArgs
    <3> QED BY <2>1, <2>3, <3>1 DEF Requested, Updates
  <2> QED BY <1>1, <2>2, <2>3
<1>3. /\ Serving /\ server.pc = "read" /\ ~ServerClosed /\ At = server.stage /\ toWorker = <<>>
      /\ Len(toServer) = 1 /\ Rest = <<>> /\ toServer[1] = Head(toServer) /\ toServer # <<>>
  <2>1. cmd \notin Updates \cup {"BYTE"}
    BY <1>1 DEF Updates
  <2> HIDE DEF cmd
  <2> QED BY <1>1, <1>2, <2>1, ArrivedOne DEF Arrived
<1>4. worker.pc \in Dead \/ worker.pc = to
  <2>1. worker.pc \in Senders(cmd) \cup Dead
    BY <1>1, <1>2, ArrivedOne
  <2> QED BY <1>1, <2>1 DEF Senders, Updates
<1>5. /\ server \in ServerLocals /\ "start" \in Stages /\ "end" \in Stages
      /\ file \in [bytes : Nat, good : BOOLEAN]
  BY DEF Inv, TypeOK, Stages, Waits
<1>6. Verbose /\ "notify" \notin troubles =>
         /\ NoneInFlight /\ record.lines <= worker.printed
         /\ server.stage = "jobs" => record.lines = worker.printed
  <2>1. toServer[1].cmd # "JOB_OUTPUT"
    BY <1>1, <1>2, <1>3
  <2> QED BY <1>1, <1>2, <1>3, <2>1, RecordedSoFar
<1>7. \/ SendsReply(to, Rest, next)
      \/ server' = Failing(FALSE) /\ toServer' = Rest /\ UNCHANGED <<toWorker, closed, reset>>
      \/ /\ server.stage = "jobs" /\ server' = [Failing(TRUE) EXCEPT !.stage = "end"]
         /\ toServer' = Rest /\ UNCHANGED <<toWorker, closed, reset>>
  BY DEF HandleAuthentication, HandleJobStarted, HandleConversionFinished
<1>8. CASE SendsReply(to, Rest, next)
  <2>1. next \in ServerLocals /\ next.size = server.size /\ next.context = server.context
        /\ next.pc = (IF server.stage = "auth" THEN "read" ELSE "notify")
        /\ next.stage = (IF server.stage = "jobs" THEN "end" ELSE "start")
    BY <1>1, <1>5, Handlers
  <2> HIDE DEF next
  <2>2. \/ /\ server' = next /\ toServer' = <<>> /\ reset' \in BOOLEAN /\ UNCHANGED closed
           /\ toWorker' = IF WorkerClosed THEN <<>> ELSE <<[result |-> TRUE, to |-> to]>>
        \/ ServerCloses /\ server' = Failing(FALSE) /\ UNCHANGED toWorker
    BY <1>3, <1>8, ReplyOrClosed
  <2>3. CASE /\ server' = next /\ toServer' = <<>> /\ reset' \in BOOLEAN /\ UNCHANGED closed
             /\ toWorker' = IF WorkerClosed THEN <<>> ELSE <<[result |-> TRUE, to |-> to]>>
    <3>1. to = (IF server.stage = "jobs" THEN "end" ELSE server.stage)
      BY <1>1
    <3> HIDE DEF to, cmd
    <3>2. Answering(to)
      BY <1>1, <1>3, <1>4, <1>5, <1>6, <2>1, <2>3, <3>1 DEF Answering
    <3> QED BY <3>2, AnsweringKeeps
  <2>4. CASE ServerCloses /\ server' = Failing(FALSE) /\ UNCHANGED toWorker
    BY <1>1, <1>3, <2>4, FailsOnClose, StopsKeeps
  <2> QED BY <2>2, <2>3, <2>4
<1>9. CASE server' = Failing(FALSE) /\ toServer' = Rest /\ UNCHANGED <<toWorker, closed, reset>>
  BY <1>1, <1>3, <1>9, FailsOnRequest, StopsKeeps
<1>10. CASE /\ server.stage = "jobs" /\ server' = [Failing(TRUE) EXCEPT !.stage = "end"]
            /\ toServer' = Rest /\ UNCHANGED <<toWorker, closed, reset>>
  <2>1. server' = [[server EXCEPT !.pc = "fail", !.context = TRUE] EXCEPT !.stage = "end"]
    BY <1>10 DEF Failing
  <2>2. server' \in ServerLocals /\ server'.pc = "fail" /\ server'.stage = "end"
        /\ server'.size = server.size
    BY <1>5, <2>1 DEF ServerLocals
  <2>3. Remembers /\ KeepsArchive
    BY <1>1, <1>3, <2>2 DEF Remembers, KeepsArchive
  <2>4. KeepsStage
    BY <1>1, <1>3, <1>4, <1>6, <1>10, <2>2 DEF KeepsStage
  <2>5. Stops
    BY <1>1, <1>3, <1>10, <2>2, <2>3, <2>4, EmptySeq DEF Inv, TypeOK, Stops, ServerClosed
  <2> QED BY <2>5, StopsKeeps
<1> QED BY <1>7, <1>8, <1>9, <1>10

\* The announcement of the archive: the file is asked for, unless it is empty.
LEMMA HandleFileTransferKeeps ==
  ASSUME Inv, HandleFileTransfer, UNCHANGED <<download, troubles>>
  PROVE  Inv' /\ Moves
<1> DEFINE size == Head(toServer).val
           next == [server EXCEPT !.pc = "bytes", !.stage = "transfer", !.size = size]
<1>1. /\ server.stage = "file" /\ Arrived("JOB_FINISHED") /\ "JOB_FINISHED" \in DOMAIN CommandArgs
      /\ UNCHANGED <<worker, registered, record, download, troubles>>
      /\ server \in ServerLocals /\ file \in [bytes : Nat, good : BOOLEAN]
  BY Commands DEF HandleFileTransfer, Inv, TypeOK
<1>2. Head(toServer).cmd = "JOB_FINISHED"
  <2>1. /\ Head(toServer).cmd \in Requested("file")
        /\ CommandArgs["JOB_FINISHED"] \subseteq CommandArgs[Head(toServer).cmd]
    BY <1>1, ArrivedOne
  <2>2. "SIZE" \in CommandArgs["JOB_FINISHED"] /\ "SIZE" \notin CommandArgs["JOB_FAILED"]
    BY DEF CommandArgs
  <2> QED BY <2>1, <2>2 DEF Requested
<1>3. /\ Serving /\ server.pc = "read" /\ ~ServerClosed /\ At = "file" /\ toWorker = <<>>
      /\ Len(toServer) = 1 /\ Rest = <<>> /\ toServer[1] = Head(toServer) /\ toServer # <<>>
      /\ size \in Nat
  <2>1. "JOB_FINISHED" \notin Updates \cup {"BYTE"}
    BY DEF Updates
  <2> QED BY <1>1, <1>2, <2>1, ArrivedOne DEF Arrived
<1>4. worker.pc \in Dead \/ worker.pc = "file"
  <2>1. worker.pc \in Senders("JOB_FINISHED") \cup Dead
    BY <1>1, <1>2, ArrivedOne
  <2> QED BY <2>1 DEF Senders, Updates
<1>5. size = worker.unsent
  BY <1>2, <1>3 DEF Inv, Bytes
<1>6. CASE size = 0
  <2>1. server' = Failing(TRUE) /\ toServer' = Rest /\ UNCHANGED <<toWorker, closed, reset, file>>
    BY <1>6 DEF HandleFileTransfer
  <2> QED BY <1>1, <1>3, <2>1, FailsOnRequest, StopsKeeps
<1>7. CASE size # 0
  <2>1. /\ SendsReply("file", Rest, next)
        /\ file' = IF server'.pc = "bytes" THEN [bytes |-> 0, good |-> TRUE] ELSE file
    BY <1>7 DEF HandleFileTransfer
  <2>2. /\ next \in ServerLocals /\ next.pc = "bytes" /\ next.stage = "transfer"
        /\ next.size = size /\ next.context = server.context
    BY <1>1, <1>3 DEF ServerLocals, Stages
  <2> HIDE DEF next
  <2>3. \/ /\ server' = next /\ toServer' = <<>> /\ reset' \in BOOLEAN /\ UNCHANGED closed
           /\ toWorker' = IF WorkerClosed THEN <<>> ELSE <<[result |-> TRUE, to |-> "file"]>>
        \/ ServerCloses /\ server' = Failing(FALSE) /\ UNCHANGED toWorker
    BY <1>3, <2>1, ReplyOrClosed
  <2>4. CASE /\ server' = next /\ toServer' = <<>> /\ reset' \in BOOLEAN /\ UNCHANGED closed
             /\ toWorker' = IF WorkerClosed THEN <<>> ELSE <<[result |-> TRUE, to |-> "file"]>>
    <3>1. file' = [bytes |-> 0, good |-> TRUE] /\ file' \in [bytes : Nat, good : BOOLEAN]
      BY <2>1, <2>2, <2>4
    <3>2. Verbose /\ "notify" \notin troubles => record.lines = worker.printed
      BY <1>1 DEF Inv, Lines
    <3>3. size > 0
      BY <1>3, <1>7
    <3> HIDE DEF size
    <3>4. Answering("file")
      BY <1>1, <1>3, <1>4, <1>5, <2>2, <2>4, <3>1, <3>2, <3>3 DEF Answering
    <3> QED BY <3>4, AnsweringKeeps
  <2>5. CASE ServerCloses /\ server' = Failing(FALSE) /\ UNCHANGED toWorker
    <3>1. Failing(FALSE).pc = "fail"
      BY <1>1, Handlers
    <3> QED BY <1>1, <1>3, <2>1, <2>5, <3>1, FailsOnClose, StopsKeeps
  <2> QED BY <2>3, <2>4, <2>5
<1> QED BY <1>6, <1>7

\* n bytes are taken from the channel and written to the archive.
LEMMA ReadBytesKeeps ==
  ASSUME Inv, ReadBytes, UNCHANGED <<download, troubles>>
  PROVE  Inv' /\ Moves
<1> DEFINE n       == BufferSize(server.size - file.bytes)
           rest    == SubSeq(toServer, n + 1, Len(toServer))
           whole   == file.good /\ \A i \in 1 .. n : toServer[i].good
           written == [bytes |-> file.bytes + n, good |-> whole]
<1>1. /\ server.pc = "bytes" /\ server.stage = "transfer" /\ ~ServerClosed /\ Serving
      /\ At = "transfer" /\ file.bytes < server.size
      /\ server.size \in Nat /\ file.bytes \in Nat /\ file.good \in BOOLEAN /\ worker.unsent \in Nat
      /\ server \in ServerLocals /\ toServer \in Seq(Requests) /\ reset \in BOOLEAN
      /\ UNCHANGED <<worker, registered, record, download, troubles>>
  BY DEF ReadBytes, Inv, TypeOK, Shape, Serving, At, ServerLocals, WorkerLocals
<1>2. Len(toServer) \in Nat
  BY <1>1, LenProperties
<1>3. n \in Nat \ {0} /\ file.bytes + n <= server.size /\ n <= Len(toServer)
  <2>1. server.size - file.bytes \in Nat \ {0} /\ MaxInputBuffer \in Nat \ {0}
    BY <1>1, BuffersAssumption
  <2>2. Len(toServer) >= n
    BY DEF ReadBytes, EnoughBytes
  <2>3. n \in Nat \ {0} /\ n <= server.size - file.bytes
    BY <2>1 DEF BufferSize, MinOf
  <2> HIDE DEF n
  <2> QED BY <1>1, <1>2, <2>2, <2>3
<1>4. /\ file' = written
      /\ IF written.bytes < server.size
         THEN toServer' = rest /\ UNCHANGED <<server, toWorker, closed, reset>>
         ELSE IF Verified(written, server.size)
         THEN SendsReply("verdict", rest, Notifying("verdict"))
         ELSE server' = Failing(TRUE) /\ toServer' = rest /\ UNCHANGED <<toWorker, closed, reset>>
  BY DEF ReadBytes
<1> HIDE DEF n
<1>5. /\ toWorker = <<>> /\ Len(toWorker) = 0 /\ 1 \in 1 .. n /\ 1 \in 1 .. Len(toServer)
  <2>1. toServer # <<>>
    BY <1>2, <1>3, EmptySeq
  <2> QED BY <1>1, <1>2, <1>3, <2>1, NoReplyYet
<1>6. \A i \in 1 .. Len(toServer) : toServer[i].cmd = "BYTE" /\ toServer[i].good = worker.same
  BY <1>1 DEF Inv, Channel, Requested, Bytes
<1>7. worker.pc \in {"send", "verdict"} \cup Dead
  BY <1>1, <1>5, <1>6 DEF Inv, Sent, Senders, Updates
<1>8. /\ written \in [bytes : Nat, good : BOOLEAN] /\ written.bytes = file.bytes + n
      /\ written.good => file.good /\ worker.same
  <2>1. whole \in BOOLEAN /\ (whole => file.good /\ worker.same)
    BY <1>1, <1>5, <1>6
  <2> HIDE DEF whole
  <2> QED BY <1>1, <1>3, <2>1
<1>9. /\ rest \in Seq(Requests) /\ Len(rest) = Len(toServer) - n
      /\ \A i \in 1 .. Len(rest) : rest[i] = toServer[n + i] /\ n + i \in 1 .. Len(toServer)
  <2>1. /\ n + 1 \in Int /\ Len(toServer) \in Int /\ \A i \in n + 1 .. Len(toServer) : i \in 1 .. Len(toServer)
        /\ (n + 1 <= Len(toServer) => Len(toServer) - (n + 1) + 1 = Len(toServer) - n)
        /\ (~(n + 1 <= Len(toServer)) => Len(toServer) - n = 0)
        /\ Len(toServer) - (n + 1) + 1 = Len(toServer) - n
        /\ \A i \in 1 .. Len(toServer) - n : (n + 1) + i - 1 = n + i /\ n + i \in 1 .. Len(toServer)
    BY <1>2, <1>3
  <2>2. \A i \in 1 .. Len(toServer) : toServer[i] \in Requests
    BY <1>1, ElementOfSeq
  <2>3. /\ rest \in Seq(Requests)
        /\ Len(rest) = IF n + 1 <= Len(toServer) THEN Len(toServer) - (n + 1) + 1 ELSE 0
        /\ \A i \in 1 .. Len(toServer) - (n + 1) + 1 : rest[i] = toServer[(n + 1) + i - 1]
    BY <2>1, <2>2, SubSeqProperties
  <2> HIDE DEF rest
  <2> QED BY <2>1, <2>3
<1> HIDE DEF written, rest, whole
<1>10. /\ file' \in [bytes : Nat, good : BOOLEAN] /\ worker.pc # "file"
       /\ ~worker.same => ~file'.good
  BY <1>4, <1>7, <1>8 DEF Dead
<1>11. worker.same => file.bytes + Len(toServer) + worker.unsent <= server.size
  BY <1>1 DEF Inv, Bytes
<1>12. CASE written.bytes < server.size
  <2>1. toServer' = rest /\ UNCHANGED <<server, toWorker, closed, reset>>
    BY <1>4, <1>12
  <2>2. /\ Serving' = Serving /\ At' = At /\ ServerClosed' = ServerClosed
        /\ WorkerClosed' = WorkerClosed
    BY <1>1, <2>1 DEF Serving, At, ServerClosed, WorkerClosed
  <2>3. TypeOK'
    BY <1>1, <1>9, <1>10, <2>1 DEF Inv, TypeOK
  <2>4. Shape' /\ NotConnected' /\ Late'
    BY <1>1, <1>4, <1>12, <2>1, <2>2 DEF Inv, Shape, NotConnected, Late
  <2>5. Channel' /\ Sent'
    BY <1>1, <1>6, <1>7, <1>9, <2>1, <2>2 DEF Channel, Sent, Requested, Senders, Updates
  <2>6. InStep' /\ Answers'
    BY <1>1, <1>5, <2>1, <2>2 DEF Inv, InStep, Answers
  <2>7. Bytes'
    <3>1. worker.same => file'.bytes + Len(toServer') + worker.unsent <= server.size
      BY <1>1, <1>2, <1>3, <1>4, <1>8, <1>9, <1>11, <2>1
    <3>2. \A i \in 1 .. Len(toServer') :
             toServer'[i].cmd = "BYTE" /\ toServer'[i].good = worker.same
      BY <1>6, <1>9, <2>1
    <3> QED BY <1>1, <1>10, <2>1, <2>2, <3>1, <3>2 DEF Inv, Bytes
  <2>8. Ended' /\ Verdict' /\ Lines' /\ Download'
    BY <1>1, <2>1 DEF Inv, Ended, Verdict, Lines, Download, IsNewFile
  <2>9. Moves
    BY <1>1, <2>1, SamePhase
  <2> QED BY <2>3, <2>4, <2>5, <2>6, <2>7, <2>8, <2>9 DEF Inv
<1>13. CASE ~(written.bytes < server.size) /\ Verified(written, server.size)
  <2>1. SendsReply("verdict", rest, Notifying("verdict"))
    BY <1>4, <1>13
  <2>2. worker.same /\ file'.bytes = server.size /\ file'.good
    BY <1>4, <1>8, <1>13 DEF Verified
  <2>3. Len(rest) = 0 /\ worker.unsent = 0
    BY <1>1, <1>2, <1>3, <1>4, <1>8, <1>9, <1>11, <2>2
  <2>4. rest = <<>>
    BY <1>9, <2>3, EmptySeq
  <2>5. /\ Notifying("verdict") \in ServerLocals /\ Notifying("verdict").pc = "notify"
        /\ Notifying("verdict").stage = "verdict" /\ Notifying("verdict").size = server.size
        /\ Notifying("verdict").context = server.context
    BY <1>1, Handlers DEF Stages, Waits
  <2>6. \/ /\ server' = Notifying("verdict") /\ toServer' = <<>> /\ reset' \in BOOLEAN
           /\ UNCHANGED closed
           /\ toWorker' = IF WorkerClosed THEN <<>> ELSE <<[result |-> TRUE, to |-> "verdict"]>>
        \/ ServerCloses /\ server' = Failing(FALSE) /\ UNCHANGED toWorker
    BY <1>5, <2>1, <2>4, ReplyOrClosed
  <2>7. CASE /\ server' = Notifying("verdict") /\ toServer' = <<>> /\ reset' \in BOOLEAN
             /\ UNCHANGED closed
             /\ toWorker' = IF WorkerClosed THEN <<>> ELSE <<[result |-> TRUE, to |-> "verdict"]>>
    <3>1. Verbose /\ "notify" \notin troubles => record.lines = worker.printed
      BY <1>1 DEF Inv, Lines
    <3>2. Answering("verdict")
      BY <1>1, <1>5, <1>7, <1>10, <2>2, <2>3, <2>5, <2>7, <3>1 DEF Answering
    <3> QED BY <3>2, AnsweringKeeps
  <2>8. CASE ServerCloses /\ server' = Failing(FALSE) /\ UNCHANGED toWorker
    <3>1. KeepsArchive
      <4>1. server'.pc # "bytes"
        BY <1>1, <2>8, Handlers
      <4> QED BY <1>1, <1>10, <4>1 DEF KeepsArchive
    <3> QED BY <1>1, <2>8, <3>1, FailsOnClose, StopsKeeps
  <2> QED BY <2>6, <2>7, <2>8
<1>14. CASE ~(written.bytes < server.size) /\ ~Verified(written, server.size)
  <2>1. server' = Failing(TRUE) /\ toServer' = rest /\ UNCHANGED <<toWorker, closed, reset>>
    BY <1>4, <1>14
  <2>2. /\ server' \in ServerLocals /\ server'.pc = "fail" /\ server'.stage = server.stage
        /\ server'.size = server.size
    BY <1>1, <2>1, Handlers
  <2>3. Remembers /\ KeepsArchive /\ KeepsStage
    BY <1>1, <1>10, <2>2 DEF Remembers, KeepsArchive, KeepsStage
  <2> QED BY <1>1, <1>9, <2>1, <2>2, <2>3, StopsKeeps DEF Inv, TypeOK, Stops, ServerClosed
<1> QED BY <1>12, <1>13, <1>14

------------------------------------------------------------------------------
(* The record is changed, and nothing else is told *)

\* The handler has notified of the start, or of the end of the conversion.
LEMMA NotifyKeeps ==
  ASSUME Inv, NotifyStarted \/ NotifyConversionFinished, UNCHANGED <<download, troubles>>
  PROVE  Inv' /\ Moves
<1> DEFINE cmd  == IF server.stage = "start" THEN "JOB_STARTED" ELSE "JOB_CONVERTED"
           next == IF server.stage = "start" THEN Reading("jobs") ELSE Reading("file")
<1>1. /\ server.pc = "notify" /\ server.stage \in {"start", "end"} /\ Notifies(cmd, 0, next)
      /\ UNCHANGED <<worker, toServer, toWorker, closed, reset, registered, file, download, troubles>>
      /\ server \in ServerLocals /\ ~ServerClosed /\ Serving
  BY DEF NotifyStarted, NotifyConversionFinished, net, Inv, TypeOK, Shape, Serving
<1>2. cmd \in {"JOB_STARTED", "JOB_OUTPUT", "JOB_PROGRESS", "JOB_CONVERTED", "JOB_FINISHED",
               "JOB_FAILED"} /\ cmd # "JOB_FINISHED" /\ cmd # "JOB_FAILED"
  OBVIOUS
<1>3. /\ next \in ServerLocals /\ next.pc = "read" /\ next.size = server.size
      /\ next.context = server.context
      /\ next.stage = (IF server.stage = "start" THEN "jobs" ELSE "file")
  BY <1>1, Handlers DEF Stages, Waits
<1>4. record.state \notin {"FINISHED", "FAILED"}
  BY <1>1 DEF Inv, Ended
<1>5. /\ Recorded(cmd, 0) \in [state : {"READY", "RUNNING", "FINISHED", "FAILED"}, lines : Nat]
      /\ Recorded(cmd, 0).lines = record.lines
      /\ Recorded(cmd, 0).state \in {record.state, "RUNNING"}
  <2>1. record \in [state : {"READY", "RUNNING", "FINISHED", "FAILED"}, lines : Nat]
    BY DEF Inv, TypeOK
  <2> QED BY <2>1 DEF Recorded
<1> HIDE DEF cmd, next
<1>6. CASE server' = Failing(FALSE) /\ record' \in {record, Recorded(cmd, 0)} /\ "notify" \in troubles
  BY <1>1, <1>2, <1>6, FailsOnNotify, StopsKeeps
<1>7. CASE server' = next /\ record' \in {record, Recorded(cmd, 0)}
  <2>1. /\ record' \in [state : {"READY", "RUNNING", "FINISHED", "FAILED"}, lines : Nat]
        /\ record'.lines = record.lines /\ record'.state \in {record.state, "RUNNING"}
    BY <1>5, <1>7 DEF Inv, TypeOK
  <2>2. /\ server' \in ServerLocals /\ server'.pc = "read" /\ server'.size = server.size
        /\ server'.context = server.context
        /\ \/ server.stage = "start" /\ At = "started" /\ server'.stage = "jobs" /\ At' = "jobs"
           \/ server.stage = "end" /\ At = "end" /\ server'.stage = "file" /\ At' = "file"
    BY <1>1, <1>3, <1>7 DEF At
  <2>3. /\ ServerClosed' = ServerClosed /\ WorkerClosed' = WorkerClosed /\ WaitsFor' = WaitsFor
        /\ Serving'
    BY <1>1, <2>2 DEF ServerClosed, WorkerClosed, WaitsFor, Serving
  <2>4. TypeOK' /\ Shape' /\ NotConnected'
    BY <1>1, <2>1, <2>2, <2>3 DEF Inv, TypeOK, Shape, NotConnected
  <2>5. Channel' /\ Sent'
    BY <1>1, <2>2, <2>3 DEF Inv, Channel, Sent, Requested
  <2>6. InStep'
    <3>1. \A w : At \in Beside(w) => At' \in Beside(w)
      BY <2>2 DEF Beside
    <3> QED BY <1>1, <2>3, <3>1 DEF Inv, InStep
  <2>7. Answers'
    <3>1. \A to : server.stage \in StagesAfter(to) /\ (At = "started" => to = "start") =>
                     server'.stage \in StagesAfter(to)
      BY <2>2 DEF StagesAfter
    <3>2. At' # "started"
      BY <2>2
    <3> QED BY <1>1, <2>2, <2>3, <3>1, <3>2 DEF Inv, Answers
  <2>8. Late' /\ Bytes'
    BY <1>1, <2>2, <2>3 DEF Inv, Late, Bytes
  <2>9. Ended' /\ Verdict' /\ Download'
    BY <1>1, <1>4, <2>1, <2>2 DEF Inv, Ended, Verdict, Download, IsNewFile
  <2>10. Lines'
    BY <1>1, <2>1, <2>2, <2>3 DEF Inv, Lines, Counts
  <2>11. Moves
    <3>1. /\ phase = PhaseOf(server.stage) /\ phase' = PhaseOf(server'.stage)
          /\ outcome = "none" /\ outcome' = "none"
      BY <1>1, <1>4, <2>1, <2>2 DEF phase, outcome
    <3> QED BY <2>2, <3>1, PhaseOfStage
            DEF Moves, Session!Next, Session!Start, Session!Converted, Session!Move
  <2> QED BY <2>4, <2>5, <2>6, <2>7, <2>8, <2>9, <2>10, <2>11 DEF Inv
<1> QED BY <1>1, <1>6, <1>7 DEF Notifies

\* Lines, or progress: the request is taken, and there is no reply.
LEMMA HandleUpdateKeeps ==
  ASSUME Inv, HandleUpdate, UNCHANGED <<download, troubles>>
  PROVE  Inv' /\ Moves
<1> DEFINE head == Head(toServer)
           val  == IF head.cmd = "JOB_OUTPUT" THEN head.val ELSE 0
<1>1. /\ server.stage = "jobs" /\ ~Arrived("JOB_CONVERTED") /\ toServer' = Rest
      /\ UNCHANGED <<worker, toWorker, closed, reset, registered, file, download, troubles>>
      /\ server \in ServerLocals
  BY DEF HandleUpdate, Inv, TypeOK
<1>2. PICK cmd \in {"JOB_OUTPUT", "JOB_PROGRESS"} :
         /\ Arrived(cmd) /\ (cmd = "JOB_PROGRESS" => ~Arrived("JOB_OUTPUT"))
         /\ Notifies(cmd, IF cmd = "JOB_OUTPUT" THEN head.val ELSE 0, Reading("jobs"))
  BY DEF HandleUpdate
<1>3. /\ Serving /\ server.pc = "read" /\ ~ServerClosed /\ At = "jobs"
      /\ toWorker = <<>> /\ Len(toWorker) = 0
      /\ Len(toServer) \in Nat \ {0} /\ toServer # <<>> /\ head = toServer[1] /\ head.val \in Nat
      /\ head.cmd \in Requested("jobs") /\ CommandArgs[cmd] \subseteq CommandArgs[head.cmd]
      /\ Rest \in Seq(Requests) /\ Len(Rest) = Len(toServer) - 1
      /\ \A i \in 1 .. Len(Rest) : Rest[i] = toServer[i + 1]
  BY <1>1, <1>2, Commands, ArrivedOne DEF Arrived
<1>4. head.cmd = cmd
  <2>1. /\ "LINES" \notin CommandArgs["JOB_CONVERTED"] /\ "LINES" \notin CommandArgs["JOB_PROGRESS"]
        /\ "LINES" \in CommandArgs["JOB_OUTPUT"] /\ "PROGRESS" \in CommandArgs["JOB_PROGRESS"]
        /\ "PROGRESS" \notin CommandArgs["JOB_CONVERTED"] /\ "PROGRESS" \notin CommandArgs["JOB_OUTPUT"]
    BY DEF CommandArgs
  <2> QED BY <1>2, <1>3, <2>1 DEF Requested, Updates
<1>5. /\ val \in Nat /\ Notifies(cmd, val, Reading("jobs")) /\ val = LinesOf(head)
      /\ cmd \in {"JOB_STARTED", "JOB_OUTPUT", "JOB_PROGRESS", "JOB_CONVERTED", "JOB_FINISHED",
                  "JOB_FAILED"}
  BY <1>2, <1>3, <1>4 DEF LinesOf
<1> HIDE DEF val
<1>6. record.state \notin {"FINISHED", "FAILED"}
  BY <1>3 DEF Inv, Ended
<1>7. /\ Recorded(cmd, val) \in [state : {"READY", "RUNNING", "FINISHED", "FAILED"}, lines : Nat]
      /\ Recorded(cmd, val).lines = record.lines + val
      /\ Recorded(cmd, val).state = record.state
  <2>1. record \in [state : {"READY", "RUNNING", "FINISHED", "FAILED"}, lines : Nat] /\ record.lines \in Nat
        /\ record.lines + val \in Nat
    BY <1>5 DEF Inv, TypeOK
  <2>2. cmd = "JOB_PROGRESS" => val = 0
    BY <1>4 DEF val
  <2> QED BY <1>2, <2>1, <2>2 DEF Recorded
<1>8. CASE server' = Failing(FALSE) /\ record' \in {record, Recorded(cmd, val)} /\ "notify" \in troubles
  BY <1>1, <1>2, <1>3, <1>5, <1>8, FailsOnNotify, StopsKeeps
<1>9. CASE /\ server' = Reading("jobs") /\ record' \in {record, Recorded(cmd, val)}
           /\ "notify" \notin troubles => record' = Recorded(cmd, val)
  <2>1. /\ record' \in [state : {"READY", "RUNNING", "FINISHED", "FAILED"}, lines : Nat]
        /\ record'.state = record.state
        /\ "notify" \notin troubles => record'.lines = record.lines + val
    BY <1>7, <1>9 DEF Inv, TypeOK
  <2>2. /\ server' \in ServerLocals /\ server'.pc = "read" /\ server'.size = server.size
        /\ server'.context = server.context
        /\ server'.stage = "jobs" /\ At' = "jobs"
    BY <1>1, <1>9, Handlers DEF At, Stages
  <2>3. /\ ServerClosed' = ServerClosed /\ WorkerClosed' = WorkerClosed /\ WaitsFor' = WaitsFor
        /\ Serving'
    BY <1>1, <1>3, <2>2 DEF ServerClosed, WorkerClosed, WaitsFor, Serving
  <2>4. TypeOK' /\ Shape' /\ NotConnected'
    BY <1>1, <1>3, <2>1, <2>2, <2>3 DEF Inv, TypeOK, Shape, NotConnected
  <2>5. \A i \in 1 .. Len(Rest) : i + 1 \in 1 .. Len(toServer) /\ (i + 1 = Len(toServer) => i = Len(Rest))
    BY <1>3
  <2>6. Channel' /\ Sent' /\ InStep'
    <3>1. InStep'
      BY <1>1, <1>3, <2>2, <2>3 DEF Inv, InStep
    <3>2. \A i \in 1 .. Len(Rest) : worker.pc \in Senders(Rest[i].cmd) \cup Dead
      BY <1>3, <2>5 DEF Inv, Sent
    <3>3. \A i \in 1 .. Len(Rest) :
             /\ Rest[i].cmd \in Requested("jobs")
             /\ Rest[i].cmd \notin Updates \cup {"BYTE"} => i = Len(Rest)
      BY <1>3, <2>5 DEF Inv, Channel
    <3> QED BY <1>1, <2>2, <3>1, <3>2, <3>3 DEF Channel, Sent
  <2>7. Answers' /\ Late'
    BY <1>1, <1>3, <2>2 DEF Inv, Answers, Late
  <2>8. Bytes'
    BY <1>1, <1>3, <2>2, <2>3, <2>5 DEF Inv, Bytes
  <2>9. Ended' /\ Verdict' /\ Download'
    BY <1>1, <1>6, <2>1, <2>2 DEF Inv, Ended, Verdict, Download, IsNewFile
  <2>10. Lines'
    <3> SUFFICES ASSUME Verbose, "notify" \notin troubles
                 PROVE  Lines'
      BY <1>1 DEF Lines
    <3>1. PICK n \in [0 .. Len(toServer) -> 0 .. worker.printed] :
             /\ Counts(n, record.lines, toServer)
             /\ worker.pc # "vanished" => n[Len(toServer)] + worker.buffer = worker.printed
             /\ \A i \in 1 .. Len(toServer) : toServer[i].cmd = "JOB_CONVERTED" => n[i] = worker.printed
      BY <1>1, <1>3 DEF Inv, Lines
    <3> DEFINE m == [i \in 0 .. Len(Rest) |-> n[i + 1]]
    <3>2. \A i \in 0 .. Len(Rest) : i + 1 \in 0 .. Len(toServer) /\ m[i] = n[i + 1]
      BY <1>3
    <3>3. m \in [0 .. Len(Rest) -> 0 .. worker.printed]
      BY <3>2
    <3> HIDE DEF m
    <3>4. m[0] = record'.lines
      <4>1. n[1] = n[0] + LinesOf(toServer[1]) /\ n[0] = record.lines
        BY <1>3, <3>1 DEF Counts
      <4> QED BY <1>3, <1>5, <2>1, <3>2, <4>1
    <3>5. \A i \in 1 .. Len(Rest) : m[i] = m[i-1] + LinesOf(Rest[i])
      <4> SUFFICES ASSUME NEW i \in 1 .. Len(Rest)
                   PROVE  m[i] = m[i-1] + LinesOf(Rest[i])
        OBVIOUS
      <4>1. i \in 0 .. Len(Rest) /\ i - 1 \in 0 .. Len(Rest) /\ (i + 1) - 1 = i /\ (i - 1) + 1 = i
        BY <1>3
      <4>2. n[i + 1] = n[i] + LinesOf(toServer[i + 1])
        BY <2>5, <3>1, <4>1 DEF Counts
      <4> QED BY <1>3, <3>2, <4>1, <4>2
    <3>6. m[Len(Rest)] = n[Len(toServer)]
      BY <1>3, <3>2
    <3>7. \A i \in 1 .. Len(Rest) : Rest[i].cmd = "JOB_CONVERTED" => m[i] = worker.printed
      BY <1>3, <2>5, <3>1, <3>2
    <3>8. Counts(m, record'.lines, toServer')
      BY <1>1, <3>4, <3>5 DEF Counts
    <3>9. worker.pc = "sendEnd" => worker.buffer = 0
      BY DEF Inv, Lines
    <3> QED BY <1>1, <2>2, <3>1, <3>3, <3>6, <3>7, <3>8, <3>9 DEF Lines
  <2>11. Moves
    BY <1>1, <1>3, <2>1, <2>2, SamePhase
  <2> QED BY <2>4, <2>6, <2>7, <2>8, <2>9, <2>10, <2>11 DEF Inv
<1> QED BY <1>5, <1>8, <1>9 DEF Notifies

------------------------------------------------------------------------------
(* A download, which only looks at the file and the record *)

LEMMA DownloadKeeps ==
  ASSUME Inv, DownloadStep, UNCHANGED session, UNCHANGED troubles
  PROVE  Inv'
<1>1. UNCHANGED <<worker, server, toServer, toWorker, closed, reset, registered, record, file, troubles>>
  BY DEF session
<1>2. /\ download \in Downloads /\ download.size \in Nat /\ download.got \in Nat
      /\ download.from \in SUBSET {"earlier", "hashed", "other"} /\ file.bytes \in Nat
      /\ file.good \in BOOLEAN /\ DOWNLOAD_BUFFER \in Nat \ {0}
      /\ IsNewFile' = IsNewFile
  BY <1>1, BuffersAssumption DEF Inv, TypeOK, Downloads, IsNewFile
<1>3. record.state = "FINISHED" =>
         /\ server.stage = "verdict" /\ IsNewFile /\ file.bytes = server.size /\ file.good
  BY DEF Inv, Ended, Bytes, IsNewFile
<1>4. download' \in Downloads /\ Download'
  <2>1. CASE BeginDownload
    <3> DEFINE told == record.state = "FINISHED"
    <3>1. PICK pc \in {"reading", "broken"} :
             download' = [download EXCEPT !.pc = pc, !.size = file.bytes, !.finished = told]
      BY <2>1 DEF BeginDownload
    <3>2. told \in BOOLEAN
      OBVIOUS
    <3> HIDE DEF told
    <3>3. /\ download' \in Downloads /\ download'.pc = pc /\ download'.size = file.bytes
          /\ download'.finished = told /\ download'.from = download.from /\ download'.got = download.got
      BY <1>2, <3>1, <3>2 DEF Downloads
    <3>4. download.pc = "none" /\ (IsNewFile \/ file.bytes > 0) /\ download.from = {}
      BY <2>1 DEF BeginDownload, Inv, Download
    <3>5. told => record.state = "FINISHED"
      BY DEF told
    <3> QED BY <1>1, <1>2, <1>3, <3>3, <3>4, <3>5 DEF Inv, Download
  <2>2. CASE ReadChunk
    <3> DEFINE kind == IF ~IsNewFile THEN "earlier" ELSE IF file.good THEN "hashed" ELSE "other"
               got  == MinOf(download.got + DOWNLOAD_BUFFER, file.bytes)
               from == download.from \cup {kind}
    <3>1. /\ download' = [download EXCEPT !.got = got, !.from = from]
          /\ download.pc = "reading"
      BY <2>2 DEF ReadChunk
    <3>2. got \in Nat
      BY <1>2 DEF MinOf
    <3>3. /\ from \in SUBSET {"earlier", "hashed", "other"} /\ from # {}
          /\ ~IsNewFile => kind = "earlier"
          /\ record.state = "FINISHED" => kind = "hashed"
      BY <1>2, <1>3
    <3>4. from = download.from \cup {kind}
      OBVIOUS
    <3> HIDE DEF kind, got, from
    <3>5. /\ download' \in Downloads /\ download'.pc = "reading" /\ download'.size = download.size
          /\ download'.finished = download.finished /\ download'.from = from /\ download'.got = got
      BY <1>2, <3>1, <3>2, <3>3 DEF Downloads
    <3> QED BY <1>1, <1>2, <3>1, <3>3, <3>4, <3>5 DEF Inv, Download
  <2>3. CASE FinishDownload
    <3> DEFINE pc == IF download.got = download.size THEN "served" ELSE "broken"
    <3>1. download' = [download EXCEPT !.pc = pc] /\ download.pc = "reading"
      BY <2>3 DEF FinishDownload
    <3>2. pc \in {"served", "broken"} /\ (pc = "served" => download.got = download.size)
      OBVIOUS
    <3> HIDE DEF pc
    <3>3. /\ download' \in Downloads /\ download'.pc = pc /\ download'.size = download.size
          /\ download'.finished = download.finished /\ download'.from = download.from
          /\ download'.got = download.got
      BY <1>2, <3>1, <3>2 DEF Downloads
    <3> QED BY <1>1, <1>2, <3>1, <3>2, <3>3 DEF Inv, Download
  <2> QED BY <2>1, <2>2, <2>3 DEF DownloadStep
<1>5. /\ Serving' = Serving /\ At' = At /\ ServerClosed' = ServerClosed
      /\ WorkerClosed' = WorkerClosed /\ WaitsFor' = WaitsFor
  BY <1>1 DEF Serving, At, ServerClosed, WorkerClosed, WaitsFor
<1>6. TypeOK' /\ Shape' /\ NotConnected' /\ Late'
  BY <1>1, <1>4, <1>5 DEF Inv, TypeOK, Shape, NotConnected, Late
<1>7. Channel' /\ Sent' /\ InStep' /\ Answers'
  BY <1>1, <1>5 DEF Inv, Channel, Sent, InStep, Answers
<1>8. Bytes' /\ Ended' /\ Verdict' /\ Lines'
  BY <1>1, <1>5 DEF Inv, Bytes, Ended, Verdict, Lines
<1> QED BY <1>4, <1>6, <1>7, <1>8 DEF Inv

------------------------------------------------------------------------------
(* The theorems *)

LEMMA InvInit == Init => Inv
<1> SUFFICES ASSUME Init PROVE Inv
  OBVIOUS
<1>1. /\ worker.pc = "connect" /\ worker.buffer = 0 /\ worker.printed = 0 /\ worker.same
      /\ ~worker.success
      /\ server.pc = "none" /\ server.stage = "greeting" /\ ~server.context
      /\ toServer = <<>> /\ toWorker = <<>> /\ Len(toServer) = 0 /\ Len(toWorker) = 0 /\ closed = {}
      /\ record = [state |-> "READY", lines |-> 0]
      /\ record.state = "READY" /\ record.lines = 0
  BY EmptySeq DEF Init
<1>2. ~Serving /\ ~ServerClosed /\ ~WorkerClosed
  BY <1>1 DEF Serving, ServerClosed, WorkerClosed
<1>3. Shape /\ NotConnected /\ Channel /\ Sent /\ InStep /\ Answers /\ Late
  BY <1>1, <1>2 DEF Shape, NotConnected, Channel, Sent, InStep, Answers, Late
<1>4. Bytes /\ Ended /\ Verdict /\ Lines
  BY <1>1, <1>2 DEF Bytes, Ended, Verdict, Lines
<1>5. Download
  BY DEF Init, Download
<1> QED
  BY <1>3, <1>4, <1>5, TypeInit DEF Inv

\* A worker's step changes the phase only before the server knows of it.
LEMMA WorkerMoves ==
  ASSUME Inv, WorkerStep \/ WorkerKilled \/ WorkerVanishes
  PROVE  Moves
<1>1. worker.pc \notin Dead
  BY DEF WorkerStep, WorkerKilled, WorkerVanishes, Connect, ConnectFails, ReceiveReply, SendAuth,
         AssertionFails, StartJob, ReadLine, ReadProgress, ConverterEnds, SendConversionFinished,
         FileDoesNotExist, AnnounceFile, SendBytes, AllSent, Shutdown, WorkerLosesConnection,
         Dead, Waits
<1>2. CASE Connect
  <2>1. /\ worker.pc = "connect" /\ server.pc = "none" /\ server.stage = "greeting"
        /\ server \in ServerLocals /\ server' = [server EXCEPT !.pc = "greet"]
        /\ record' = record /\ record.state = "READY"
    BY <1>2 DEF Connect, Inv, TypeOK, NotConnected, Shape
  <2>2. server'.pc = "greet" /\ server'.stage = "greeting"
    BY <2>1 DEF ServerLocals
  <2>3. phase = "queued" /\ phase' = "connected" /\ outcome' = outcome
    BY <2>1, <2>2, PhaseOfStage DEF phase, outcome
  <2> QED BY <2>3 DEF Moves, Session!Next, Session!Connect, Session!Move
<1>3. CASE UNCHANGED <<server, record>>
  <2>1. CASE server.pc # "none"
    BY <1>3, <2>1, SamePhase
  <2>2. CASE server.pc = "none"
    <3>1. /\ phase = "queued" /\ outcome' = outcome
          /\ phase' = IF worker'.pc \in Dead THEN "lost" ELSE "queued"
      BY <1>1, <1>3, <2>2 DEF phase, outcome, Dead
    <3> QED BY <3>1 DEF Moves, Session!Next, Session!Lose, Session!Move, Session!Active
  <2> QED BY <2>1, <2>2
<1>4. Connect \/ UNCHANGED <<server, record>>
  BY DEF WorkerStep, WorkerKilled, WorkerVanishes, ConnectFails, ReceiveReply, SendAuth,
         AssertionFails, StartJob, ReadLine, ReadProgress, ConverterEnds, SendConversionFinished,
         FileDoesNotExist, AnnounceFile, SendBytes, AllSent, Shutdown, WorkerLosesConnection,
         WorkerEnds
<1> QED BY <1>2, <1>3, <1>4

LEMMA InvNext == Inv /\ [Next]_vars => Inv' /\ Moves
<1> SUFFICES ASSUME Inv, [Next]_vars PROVE Inv' /\ Moves
  OBVIOUS
<1>1. CASE UNCHANGED vars
  <2>1. UNCHANGED <<worker, server, toServer, toWorker, closed, reset, registered, record, file,
                    download, troubles>>
    BY <1>1 DEF vars, session
  <2>2. /\ Serving' = Serving /\ At' = At /\ ServerClosed' = ServerClosed
        /\ WorkerClosed' = WorkerClosed /\ WaitsFor' = WaitsFor
    BY <2>1 DEF Serving, At, ServerClosed, WorkerClosed, WaitsFor
  <2>3. TypeOK' /\ Shape' /\ NotConnected' /\ Late'
    BY <2>1, <2>2 DEF Inv, TypeOK, Shape, NotConnected, Late
  <2>4. Channel' /\ Sent' /\ InStep' /\ Answers'
    BY <2>1, <2>2 DEF Inv, Channel, Sent, InStep, Answers
  <2>5. Bytes' /\ Ended' /\ Verdict' /\ Lines' /\ Download'
    BY <2>1, <2>2 DEF Inv, Bytes, Ended, Verdict, Lines, Download, IsNewFile
  <2>6. Moves
    BY <2>1 DEF Moves, phase, outcome
  <2> QED BY <2>3, <2>4, <2>5, <2>6 DEF Inv
<1>2. CASE WorkerStep /\ UNCHANGED <<download, troubles>>
  <2>0. Moves
    BY <1>2, WorkerMoves
  <2>1. CASE Connect \/ ConnectFails
    BY <1>2, <2>0, <2>1, ConnectKeeps, ConnectFailsKeeps
  <2>2. CASE ReceiveReply
    <3>1. CASE Head(toWorker).result
      BY <1>2, <2>0, <2>2, <3>1, ReceiveKeeps DEF ReceiveReply
    <3>2. CASE ~Head(toWorker).result
      <4>1. worker.pc \notin Dead /\ WorkerEnds(Tail(toWorker))
        BY <2>2, <3>2 DEF ReceiveReply, Waits, Dead
      <4> QED BY <1>2, <2>0, <4>1, WorkerEndsKeeps
    <3> QED BY <3>1, <3>2
  <2>3. CASE \/ SendAuth \/ StartJob \/ ReadLine \/ ReadProgress \/ ConverterEnds
             \/ SendConversionFinished \/ FileDoesNotExist \/ AnnounceFile
    BY <1>2, <2>0, <2>3, SpeaksKeeps
  <2>4. CASE SendBytes \/ AllSent
    BY <1>2, <2>0, <2>4, SendBytesKeeps, AllSentKeeps
  <2>5. CASE AssertionFails \/ Shutdown \/ WorkerLosesConnection
    <3>1. worker.pc \notin Dead /\ WorkerEnds(toWorker)
      BY <2>5 DEF AssertionFails, Shutdown, WorkerLosesConnection, Dead
    <3> QED BY <1>2, <2>0, <3>1, WorkerEndsKeeps
  <2> QED BY <1>2, <2>0, <2>1, <2>2, <2>3, <2>4, <2>5 DEF WorkerStep
<1>3. CASE (WorkerKilled \/ WorkerVanishes) /\ UNCHANGED <<download, troubles>>
  <2>1. CASE WorkerKilled
    <3>1. worker.pc \notin Dead /\ WorkerEnds(toWorker)
      BY <2>1 DEF WorkerKilled, Dead
    <3> QED BY <1>3, <3>1, WorkerEndsKeeps, WorkerMoves
  <2> QED BY <1>3, <2>1, WorkerVanishesKeeps, WorkerMoves
<1>4. CASE HandlerStep /\ UNCHANGED <<download, troubles>>
  BY <1>4, SendGreetingKeeps, ReadingStops, RequestKeeps, NotifyKeeps, HandleUpdateKeeps,
     LastNotifyKeeps, HandleFileTransferKeeps, ReadBytesKeeps, SendFailureKeeps, NotifyFailureKeeps
     DEF HandlerStep
<1>5. CASE (OnClose \/ NoticeClose \/ ZombieWatcher) /\ UNCHANGED <<download, troubles>>
  BY <1>5, RegisteringKeeps, ServerClosesKeeps DEF ZombieWatcher
<1>6. CASE ServerCrashes /\ UNCHANGED troubles
  BY <1>6, ServerClosesKeeps
<1>7. CASE DownloadStep /\ UNCHANGED session /\ UNCHANGED troubles
  <2>1. Moves
    BY <1>7 DEF session, Moves, phase, outcome
  <2> QED BY <1>7, <2>1, DownloadKeeps
<1> QED
  BY <1>1, <1>2, <1>3, <1>4, <1>5, <1>6, <1>7 DEF Next, SessionStep

\* The inductive invariant: each end is where the other expects it (Shape to
\* Late), the archive holds nothing but announced bytes (Bytes), and the record
\* says what the handler did (Ended to Lines).
THEOREM Invariance == Spec => []Inv
<1>1. Init => Inv
  BY InvInit
<1>2. Inv /\ [Next]_vars => Inv'
  BY InvNext
<1> QED BY <1>1, <1>2, PTL DEF Spec

\* The variables keep their types, whatever the two ends do
\* (jobhandler.py:51-141, jobmonitortcpserver.py:96-240).
THEOREM TypeCorrect == Spec => []TypeOK
<1>1. Inv => TypeOK
  BY DEF Inv
<1> QED BY <1>1, Invariance, PTL

\* A positive reply in flight is the only one, and the one the worker waits for:
\* replies to errors come only from a handler that has stopped, and updates have
\* none (jobhandler.py:51-141, jobmonitortcpserver.py:96-219).
THEOREM NoReplyIsMistaken == Spec => []RepliesMatch
<1>1. Inv => RepliesMatch
  <2> SUFFICES ASSUME Inv PROVE RepliesMatch
    OBVIOUS
  <2>1. DOMAIN toWorker = 1 .. Len(toWorker)
    BY LenProperties DEF Inv, TypeOK
  <2> QED BY <2>1 DEF Inv, Answers, RepliesMatch
<1> QED BY <1>1, Invariance, PTL

\* Every line the converter printed is in the record, once, when the server has
\* noted the end of the conversion: for every number of lines and every buffer
\* (converterjob.py:111-118, jobmonitortcpserver.py:136-161).
THEOREM LinesArriveOnce == Spec => []NoLineIsLost
<1>1. Inv => NoLineIsLost
  BY DEF Inv, Lines, NoLineIsLost
<1> QED BY <1>1, Invariance, PTL

\* FINISHED stands for a whole archive, whose bytes are the hashed ones, for every
\* size and every size of the buffers on the way; and a worker that was told so
\* leaves a record that says it (jobmonitortcpserver.py:175-219,
\* converterjob.py:156-162).
THEOREM FinishedIsTrue == Spec => []SuccessIsRecorded
<1>1. Inv => FinishedMeansWholeFile
  BY DEF Inv, Ended, Bytes, FinishedMeansWholeFile
<1>2. Inv => VerdictIsRecorded
  <2> SUFFICES ASSUME Inv, worker.success, troubles \cap {"notify", "crash"} = {}
               PROVE  record.state = "FINISHED" \/ (server.pc = "notify" /\ server.stage = "verdict")
    BY DEF VerdictIsRecorded
  <2> QED BY DEF Inv, Verdict
<1> QED BY <1>1, <1>2, Invariance, PTL DEF SuccessIsRecorded

\* A download that was served to its end is one archive, the earlier or the
\* verified one, unless it overlapped the transfer
\* (converterwebapp.py:82-134, jobmonitortcpserver.py:201).
THEOREM DownloadsAreWhole == Spec => []DownloadIsOneArchive
<1>1. Inv => DownloadIsOneArchive
  <2> SUFFICES ASSUME Inv, download.pc = "served"
               PROVE  \/ ServedWhole
                      \/ ~download.finished /\ (download.from = {"earlier"} \/ IsNewFile)
    BY DEF DownloadIsOneArchive
  <2>1. CASE download.finished
    BY <2>1 DEF Inv, Download, ServedWhole
  <2>2. CASE ~download.finished
    <3>1. download.size \in Nat /\ download.got = download.size
      BY DEF Inv, TypeOK, Downloads, Download
    <3> QED BY <2>2, <3>1 DEF Inv, Download
  <2> QED BY <2>1, <2>2
<1> QED BY <1>1, Invariance, PTL

\* A session takes the phases ConversionSession promises to the web thread, in
\* that order: FINISHED only after the archive was verified, FAILED only after the
\* conversion had started and before that (jobmonitortcpserver.py:235-290).
THEOREM SessionImplemented == Spec => ImplementsSession
<1>1. Init => Session!Init
  <2> SUFFICES ASSUME Init PROVE Session!Init
    OBVIOUS
  <2>1. server.pc = "none" /\ worker.pc = "connect" /\ record.state = "READY"
    BY DEF Init
  <2> QED BY <2>1 DEF Session!Init, phase, outcome
<1>2. Inv /\ [Next]_vars => [Session!Next]_<<phase, outcome>>
  BY InvNext DEF Moves
<1> QED BY <1>1, <1>2, Invariance, PTL DEF Spec, ImplementsSession, Session!Spec

------------------------------------------------------------------------------
(* The two never wait for each other *)

\* A worker that waits for a reply that is not in flight has its request in
\* flight, behind all its updates.
Asked ==
    Serving /\ toWorker = <<>> /\ worker.pc \in {"auth", "start", "end", "file"} =>
        toServer # <<>> /\ toServer[Len(toServer)].cmd \notin Updates

\* Each byte of the archive that was announced is written, in flight, or still to
\* be sent; a worker that waits for the verdict has sent them all.
Accounted ==
    /\ worker.pc = "verdict" => worker.unsent = 0
    /\ Serving /\ server.stage = "transfer" /\ worker.pc \notin Dead /\ worker.same =>
          file.bytes + Len(toServer) + worker.unsent = server.size

Progress == Asked /\ Accounted

LEMMA ProgressInit == Init => Progress
BY DEF Init, Progress, Asked, Accounted, Serving, ServerClosed

\* Once the worker is gone or the handler has stopped, nobody waits for a reply.
LEMMA NoProgressNeeded ==
  ASSUME worker'.pc \in Dead \/ ~Serving', worker'.pc = "verdict" => worker'.unsent = 0
  PROVE  Progress'
BY DEF Progress, Asked, Accounted, Dead

LEMMA SpeaksProgress ==
  ASSUME Inv, Progress,
         \/ SendAuth \/ StartJob \/ ReadLine \/ ReadProgress \/ ConverterEnds
         \/ SendConversionFinished \/ FileDoesNotExist \/ AnnounceFile
  PROVE  Progress'
<1>1. TypeOK /\ Speaks
  BY WorkerSpeaks DEF Inv
<1>2. /\ worker'.pc # "verdict" /\ UNCHANGED <<server, toWorker, closed, file>>
      /\ Serving' = Serving /\ Len(toServer) \in Nat /\ toServer' \in Seq(Requests)
  BY <1>1, LenProperties DEF Speaks, TypeOK, Serving, ServerClosed
<1>3. Serving => server.stage # "transfer"
  <2> SUFFICES ASSUME Serving, server.stage = "transfer" PROVE FALSE
    OBVIOUS
  <2>1. worker.pc \in {"sendAuth", "sendStart", "convert", "sendEnd", "post"}
    BY <1>1 DEF Speaks
  <2>2. toWorker = <<>>
    BY <1>1, <2>1, NoAnswer DEF Inv, WaitsFor, Waits
  <2> QED BY <2>1, <2>2 DEF Inv, InStep, At, Beside, Dead
<1>4. Accounted'
  BY <1>2, <1>3 DEF Accounted
<1>5. Asked'
  <2> SUFFICES ASSUME Serving, worker'.pc \in {"auth", "start", "end", "file"}
               PROVE  toServer' # <<>> /\ toServer'[Len(toServer')].cmd \notin Updates
    BY <1>2 DEF Asked
  <2>1. PICK cmd \in {"AUTH", "JOB_STARTED", "JOB_CONVERTED", "JOB_FINISHED"} : Adds({cmd})
    BY <1>1 DEF Speaks
  <2>2. /\ Len(toServer') = Len(toServer) + 1
        /\ toServer'[Len(toServer) + 1].cmd = cmd
    BY <2>1 DEF Adds, Serving
  <2>3. toServer' # <<>>
    BY <1>2, <2>2, EmptySeq
  <2> QED BY <2>2, <2>3 DEF Updates
<1> QED BY <1>4, <1>5 DEF Progress

LEMMA ReceiveProgress ==
  ASSUME Inv, Progress, ReceiveReply
  PROVE  Progress'
<1>1. CASE Head(toWorker).result
  <2>1. /\ worker \in WorkerLocals /\ worker.pc \in Waits /\ worker' \in AfterReply(worker)
        /\ UNCHANGED <<server, toServer, closed, file>>
    BY <1>1 DEF ReceiveReply, Inv, TypeOK
  <2>2. /\ worker'.pc = StepAfterReply(worker.pc)
        /\ \/ worker'.same = worker.same /\ worker'.unsent = worker.unsent
           \/ ~worker'.same
    BY <2>1, AfterTheReply
  <2>3. worker'.pc \in {"sendAuth", "sendStart", "convert", "post", "send", "done"}
        /\ worker.pc \notin Dead
    BY <2>1, <2>2 DEF StepAfterReply, Waits, Dead
  <2>4. Serving' = Serving
    BY <2>1 DEF Serving, ServerClosed
  <2>5. Asked'
    BY <2>3 DEF Asked
  <2>6. Accounted'
    BY <2>1, <2>2, <2>3, <2>4 DEF Progress, Accounted
  <2> QED BY <2>5, <2>6 DEF Progress
<1>2. CASE ~Head(toWorker).result
  <2>1. worker'.pc = "ended"
    BY <1>2 DEF ReceiveReply, WorkerEnds, Inv, TypeOK, WorkerLocals
  <2> QED BY <2>1, NoProgressNeeded DEF Dead
<1> QED BY <1>1, <1>2

LEMMA SendBytesProgress ==
  ASSUME Inv, Progress, SendBytes
  PROVE  Progress'
<1> DEFINE n    == MinOf(BUFFER_SIZE, worker.unsent)
           d    == Data("BYTE", 0, worker.same)
           more == [i \in 1 .. n |-> d]
<1>1. /\ worker \in WorkerLocals /\ worker.pc = "send" /\ worker.unsent \in Nat
      /\ toServer \in Seq(Requests) /\ Len(toServer) \in Nat /\ n \in Nat
      /\ file.bytes \in Nat /\ server.size \in Nat
      /\ worker' = [worker EXCEPT !.unsent = worker.unsent - n] /\ Sends(more)
      /\ UNCHANGED <<server, file>>
  BY LenProperties, BuffersAssumption
     DEF Inv, TypeOK, WorkerLocals, ServerLocals, SendBytes, MinOf
<1>2. d \in Requests
  BY <1>1, DataType DEF WorkerLocals
<1> HIDE DEF n, d
<1>3. /\ worker'.pc = "send" /\ worker'.unsent = worker.unsent - n /\ worker'.same = worker.same
  BY <1>1 DEF WorkerLocals
<1>4. more \in Seq(Requests) /\ Len(more) = n
  <2>1. more \in [1 .. n -> Requests]
    BY <1>2
  <2>2. more \in Seq(Requests)
    BY <1>1, <2>1, SeqDef
  <2>3. DOMAIN more = 1 .. Len(more) /\ DOMAIN more = 1 .. n /\ Len(more) \in Nat
    BY <2>2, LenProperties
  <2> QED BY <1>1, <2>2, <2>3
<1> HIDE DEF more
<1>5. Serving' => Serving /\ Len(toServer') = Len(toServer) + n
  <2>1. closed' = closed /\ (~ServerClosed => toServer' = toServer \o more)
    BY <1>1 DEF Sends
  <2>2. Len(toServer \o more) = Len(toServer) + n
    BY <1>1, <1>4, ConcatProperties
  <2> QED BY <1>1, <2>1, <2>2 DEF Serving, ServerClosed
<1>6. Asked'
  BY <1>3 DEF Asked
<1>7. Accounted'
  <2> SUFFICES ASSUME Serving', server.stage = "transfer", worker.same
               PROVE  file.bytes + Len(toServer') + worker'.unsent = server.size
    BY <1>1, <1>3 DEF Accounted
  <2>1. file.bytes + Len(toServer) + worker.unsent = server.size
    BY <1>1, <1>5 DEF Progress, Accounted, Dead
  <2> QED BY <1>1, <1>3, <1>5, <2>1
<1> QED BY <1>6, <1>7 DEF Progress

\* The steps of the worker that take nothing from the channel and put nothing in.
LEMMA QuietProgress ==
  ASSUME Inv, Progress, Connect \/ ConnectFails \/ AllSent
  PROVE  Progress'
<1>1. worker \in WorkerLocals
  BY DEF Inv, TypeOK
<1>2. CASE Connect
  <2>1. worker'.pc = "greeting" /\ server'.stage = "greeting"
    BY <1>1, <1>2 DEF Connect, Inv, TypeOK, ServerLocals, WorkerLocals, NotConnected, Shape
  <2> QED BY <2>1 DEF Progress, Asked, Accounted
<1>3. CASE ConnectFails
  <2>1. worker'.pc = "hung" /\ server' = server /\ server.pc = "none" /\ closed' = closed
    BY <1>1, <1>3 DEF ConnectFails, Inv, WorkerLocals, NotConnected, net
  <2>2. ~Serving'
    BY <2>1 DEF Serving
  <2> QED BY <2>1, <2>2, NoProgressNeeded
<1>4. CASE AllSent
  <2>1. /\ worker.pc = "send" /\ worker'.pc = "verdict" /\ worker'.unsent = worker.unsent
        /\ worker.unsent = 0 /\ worker'.same = worker.same
        /\ UNCHANGED <<server, toServer, toWorker, closed, file>>
    BY <1>1, <1>4 DEF AllSent, WorkerLocals, net
  <2>2. Serving' = Serving
    BY <2>1 DEF Serving, ServerClosed
  <2> QED BY <2>1, <2>2 DEF Progress, Asked, Accounted, Dead
<1> QED BY <1>2, <1>3, <1>4

\* The worker is gone.
LEMMA GoneProgress ==
  ASSUME Inv, \/ AssertionFails \/ Shutdown \/ WorkerLosesConnection
              \/ WorkerKilled \/ WorkerVanishes
  PROVE  Progress'
<1>1. worker'.pc \in {"ended", "vanished"}
  BY DEF Inv, TypeOK, WorkerLocals, AssertionFails, Shutdown, WorkerLosesConnection, WorkerKilled,
         WorkerVanishes, WorkerEnds
<1> QED BY <1>1, NoProgressNeeded DEF Dead

\* The handler has stopped serving the worker, or the server has closed the stream.
LEMMA StoppedProgress ==
  ASSUME Inv, Progress, worker' = worker,
         \/ server'.pc \notin {"greet", "read", "notify", "bytes"}
         \/ ServerClosed'
  PROVE  Progress'
BY NoProgressNeeded DEF Progress, Accounted, Serving

\* A reply is on its way, or could not be sent; then another stage begins.
LEMMA ReplyProgress ==
  ASSUME Inv, Progress, NEW to, NEW rest, NEW next, SendsReply(to, rest, next), worker' = worker,
         next.stage # "transfer"
  PROVE  Progress'
<1>0. server \in ServerLocals /\ toWorker \in Seq(Replies)
  BY DEF Inv, TypeOK
<1>1. CASE server' = Failing(FALSE)
  BY <1>0, <1>1, Handlers, StoppedProgress
<1>2. CASE server' = next /\ WorkerClosed
  BY <1>2, NoProgressNeeded DEF Inv, Shape, Dead, Progress, Accounted
<1>3. CASE server' = next /\ toWorker' = Append(toWorker, [result |-> TRUE, to |-> to])
  <2>1. toWorker' # <<>>
    BY <1>0, <1>3
  <2> QED BY <1>3, <2>1 DEF Progress, Asked, Accounted
<1> QED BY <1>1, <1>2, <1>3 DEF SendsReply

\* The channel stays as it is while the handler notifies the listeners.
LEMMA NotifyProgress ==
  ASSUME Inv, Progress, NotifyStarted \/ NotifyConversionFinished
  PROVE  Progress'
<1>1. /\ server \in ServerLocals /\ server.pc = "notify"
      /\ UNCHANGED <<worker, toServer, toWorker, closed, file>>
      /\ server' \in {Reading("jobs"), Reading("file"), Failing(FALSE)}
  BY DEF NotifyStarted, NotifyConversionFinished, Notifies, net, Inv, TypeOK
<1>2. CASE server' = Failing(FALSE)
  BY <1>1, <1>2, Handlers, StoppedProgress
<1>3. CASE server' \in {Reading("jobs"), Reading("file")}
  <2>1. server'.stage # "transfer"
    BY <1>1, <1>3, Handlers DEF Stages, Waits
  <2>2. Serving' => Serving
    BY <1>1 DEF Serving, ServerClosed
  <2> QED BY <1>1, <2>1, <2>2 DEF Progress, Asked, Accounted
<1> QED BY <1>1, <1>2, <1>3

\* An update is never the request the worker waits for a reply to.
LEMMA UpdateProgress ==
  ASSUME Inv, Progress, HandleUpdate
  PROVE  Progress'
<1>1. /\ server.stage = "jobs" /\ toServer' = Rest /\ UNCHANGED <<worker, toWorker, closed>>
      /\ server \in ServerLocals
  BY DEF HandleUpdate, Inv, TypeOK
<1>2. PICK cmd \in {"JOB_OUTPUT", "JOB_PROGRESS"} :
         /\ Arrived(cmd)
         /\ server' \in {Reading("jobs"), Failing(FALSE)}
  BY DEF HandleUpdate, Notifies
<1>3. /\ Serving /\ toWorker = <<>> /\ Len(toServer) \in Nat \ {0} /\ Head(toServer) = toServer[1]
      /\ Head(toServer).cmd \in Requested("jobs")
      /\ CommandArgs[cmd] \subseteq CommandArgs[Head(toServer).cmd]
      /\ Rest \in Seq(Requests) /\ Len(Rest) = Len(toServer) - 1
      /\ \A i \in 1 .. Len(Rest) : Rest[i] = toServer[i + 1]
  BY <1>1, <1>2, Commands, ArrivedOne
<1>4. Head(toServer).cmd \in Updates
  <2>1. /\ "LINES" \notin CommandArgs["JOB_CONVERTED"] /\ "LINES" \in CommandArgs["JOB_OUTPUT"]
        /\ "PROGRESS" \in CommandArgs["JOB_PROGRESS"]
        /\ "PROGRESS" \notin CommandArgs["JOB_CONVERTED"]
    BY DEF CommandArgs
  <2> QED BY <1>2, <1>3, <2>1 DEF Requested, Updates
<1>5. CASE server' = Failing(FALSE)
  BY <1>1, <1>5, Handlers, StoppedProgress
<1>6. CASE server' = Reading("jobs")
  <2>1. server'.stage = "jobs"
    BY <1>1, <1>6, Handlers DEF Stages
  <2>2. ASSUME worker.pc \in {"auth", "start", "end", "file"}
        PROVE  toServer' # <<>> /\ toServer'[Len(toServer')].cmd \notin Updates
    <3>1. toServer[Len(toServer)].cmd \notin Updates
      BY <1>3, <2>2 DEF Progress, Asked
    <3>2. Len(toServer) # 1
      BY <1>3, <1>4, <3>1
    <3>3. Len(Rest) \in 1 .. Len(Rest) /\ Rest[Len(Rest)] = toServer[Len(toServer)]
      BY <1>3, <3>2
    <3>4. Rest # <<>>
      BY <1>3, <3>2, EmptySeq
    <3> QED BY <1>1, <3>1, <3>3, <3>4
  <2> QED BY <1>1, <2>1, <2>2 DEF Progress, Asked, Accounted
<1> QED BY <1>2, <1>5, <1>6

\* The archive is asked for: the worker has all of it, and nothing is in flight.
LEMMA FileTransferProgress ==
  ASSUME Inv, Progress, HandleFileTransfer
  PROVE  Progress'
<1> DEFINE size == Head(toServer).val
           next == [server EXCEPT !.pc = "bytes", !.stage = "transfer", !.size = size]
<1>1. /\ server.stage = "file" /\ Arrived("JOB_FINISHED") /\ "JOB_FINISHED" \in DOMAIN CommandArgs
      /\ server \in ServerLocals /\ worker \in WorkerLocals /\ toWorker \in Seq(Replies)
      /\ worker' = worker
  BY Commands DEF HandleFileTransfer, Inv, TypeOK
<1>2. Head(toServer).cmd = "JOB_FINISHED"
  <2>1. /\ Head(toServer).cmd \in Requested("file")
        /\ CommandArgs["JOB_FINISHED"] \subseteq CommandArgs[Head(toServer).cmd]
    BY <1>1, ArrivedOne
  <2>2. "SIZE" \in CommandArgs["JOB_FINISHED"] /\ "SIZE" \notin CommandArgs["JOB_FAILED"]
    BY DEF CommandArgs
  <2> QED BY <2>1, <2>2 DEF Requested
<1>3. /\ Serving /\ Len(toServer) = 1 /\ Rest = <<>> /\ toServer[1] = Head(toServer) /\ size \in Nat
      /\ worker.pc \in Senders("JOB_FINISHED") \cup Dead
  <2>1. "JOB_FINISHED" \notin Updates \cup {"BYTE"}
    BY DEF Updates
  <2> QED BY <1>1, <1>2, <2>1, ArrivedOne
<1>4. size = worker.unsent
  BY <1>2, <1>3 DEF Inv, Bytes
<1>5. worker.pc \in Dead \/ worker.pc = "file"
  BY <1>3 DEF Senders, Updates
<1>6. CASE server' = Failing(TRUE) \/ server' = Failing(FALSE)
  BY <1>1, <1>6, Handlers, StoppedProgress
<1>7. CASE /\ size # 0 /\ server' = next /\ toServer' = Rest
           /\ toWorker' = IF WorkerClosed THEN toWorker
                          ELSE Append(toWorker, [result |-> TRUE, to |-> "file"])
           /\ file' = IF server'.pc = "bytes" THEN [bytes |-> 0, good |-> TRUE] ELSE file
  <2>1. server'.pc = "bytes" /\ server'.size = size
    BY <1>1, <1>7 DEF ServerLocals
  <2>2. file'.bytes = 0 /\ Len(toServer') = 0
    BY <1>3, <1>7, <2>1, EmptySeq
  <2>3. CASE worker.pc \in Dead
    BY <1>1, <2>3, NoProgressNeeded DEF Dead
  <2>4. CASE worker.pc = "file"
    <3>1. toWorker' # <<>>
      BY <1>1, <1>7, <2>4 DEF Inv, Shape
    <3>2. Asked'
      BY <3>1 DEF Asked
    <3> HIDE DEF size
    <3>3. Accounted'
      BY <1>1, <1>3, <1>4, <2>1, <2>2, <2>4 DEF Accounted
    <3> QED BY <3>2, <3>3 DEF Progress
  <2> QED BY <1>5, <2>3, <2>4
<1> QED BY <1>6, <1>7 DEF HandleFileTransfer, SendsReply

\* What is written is no more in flight.
LEMMA ReadBytesProgress ==
  ASSUME Inv, Progress, ReadBytes
  PROVE  Progress'
<1> DEFINE n       == BufferSize(server.size - file.bytes)
           rest    == SubSeq(toServer, n + 1, Len(toServer))
           written == [bytes |-> file.bytes + n,
                       good  |-> file.good /\ \A i \in 1 .. n : toServer[i].good]
<1>1. /\ server.pc = "bytes" /\ server.stage = "transfer" /\ Serving
      /\ server.size \in Nat /\ file.bytes \in Nat /\ worker.unsent \in Nat
      /\ server \in ServerLocals /\ toServer \in Seq(Requests) /\ Len(toServer) \in Nat
      /\ worker' = worker /\ toWorker \in Seq(Replies)
  BY LenProperties DEF ReadBytes, Inv, TypeOK, Shape, Serving, ServerLocals, WorkerLocals
<1>2. n \in Nat /\ n <= Len(toServer)
  <2>1. server.size - file.bytes \in Nat /\ MaxInputBuffer \in Nat
    BY <1>1, BuffersAssumption DEF Inv, Shape
  <2>2. Len(toServer) >= n
    BY DEF ReadBytes, EnoughBytes
  <2>3. n \in Nat
    BY <2>1 DEF BufferSize, MinOf
  <2> HIDE DEF n
  <2> QED BY <1>1, <2>2, <2>3
<1>3. /\ file' = written
      /\ IF written.bytes < server.size
         THEN toServer' = rest /\ UNCHANGED <<server, toWorker, closed, reset>>
         ELSE IF Verified(written, server.size)
         THEN SendsReply("verdict", rest, Notifying("verdict"))
         ELSE server' = Failing(TRUE) /\ toServer' = rest /\ UNCHANGED <<toWorker, closed, reset>>
  BY DEF ReadBytes
<1>4. written.bytes = file.bytes + n
  OBVIOUS
<1> HIDE DEF n, written
<1>5. CASE toServer' = rest /\ UNCHANGED <<server, toWorker, closed>>
  <2>1. Len(toServer') = Len(toServer) - n
    BY <1>1, <1>2, <1>5, SubSeqProperties
  <2>2. Serving' = Serving
    BY <1>5 DEF Serving, ServerClosed
  <2>3. worker.pc \notin {"auth", "start", "end", "file"} \/ toWorker # <<>>
    <3> SUFFICES ASSUME worker.pc \in {"auth", "start", "end", "file"}, toWorker = <<>> PROVE FALSE
      OBVIOUS
    <3> QED BY <1>1 DEF Inv, InStep, At, Beside, Dead
  <2>4. Asked'
    BY <1>1, <1>5, <2>3 DEF Asked
  <2>5. Accounted'
    <3> SUFFICES ASSUME worker.pc \notin Dead, worker.same
                 PROVE  file'.bytes + Len(toServer') + worker.unsent = server.size
      BY <1>1, <1>5 DEF Progress, Accounted
    <3>1. file.bytes + Len(toServer) + worker.unsent = server.size
      BY <1>1 DEF Progress, Accounted
    <3> QED BY <1>1, <1>2, <1>3, <1>4, <2>1, <3>1
  <2> QED BY <2>4, <2>5 DEF Progress
<1>6. CASE SendsReply("verdict", rest, Notifying("verdict"))
  <2>1. Notifying("verdict").stage # "transfer"
    BY <1>1, Handlers DEF Stages, Waits
  <2> QED BY <1>1, <1>6, <2>1, ReplyProgress
<1>7. CASE server' = Failing(TRUE)
  BY <1>1, <1>7, Handlers, StoppedProgress
<1> QED BY <1>3, <1>5, <1>6, <1>7

LEMMA HandlerProgress ==
  ASSUME Inv, Progress, HandlerStep
  PROVE  Progress'
<1>0. server \in ServerLocals
  BY DEF Inv, TypeOK
<1>1. CASE SendGreeting
  <2>1. Reading("auth").stage # "transfer" /\ SendsReply("greeting", toServer, Reading("auth"))
        /\ worker' = worker
    BY <1>0, <1>1, Handlers DEF SendGreeting, Stages, Waits
  <2> QED BY <2>1, ReplyProgress
<1>2. CASE HandleAuthentication \/ HandleJobStarted \/ HandleConversionFinished
  <2>1. /\ \/ SendsReply("auth", Rest, Reading("start"))
           \/ SendsReply("start", Rest, Notifying("start"))
           \/ SendsReply("end", Rest, Notifying("end"))
           \/ server' \in {Failing(FALSE), [Failing(TRUE) EXCEPT !.stage = "end"]}
        /\ worker' = worker
    BY <1>2 DEF HandleAuthentication, HandleJobStarted, HandleConversionFinished
  <2>2. /\ Reading("start").stage # "transfer" /\ Notifying("start").stage # "transfer"
        /\ Notifying("end").stage # "transfer"
    BY <1>0, Handlers DEF Stages, Waits
  <2>3. CASE server' \in {Failing(FALSE), [Failing(TRUE) EXCEPT !.stage = "end"]}
    <3>1. server'.pc = "fail"
      BY <1>0, <2>3 DEF Failing, ServerLocals
    <3> QED BY <2>1, <3>1, StoppedProgress
  <2> QED BY <2>1, <2>2, <2>3, ReplyProgress
<1>3. CASE InvalidData \/ ReadFails \/ HandleJobFailed \/ NotifyFinished
  <2>1. server' \in {Failing(FALSE), Over} /\ worker' = worker
    BY <1>3 DEF InvalidData, ReadFails, HandleJobFailed, NotifyFinished, Notifies
  <2>2. server'.pc \in {"fail", "over"}
    BY <1>0, <2>1, Handlers
  <2> QED BY <2>1, <2>2, StoppedProgress
<1>4. CASE SendFailure \/ NotifyFailure
  <2>1. server' \in {[server EXCEPT !.pc = "failNotify"], Over} /\ worker' = worker
    BY <1>4 DEF SendFailure, NotifyFailure
  <2>2. server'.pc \in {"failNotify", "over"}
    BY <1>0, <2>1 DEF Over, ServerLocals
  <2> QED BY <2>1, <2>2, StoppedProgress
<1> QED
  BY <1>1, <1>2, <1>3, <1>4, NotifyProgress, UpdateProgress, FileTransferProgress, ReadBytesProgress
     DEF HandlerStep

LEMMA ProgressNext == Inv /\ Progress /\ [Next]_vars => Progress'
<1> SUFFICES ASSUME Inv, Progress, [Next]_vars PROVE Progress'
  OBVIOUS
<1>1. CASE UNCHANGED session
  BY <1>1 DEF session, Progress, Asked, Accounted, Serving, ServerClosed
<1>2. CASE WorkerStep \/ WorkerKilled \/ WorkerVanishes
  BY <1>2, SpeaksProgress, ReceiveProgress, SendBytesProgress, QuietProgress, GoneProgress
     DEF WorkerStep
<1>3. CASE HandlerStep
  BY <1>3, HandlerProgress
<1>4. CASE OnClose \/ CollectClosed
  <2>1. ServerClosed' /\ worker' = worker
    BY <1>4 DEF OnClose, CollectClosed, ServerClosed, net
  <2> QED BY <2>1, StoppedProgress
<1>5. CASE NoticeClose \/ CloseZombie \/ ServerCrashes
  <2>1. ServerCloses /\ worker' = worker
    BY <1>5 DEF NoticeClose, CloseZombie, ServerCrashes
  <2> QED BY <2>1, Closing, StoppedProgress
<1> QED
  BY <1>1, <1>2, <1>3, <1>4, <1>5 DEF Next, SessionStep, ZombieWatcher, vars

\* The worker can send when the server has taken all there was.
LEMMA WaitingWorker ==
  ASSUME Inv, ~WorkerCanGo, CanWrite, worker.pc \notin Dead \cup {"hung"}
  PROVE  worker.pc \in Waits /\ toWorker = <<>>
BY DEF Inv, TypeOK, WorkerLocals, WorkerSteps, WorkerCanGo, Dead

LEMMA WaitsForNothing ==
  ASSUME Inv, Progress
  PROVE  NobodyWaitsForever
<1> SUFFICES ASSUME ~WorkerCanGo, ~HandlerCanGo, worker.pc \notin {"vanished", "hung"},
                    ~(worker.pc = "ended" /\ server.pc \in {"none", "over"}),
                    ~(server.pc = "over" /\ ~ServerClosed),
                    ~(worker.pc = "verdict" /\ server.pc = "bytes" /\ ~worker.same)
             PROVE  FALSE
  BY DEF NobodyWaitsForever
<1>1. /\ server.pc \in {"none", "over", "read", "bytes"}
      /\ toServer \in Seq(Requests) /\ Len(toServer) \in Nat
      /\ worker.same \in BOOLEAN /\ Window \in Nat \ {0} /\ MaxInputBuffer \in Nat \ {0}
      /\ server.size \in Nat /\ file.bytes \in Nat /\ closed \subseteq {"worker", "server"}
  BY LenProperties, BuffersAssumption
     DEF Inv, TypeOK, ServerLocals, WorkerLocals, HandlerCanGo
<1>2. CASE server.pc = "none"
  BY <1>2 DEF Inv, NotConnected, Dead, WorkerCanGo
<1>3. CASE server.pc = "over"
  BY <1>3 DEF WorkerCanGo
<1>4. CASE server.pc \in {"read", "bytes"}
  <2>1. closed = {} /\ Serving /\ worker.pc \notin Dead
    BY <1>4 DEF HandlerCanGo, Inv, Shape, Serving, ServerClosed, WorkerClosed, Dead
  <2>2. CanWrite
    <3>1. toServer = <<>> => Len(toServer) < Window
      BY <1>1, EmptySeq
    <3> QED BY <1>4, <3>1 DEF HandlerCanGo, CanWrite
  <2>3. worker.pc \in Waits /\ toWorker = <<>>
    BY <2>1, <2>2, WaitingWorker
  <2>4. At \in Beside(worker.pc) /\ At = server.stage
    BY <1>4, <2>1, <2>3 DEF Inv, InStep, At
  <2>5. CASE server.pc = "read"
    <3>1. server.stage \in {"auth", "start", "jobs", "file"}
      BY <2>5 DEF Inv, Shape
    <3>2. worker.pc \in {"auth", "start", "end", "file"}
      BY <2>3, <2>4, <3>1 DEF Beside, Waits
    <3>3. toServer # <<>>
      BY <2>1, <2>3, <3>2 DEF Progress, Asked
    <3> QED BY <2>5, <3>3 DEF HandlerCanGo
  <2>6. CASE server.pc = "bytes"
    <3>1. server.stage = "transfer" /\ file.bytes < server.size
      BY <2>6 DEF Inv, Shape
    <3>2. worker.pc = "verdict" /\ worker.same
      BY <1>1, <2>3, <2>4, <2>6, <3>1 DEF Beside, Waits
    <3>3. file.bytes + Len(toServer) + 0 = server.size
      BY <2>1, <3>1, <3>2 DEF Progress, Accounted
    <3>4. Len(toServer) = server.size - file.bytes /\ server.size - file.bytes \in Nat
      BY <1>1, <3>1, <3>3
    <3>5. EnoughBytes
      BY <1>1, <3>4 DEF EnoughBytes, BufferSize, MinOf
    <3> QED BY <2>6, <3>5 DEF HandlerCanGo
  <2> QED BY <1>4, <2>5, <2>6
<1> QED BY <1>1, <1>2, <1>3, <1>4

\* For every archive, every buffer and every capacity of the connection, and
\* whatever goes wrong: when neither end can go on, the session is over, or it is
\* one of the cases the code leaves to its timeouts (jobhandler.py:51-141,
\* jobmonitortcpserver.py:96-233).
THEOREM NeverWaitForEachOther == Spec => []NobodyWaitsForever
<1>1. Init => Progress
  BY ProgressInit
<1>2. Inv /\ Progress /\ [Next]_vars => Progress'
  BY ProgressNext
<1>3. Inv /\ Progress => NobodyWaitsForever
  BY WaitsForNothing
<1> QED BY <1>1, <1>2, <1>3, Invariance, PTL DEF Spec
=============================================================================
