---------------------------- MODULE ProjectInfoCache ----------------------------
(***************************************************************************)
(* The details of one project, as the web application answers requests for *)
(* them: an answer is kept for half an hour; requests that come while it   *)
(* is being fetched share the fetch; the meta data that most of it is made *)
(* of have a cache of an hour of their own.                                *)
(* All handlers run on one IO loop: a request is interrupted only where it *)
(* waits for its fetch.  Time is counted in half hours.                    *)
(***************************************************************************)
EXTENDS Integers, FiniteSets

CONSTANTS Requests, \* the requests TLC makes, each once
          MaxTime,  \* bound: half hours
          MaxFetches \* bound: fetches

ASSUME BoundsAssumption == MaxTime \in Nat /\ MaxFetches \in Nat

VARIABLES now,        \* the time
          doc,        \* what Scratch knows of the project now
          request,    \* per request: "new", "waiting", "answered" or, when its handler raised an exception, "failed"
          shares,     \* per request: the fetch it waits for
          fetches,    \* the fetches so far: [result, at]
          inProgress, \* IN_PROGRESS_FUTURE_MAP: the fetch that is shared, or 0
          cache,      \* RESPONSE_CACHE: an answer and how long it is valid
          meta,       \* _projectMetaData: [doc, at]
          failure     \* when meta data could not be downloaded last

vars == <<now, doc, request, shares, fetches, inProgress, cache, meta, failure>>

Docs    == {"complete", "noTitle", "noStats", "gone"}
Results == {"pending", "notFound", "nothing", "page"}
Kinds   == {"details", "private", "notFound", "unknown"}
Never   == -9

ValidFor     == 1 \* CACHE_ENTRY_VALID_FOR: half an hour
MetaValidFor == 2 \* one hour

\* What is kept of an answer: what it says and when its parts were downloaded.
Data(kind, title, stats, tree) == [kind |-> kind, title |-> title, stats |-> stats, tree |-> tree]
Plain(kind) == Data(kind, Never, Never, Never)
NoMeta == [doc |-> "gone", at |-> Never]

Init ==
  /\ now = 0 /\ doc \in Docs
  /\ request = [r \in Requests |-> "new"] /\ shares = [r \in Requests |-> 0]
  /\ fetches = [f \in 1..MaxFetches |-> [result |-> "none", at |-> Never]]
  /\ inProgress = 0
  /\ cache = [data |-> Plain("unknown"), until |-> Never]
  /\ meta = NoMeta /\ failure = Never

Made    == {f \in 1..MaxFetches : fetches[f].result # "none"}
Pending == {f \in Made : fetches[f].result = "pending"}
Resumable(r) == request[r] = "waiting" /\ shares[r] \in Made \ Pending

-------------------------------------------------------------------------------
\* getMetaDataEntry: what a read leaves in the cache, and whether it brings anything.  Data older than an hour are
\* asked for again; without an answer the old ones are used, unless the server's answer was an error.

\* Mutant: meta data are valid for as long as an answer is.
Usable_Half(m) == m # NoMeta /\ m.at + ValidFor >= now

Usable(m) == m # NoMeta /\ m.at + MetaValidFor >= now

Read(m) ==
  IF Usable(m) THEN {[meta |-> m, ok |-> TRUE]}
  ELSE {[meta |-> m, ok |-> FALSE], [meta |-> m, ok |-> m # NoMeta]}
         \union (IF doc = "gone" THEN {} ELSE {[meta |-> [doc |-> doc, at |-> now], ok |-> TRUE]})

\* meta' and failure' after some reads that ended with a read.
AfterReads(m) == meta' = m /\ failure' = IF Usable(m) THEN failure ELSE now

Leave(r, how) == request' = [request EXCEPT ![r] = how] /\ shares' = [shares EXCEPT ![r] = 0]
Answered(r)   == Leave(r, "answered")

\* Mutant: an answer is used for half an hour longer than it is valid.
CacheHit_Late == now <= cache.until + ValidFor

CacheHit == now <= cache.until

Cached(a) == cache' = [data |-> a, until |-> now + ValidFor]

Forget == inProgress' = 0

-------------------------------------------------------------------------------
\* Mutant: after an error other than 404 the handler yields the same futures again.
FetchFailed_Again(r, f) ==
  /\ fetches[f].result # "page"
  /\ IF fetches[f].result = "notFound"
     THEN Cached(Plain("notFound")) /\ Answered(r)
     ELSE UNCHANGED <<cache, request, shares>>
  /\ Forget /\ UNCHANGED <<meta, failure>>

\* The rest of the handler, once its fetch has a result: some failure of the fetch, ...
FetchFailed(r, f) ==
  /\ fetches[f].result # "page"
  /\ IF fetches[f].result = "notFound"
     THEN Cached(Plain("notFound")) /\ Answered(r)
     ELSE UNCHANGED cache /\ Answered(r)
  /\ Forget /\ UNCHANGED <<meta, failure>>

\* ... a project that is not public, as far as the meta data tell, ...
NotPublic(r, f) ==
  /\ fetches[f].result = "page"
  /\ \E v \in Read(meta) : ~v.ok /\ AfterReads(v.meta)
  /\ Cached(Plain("private")) /\ Answered(r) /\ Forget

\* extract_project_details reads the entries of the meta data one after the other: the title or the owner first.
TitleRead == UNION {Read(v.meta) : v \in {w \in Read(meta) : w.ok}}
HasTitle(t) == t.ok /\ t.meta.doc # "noTitle"

\* ... one without title or owner, whose answer is not kept, ...
NoTitle(r, f) ==
  /\ fetches[f].result = "page"
  /\ \E t \in TitleRead : ~HasTitle(t) /\ AfterReads(t.meta)
  /\ Answered(r) /\ Forget /\ UNCHANGED cache

\* ... one without statistics, which nothing expects: the request is answered by Tornado, and the fetch stays shared, ...
StatsMissing(r, f) ==
  /\ fetches[f].result = "page"
  /\ \E t \in {u \in TitleRead : HasTitle(u)} : \E s \in Read(t.meta) :
       ~(s.ok /\ s.meta.doc # "noStats") /\ AfterReads(s.meta)
  /\ Leave(r, "failed") /\ UNCHANGED <<cache, inProgress>>

\* ... or details.
Details(r, f) ==
  /\ fetches[f].result = "page"
  /\ \E t \in {u \in TitleRead : HasTitle(u)} : \E s \in Read(t.meta) :
       LET a == Data("details", t.meta.at, s.meta.at, fetches[f].at) IN
         s.ok /\ s.meta.doc # "noStats" /\ AfterReads(s.meta) /\ Cached(a) /\ Answered(r)
  /\ Forget

GoOn(r, f) == FetchFailed(r, f) \/ NotPublic(r, f) \/ NoTitle(r, f) \/ StatsMissing(r, f) \/ Details(r, f)

-------------------------------------------------------------------------------
\* A request is answered from the cache, ...
AnswerFromCache(r) ==
  /\ request[r] = "new" /\ CacheHit
  /\ Answered(r)
  /\ UNCHANGED <<now, doc, fetches, inProgress, cache, meta, failure>>

\* ... or begins a fetch, ...
BeginFetch(r) ==
  /\ request[r] = "new" /\ ~CacheHit /\ inProgress = 0
  /\ Cardinality(Made) < MaxFetches
  /\ LET f == Cardinality(Made) + 1 IN
       /\ fetches' = [fetches EXCEPT ![f] = [result |-> "pending", at |-> Never]]
       /\ inProgress' = f /\ shares' = [shares EXCEPT ![r] = f]
  /\ request' = [request EXCEPT ![r] = "waiting"]
  /\ UNCHANGED <<now, doc, cache, meta, failure>>

\* Mutant: a request that shares a fetch takes it out of the map.
ShareFetch_Takes(r) ==
  /\ request[r] = "new" /\ ~CacheHit /\ inProgress \in Pending
  /\ request' = [request EXCEPT ![r] = "waiting"] /\ shares' = [shares EXCEPT ![r] = inProgress]
  /\ Forget
  /\ UNCHANGED <<now, doc, fetches, cache, meta, failure>>

\* ... or shares one that is going on, ...
ShareFetch(r) ==
  /\ request[r] = "new" /\ ~CacheHit /\ inProgress \in Pending
  /\ request' = [request EXCEPT ![r] = "waiting"] /\ shares' = [shares EXCEPT ![r] = inProgress]
  /\ UNCHANGED <<now, doc, fetches, inProgress, cache, meta, failure>>

\* ... or one that has ended and is still there, which does not make it wait.
ShareOldFetch(r) ==
  /\ request[r] = "new" /\ ~CacheHit /\ inProgress \in Made \ Pending
  /\ GoOn(r, inProgress)
  /\ UNCHANGED <<now, doc, fetches>>

\* The two responses of a fetch have come, or have not in time.
Respond(f) ==
  /\ f \in Pending
  /\ \E result \in Results \ {"pending"} :
       fetches' = [fetches EXCEPT ![f] = [result |-> result, at |-> IF result = "page" THEN now ELSE Never]]
  /\ UNCHANGED <<now, doc, request, shares, inProgress, cache, meta, failure>>

\* The requests of a fetch go on one after the other, and others may come in between.
Resume(r) ==
  /\ Resumable(r)
  /\ GoOn(r, shares[r])
  /\ UNCHANGED <<now, doc, fetches>>

\* Half an hour passes, and the project may be another one.  The IO loop does not leave a callback waiting so long.
Tick ==
  /\ now < MaxTime /\ \A r \in Requests : ~Resumable(r)
  /\ now' = now + 1 /\ doc' \in Docs
  /\ UNCHANGED <<request, shares, fetches, inProgress, cache, meta, failure>>

Ended == now = MaxTime /\ UNCHANGED vars

Next ==
  \/ \E r \in Requests : AnswerFromCache(r) \/ BeginFetch(r) \/ ShareFetch(r) \/ ShareOldFetch(r) \/ Resume(r)
  \/ \E f \in Made : Respond(f)
  \/ Tick \/ Ended

\* The client's requests time out, and the IO loop calls every callback.
Fairness == WF_vars(\E f \in Made : Respond(f)) /\ WF_vars(\E r \in Requests : Resume(r))
Spec == Init /\ [][Next]_vars /\ Fairness

-------------------------------------------------------------------------------
\* Type correctness.
Times    == {Never} \union 0..MaxTime
DataType == [kind : Kinds, title : Times, stats : Times, tree : Times]
TypeOK ==
  /\ now \in 0..MaxTime /\ doc \in Docs
  /\ request \in [Requests -> {"new", "waiting", "answered", "failed"}] /\ shares \in [Requests -> {0} \union Made]
  /\ fetches \in [1..MaxFetches -> [result : Results \union {"none"}, at : Times]]
  /\ inProgress \in {0} \union Made
  /\ cache \in [data : DataType, until : {Never} \union 0..(MaxTime + ValidFor)]
  /\ meta \in [doc : Docs, at : Times] /\ failure \in Times

SomeFailed == \E r \in Requests : request[r] = "failed"

\* The details that a request is answered from the cache.
Served == CacheHit /\ cache.data.kind = "details"

\* Details that are answered are no older than the hour meta data are kept and the half hour an answer is kept
\* together, unless newer ones could not be downloaded when the answer was made; then there is no bound.
StatsAreRecent ==
  Served /\ now - cache.data.stats > MetaValidFor + ValidFor => failure >= now - ValidFor

\* The remixes that are answered were fetched in the last half hour, unless a project without statistics has made a
\* handler fail: what it had fetched is used again by the requests after it.
RemixesAreRecent == Served /\ now - cache.data.tree > ValidFor => SomeFailed
DetailsAreRecent == StatsAreRecent /\ RemixesAreRecent

\* The title and the statistics that are answered together were downloaded together, unless the title's data had
\* expired and only the second of two attempts to replace them succeeded.
OneVersion ==
  Served /\ cache.data.title # cache.data.stats => cache.data.stats - cache.data.title > MetaValidFor

\* Only a request that shared an earlier fetch takes a fetch that is going on out of the map, after which the same
\* project is fetched twice at a time.
OnlySharersForget ==
  [][(inProgress \in Pending /\ inProgress' # inProgress) =>
       \E r \in Requests : request[r] = "waiting" /\ request'[r] # "waiting" /\ shares[r] < inProgress]_vars

\* Every request is answered: when no more come, nobody waits any longer.
Waiting == {r \in Requests : request[r] = "waiting"}
EveryRequestIsAnswered == Waiting # {} ~> Waiting = {}
================================================================================
