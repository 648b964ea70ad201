------------------------- MODULE ProjectInfoCache_proofs -------------------------
(***************************************************************************)
(* Proofs about ProjectInfoCache, for any requests and any bounds.  What   *)
(* an answer from the cache may be depends on when it was made: the        *)
(* invariant dates every answer by the time until which it is valid, and   *)
(* ties the fetch that is shared to a request that still waits for it.     *)
(***************************************************************************)
EXTENDS ProjectInfoCache, FiniteSetTheorems, TLAPS

-------------------------------------------------------------------------------
(* The invariant *)

\* Meta data that have been downloaded.
Downloaded == [doc : Docs \ {"gone"}, at : 0..now]
Metas      == {NoMeta} \union Downloaded

\* Nothing comes from the future.
NotAhead == meta \in Metas /\ failure <= now /\ cache.until <= now + ValidFor

\* When the answer that is kept was made.
MadeAt == cache.until - ValidFor

\* Details were made of meta data that were valid then, or could not be replaced; of a title and of statistics that
\* belong together; and of a fetch that had just ended, unless a handler has failed.
Answer ==
  cache.data.kind = "details" =>
    /\ cache.data.title # cache.data.stats => cache.data.stats - cache.data.title > MetaValidFor
    /\ cache.data.stats + MetaValidFor >= MadeAt \/ failure >= MadeAt
    /\ cache.data.tree = MadeAt \/ SomeFailed

\* Fetches are numbered as they begin, and the one that is shared is the last.
Numbered == \E n \in 0..MaxFetches : Made = 1..n /\ inProgress \in {0, n}

\* A request shares a fetch exactly while it waits.  The fetch that is shared has a request that waits for it, unless a
\* handler has failed, and no request waits for a fetch that ended before.
Shared ==
  /\ \A r \in Requests : request[r] = "waiting" <=> shares[r] # 0
  /\ inProgress # 0 /\ ~SomeFailed => \E r \in Requests : shares[r] = inProgress
  /\ \A r \in Requests : Resumable(r) /\ fetches[shares[r]].result = "page" => fetches[shares[r]].at = now

Inv == TypeOK /\ NotAhead /\ Answer /\ Numbered /\ Shared

-------------------------------------------------------------------------------
(* The handler *)

\* A read brings what was there, or what Scratch has now; what is usable is not replaced.
LEMMA Reads ==
  ASSUME now \in Nat, doc \in Docs, NEW m \in Metas, NEW v \in Read(m)
  PROVE  /\ v.meta \in Metas
         /\ v.ok => v.meta \in Downloaded
         /\ v.meta = m \/ v.meta.at = now
         /\ Usable(m) => v.meta = m
<1>1. CASE Usable(m)
  <2>1. v = [meta |-> m, ok |-> TRUE]
    BY <1>1 DEF Read
  <2>2. m # NoMeta
    BY <1>1 DEF Usable
  <2> QED BY <2>1, <2>2 DEF Metas
<1>2. CASE ~Usable(m)
  <2>1. \/ v = [meta |-> m, ok |-> FALSE]
        \/ v = [meta |-> m, ok |-> m # NoMeta]
        \/ doc # "gone" /\ v = [meta |-> [doc |-> doc, at |-> now], ok |-> TRUE]
    BY <1>2 DEF Read
  <2>2. doc # "gone" => [doc |-> doc, at |-> now] \in Downloaded
    BY DEF Downloaded
  <2>3. CASE v = [meta |-> m, ok |-> FALSE]
    BY <1>2, <2>3
  <2>4. CASE v = [meta |-> m, ok |-> m # NoMeta]
    <3>1. v.meta = m /\ (v.ok <=> m # NoMeta)
      BY <2>4
    <3> QED BY <1>2, <3>1 DEF Metas
  <2>5. CASE doc # "gone" /\ v = [meta |-> [doc |-> doc, at |-> now], ok |-> TRUE]
    BY <1>2, <2>2, <2>5 DEF Metas
  <2> QED BY <2>1, <2>3, <2>4, <2>5
<1> QED BY <1>1, <1>2

\* What the rest of a handler does to the answers, the fetch that is shared and the request.  An answer that it keeps is
\* made now; when it is details, of meta data read one after the other and of its fetch.
LEMMA GoingOn ==
  ASSUME TypeOK, NotAhead, NEW r \in Requests, NEW f \in Made, GoOn(r, f)
  PROVE  /\ shares' = [shares EXCEPT ![r] = 0]
         /\ \/ request' = [request EXCEPT ![r] = "answered"] /\ inProgress' = 0
            \/ request' = [request EXCEPT ![r] = "failed"] /\ inProgress' = inProgress
         /\ meta' \in Metas /\ failure' \in {failure, now}
         /\ \/ cache' = cache
            \/ \E a \in DataType :
                 /\ cache' = [data |-> a, until |-> now + ValidFor]
                 /\ a.kind = "details" =>
                      /\ fetches[f].result = "page" /\ a.tree = fetches[f].at
                      /\ a.title # a.stats => a.stats - a.title > MetaValidFor
                      /\ a.stats + MetaValidFor >= now \/ failure' = now
<1>1. now \in Nat /\ doc \in Docs /\ meta \in Metas
  BY BoundsAssumption DEF TypeOK, NotAhead
<1>2. \A k \in Kinds : Plain(k) \in DataType /\ Plain(k).kind = k
  BY DEF Plain, Data, DataType, Times
<1>3. CASE FetchFailed(r, f)
  <2>1. Plain("notFound") \in DataType /\ Plain("notFound").kind # "details"
    BY <1>2 DEF Kinds
  <2> QED BY <1>1, <1>3, <2>1 DEF FetchFailed, Cached, Answered, Leave, Forget
<1>4. CASE NotPublic(r, f)
  <2>1. PICK v \in Read(meta) : ~v.ok /\ AfterReads(v.meta)
    BY <1>4 DEF NotPublic
  <2>2. meta' \in Metas /\ failure' \in {failure, now}
    BY <1>1, <2>1, Reads DEF AfterReads
  <2>3. Plain("private") \in DataType /\ Plain("private").kind # "details"
    BY <1>2 DEF Kinds
  <2> QED BY <1>4, <2>2, <2>3 DEF NotPublic, Cached, Answered, Leave, Forget
<1>5. \A t \in TitleRead : t.meta \in Metas
  BY <1>1, Reads DEF TitleRead
<1>6. CASE NoTitle(r, f)
  <2>1. PICK t \in TitleRead : AfterReads(t.meta)
    BY <1>6 DEF NoTitle
  <2>2. meta' \in Metas /\ failure' \in {failure, now}
    BY <1>5, <2>1 DEF AfterReads
  <2> QED BY <1>6, <2>2 DEF NoTitle, Answered, Leave, Forget
<1>7. CASE StatsMissing(r, f)
  <2>1. PICK t \in TitleRead : \E s \in Read(t.meta) : AfterReads(s.meta)
    BY <1>7 DEF StatsMissing
  <2>2. PICK s \in Read(t.meta) : AfterReads(s.meta)
    BY <2>1
  <2>3. meta' \in Metas /\ failure' \in {failure, now}
    BY <1>1, <1>5, <2>2, Reads DEF AfterReads
  <2> QED BY <1>7, <2>3 DEF StatsMissing, Leave
<1>8. CASE Details(r, f)
  <2>1. PICK t \in {u \in TitleRead : HasTitle(u)} : \E s \in Read(t.meta) :
          LET a == Data("details", t.meta.at, s.meta.at, fetches[f].at) IN
            s.ok /\ s.meta.doc # "noStats" /\ AfterReads(s.meta) /\ Cached(a) /\ Answered(r)
    BY <1>8 DEF Details
  <2>2. PICK s \in Read(t.meta) :
          LET a == Data("details", t.meta.at, s.meta.at, fetches[f].at) IN
            s.ok /\ s.meta.doc # "noStats" /\ AfterReads(s.meta) /\ Cached(a) /\ Answered(r)
    BY <2>1
  <2>3. t.meta \in Metas /\ t.ok
    BY <1>5 DEF HasTitle
  <2>4. t.meta \in Downloaded
    <3>1. PICK w \in Read(meta) : w.ok /\ t \in Read(w.meta)
      BY DEF TitleRead
    <3> QED BY <1>1, <2>3, <3>1, Reads
  <2>5. /\ s.meta \in Downloaded /\ (s.meta = t.meta \/ s.meta.at = now) /\ (Usable(t.meta) => s.meta = t.meta)
    BY <1>1, <2>2, <2>3, Reads
  <2>6. t.meta # NoMeta /\ s.meta # NoMeta /\ t.meta.at \in 0..now /\ s.meta.at \in 0..now
    BY <2>4, <2>5 DEF NoMeta, Downloaded
  <2>7. t.meta.at # s.meta.at => s.meta.at - t.meta.at > MetaValidFor
    BY <1>1, <2>5, <2>6 DEF Usable, MetaValidFor
  <2>8. s.meta.at + MetaValidFor >= now \/ failure' = now
    BY <1>1, <2>2, <2>6 DEF AfterReads, Usable, MetaValidFor
  <2> DEFINE a == Data("details", t.meta.at, s.meta.at, fetches[f].at)
  <2>9. /\ a \in DataType /\ a.kind = "details" /\ a.title = t.meta.at /\ a.stats = s.meta.at /\ a.tree = fetches[f].at
    <3>1. t.meta.at \in Times /\ s.meta.at \in Times /\ fetches[f].at \in Times
      BY <2>6, BoundsAssumption DEF TypeOK, Times, Made
    <3> QED BY <3>1 DEF Data, DataType, Kinds
  <2>10. cache' = [data |-> a, until |-> now + ValidFor]
    BY <2>2 DEF Cached
  <2>11. meta' \in Metas /\ failure' \in {failure, now}
    BY <2>2, <2>5 DEF AfterReads, Metas
  <2>12. Leave(r, "answered") /\ inProgress' = 0 /\ fetches[f].result = "page"
    BY <1>8, <2>2 DEF Details, Answered, Forget
  <2> HIDE DEF a
  <2> QED BY <2>7, <2>8, <2>9, <2>10, <2>11, <2>12 DEF Leave
<1> QED BY <1>3, <1>4, <1>6, <1>7, <1>8 DEF GoOn

-------------------------------------------------------------------------------
(* The steps *)

\* A handler goes on with a fetch: its request waited for it, or is a new one that does not have to wait.
Handles(r, f) == GoOn(r, f) /\ UNCHANGED <<now, doc, fetches>>

LEMMA NextIs ==
  ASSUME Next
  PROVE  \/ \E r \in Requests : AnswerFromCache(r) \/ BeginFetch(r) \/ ShareFetch(r)
         \/ \E r \in Requests : \E f \in Made \ Pending :
              /\ Handles(r, f)
              /\ \/ request[r] = "new" /\ f = inProgress
                 \/ request[r] = "waiting" /\ f = shares[r]
         \/ \E f \in Made : Respond(f)
         \/ Tick \/ UNCHANGED vars
<1>1. ASSUME NEW r \in Requests, ShareOldFetch(r)
      PROVE  Handles(r, inProgress) /\ request[r] = "new" /\ inProgress \in Made \ Pending
  BY <1>1 DEF ShareOldFetch, Handles
<1>2. ASSUME NEW r \in Requests, Resume(r)
      PROVE  Handles(r, shares[r]) /\ request[r] = "waiting" /\ shares[r] \in Made \ Pending
  BY <1>2 DEF Resume, Resumable, Handles
<1> QED BY <1>1, <1>2 DEF Next, Ended

\* A new fetch has the next number.
LEMMA FetchBegins ==
  ASSUME TypeOK, Numbered, NEW r \in Requests, BeginFetch(r)
  PROVE  \E n \in 0..MaxFetches : \E f \in 1..MaxFetches :
           /\ Made = 1..n /\ f = n + 1 /\ Made' = 1..f
           /\ fetches' = [fetches EXCEPT ![f] = [result |-> "pending", at |-> Never]]
           /\ request' = [request EXCEPT ![r] = "waiting"] /\ shares' = [shares EXCEPT ![r] = f]
           /\ inProgress' = f /\ f \notin Made /\ f \in Made'
<1>1. PICK n \in 0..MaxFetches : Made = 1..n
  BY DEF Numbered
<1>2. Cardinality(Made) = n /\ n < MaxFetches /\ n \in Nat /\ MaxFetches \in Nat
  <2>1. n \in Nat /\ MaxFetches \in Nat
    BY BoundsAssumption
  <2>2. Cardinality(1..n) = n
    BY <2>1, FS_Interval
  <2> QED BY <1>1, <2>1, <2>2 DEF BeginFetch
<1> DEFINE f == n + 1
<1>3. f \in 1..MaxFetches
  BY <1>2
<1>4. /\ fetches' = [fetches EXCEPT ![f] = [result |-> "pending", at |-> Never]]
      /\ request' = [request EXCEPT ![r] = "waiting"] /\ shares' = [shares EXCEPT ![r] = f] /\ inProgress' = f
  BY <1>2 DEF BeginFetch
<1>5. Made' = Made \union {f}
  <2>1. \A g \in 1..MaxFetches : g # f => fetches'[g] = fetches[g]
    BY <1>4 DEF TypeOK
  <2>2. fetches'[f].result = "pending"
    BY <1>3, <1>4 DEF TypeOK
  <2> QED BY <1>3, <2>1, <2>2 DEF Made
<1>6. Made' = 1..f /\ f \notin Made /\ f \in Made'
  BY <1>1, <1>2, <1>5
<1> QED BY <1>1, <1>3, <1>4, <1>6

\* A response changes its fetch and nothing else.
LEMMA FetchEnds ==
  ASSUME TypeOK, NEW f \in Made, Respond(f)
  PROVE  /\ f \in Pending /\ Made' = Made /\ Pending' = Pending \ {f}
         /\ UNCHANGED <<now, doc, request, shares, inProgress, cache, meta, failure>>
         /\ \A g \in Made : g # f => fetches'[g] = fetches[g]
         /\ fetches'[f].result = "page" => fetches'[f].at = now
         /\ fetches' \in [1..MaxFetches -> [result : Results \union {"none"}, at : Times]]
<1>1. PICK result \in Results \ {"pending"} :
        fetches' = [fetches EXCEPT ![f] = [result |-> result, at |-> IF result = "page" THEN now ELSE Never]]
  BY DEF Respond
<1> DEFINE end == [result |-> result, at |-> IF result = "page" THEN now ELSE Never]
<1>2. end \in [result : Results \union {"none"}, at : Times] /\ end.result \notin {"none", "pending"}
      /\ (end.result = "page" => end.at = now)
  BY DEF TypeOK, Times, Results
<1>3. f \in 1..MaxFetches /\ fetches' = [fetches EXCEPT ![f] = end]
  BY <1>1 DEF Made
<1> HIDE DEF end
<1>4. /\ fetches' \in [1..MaxFetches -> [result : Results \union {"none"}, at : Times]]
      /\ fetches'[f] = end /\ \A g \in 1..MaxFetches : g # f => fetches'[g] = fetches[g]
  BY <1>2, <1>3 DEF TypeOK
<1>5. Made' = Made /\ Pending' = Pending \ {f}
  BY <1>2, <1>3, <1>4 DEF Made, Pending
<1> QED BY <1>2, <1>4, <1>5 DEF Respond, Made

LEMMA NumberedStep ==
  ASSUME TypeOK, NotAhead, Numbered, [Next]_vars
  PROVE  Numbered'
<1>1. ASSUME Made' = Made, inProgress' \in {0, inProgress}
      PROVE  Numbered'
  BY <1>1 DEF Numbered
<1>2. ASSUME NEW r \in Requests, AnswerFromCache(r) \/ ShareFetch(r)
      PROVE  Numbered'
  BY <1>1, <1>2 DEF AnswerFromCache, ShareFetch, Made
<1>3. ASSUME NEW r \in Requests, BeginFetch(r)
      PROVE  Numbered'
  <2>1. PICK f \in 1..MaxFetches : Made' = 1..f /\ inProgress' = f
    BY <1>3, FetchBegins
  <2>2. f \in 0..MaxFetches
    BY BoundsAssumption
  <2> QED BY <2>1, <2>2 DEF Numbered
<1>4. ASSUME NEW r \in Requests, NEW f \in Made, Handles(r, f)
      PROVE  Numbered'
  <2>1. inProgress' \in {0, inProgress} /\ fetches' = fetches
    BY <1>4, GoingOn DEF Handles
  <2> QED BY <1>1, <2>1 DEF Made
<1>5. ASSUME NEW f \in Made, Respond(f)
      PROVE  Numbered'
  BY <1>1, <1>5, FetchEnds
<1>6. CASE Tick \/ UNCHANGED vars
  BY <1>1, <1>6 DEF Tick, vars, Made
<1> QED BY <1>2, <1>3, <1>4, <1>5, <1>6, NextIs

LEMMA TypedStep ==
  ASSUME TypeOK, NotAhead, Numbered, [Next]_vars
  PROVE  TypeOK'
<1> DEFINE States == {"new", "waiting", "answered", "failed"}
<1>0. now \in Nat /\ MaxTime \in Nat /\ now <= MaxTime
  BY BoundsAssumption DEF TypeOK
<1>1. ASSUME NEW r \in Requests, AnswerFromCache(r) \/ ShareFetch(r)
      PROVE  TypeOK'
  <2>1. UNCHANGED <<now, doc, fetches, inProgress, cache, meta, failure>> /\ Made' = Made
    BY <1>1 DEF AnswerFromCache, ShareFetch, Made
  <2>2. request' \in [Requests -> States] /\ shares' \in [Requests -> {0} \union Made]
    BY <1>1 DEF AnswerFromCache, ShareFetch, Answered, Leave, TypeOK
  <2> QED BY <2>1, <2>2 DEF TypeOK
<1>2. ASSUME NEW r \in Requests, BeginFetch(r)
      PROVE  TypeOK'
  <2>1. PICK n \in 0..MaxFetches, f \in 1..MaxFetches :
           /\ Made = 1..n /\ f = n + 1 /\ Made' = 1..f
           /\ fetches' = [fetches EXCEPT ![f] = [result |-> "pending", at |-> Never]]
           /\ request' = [request EXCEPT ![r] = "waiting"] /\ shares' = [shares EXCEPT ![r] = f]
           /\ inProgress' = f /\ f \notin Made /\ f \in Made'
    BY <1>2, FetchBegins
  <2>2. UNCHANGED <<now, doc, cache, meta, failure>>
    BY <1>2 DEF BeginFetch
  <2>3. Made \subseteq Made'
    BY <2>1, BoundsAssumption
  <2>4. request' \in [Requests -> States] /\ shares' \in [Requests -> {0} \union Made']
    BY <2>1, <2>3 DEF TypeOK
  <2>5. fetches' \in [1..MaxFetches -> [result : Results \union {"none"}, at : Times]]
    <3>1. [result |-> "pending", at |-> Never] \in [result : Results \union {"none"}, at : Times]
      BY DEF Results, Times
    <3> QED BY <2>1, <3>1 DEF TypeOK
  <2> QED BY <2>1, <2>2, <2>4, <2>5 DEF TypeOK
<1>3. ASSUME NEW r \in Requests, NEW f \in Made, Handles(r, f)
      PROVE  TypeOK'
  <2>1. /\ shares' = [shares EXCEPT ![r] = 0]
        /\ \/ request' = [request EXCEPT ![r] = "answered"] /\ inProgress' = 0
           \/ request' = [request EXCEPT ![r] = "failed"] /\ inProgress' = inProgress
        /\ meta' \in Metas /\ failure' \in {failure, now}
        /\ cache' = cache \/ \E a \in DataType : cache' = [data |-> a, until |-> now + ValidFor]
    BY <1>3, GoingOn DEF Handles
  <2>2. UNCHANGED <<now, doc, fetches>> /\ Made' = Made
    BY <1>3 DEF Handles, Made
  <2>3. request' \in [Requests -> States] /\ shares' \in [Requests -> {0} \union Made]
    BY <2>1 DEF TypeOK
  <2>4. cache' \in [data : DataType, until : {Never} \union 0..(MaxTime + ValidFor)]
    <3>1. now + ValidFor \in 0..(MaxTime + ValidFor)
      BY <1>0 DEF ValidFor
    <3> QED BY <2>1, <3>1 DEF TypeOK
  <2>5. meta' \in [doc : Docs, at : Times] /\ failure' \in Times
    BY <1>0, <2>1 DEF TypeOK, Metas, NoMeta, Downloaded, Docs, Times
  <2>6. inProgress' \in {0} \union Made
    BY <2>1 DEF TypeOK
  <2> QED BY <2>2, <2>3, <2>4, <2>5, <2>6 DEF TypeOK
<1>4. ASSUME NEW f \in Made, Respond(f)
      PROVE  TypeOK'
  BY <1>4, FetchEnds DEF TypeOK
<1>5. CASE Tick
  BY <1>0, <1>5 DEF Tick, TypeOK, Made
<1>6. CASE UNCHANGED vars
  BY <1>6 DEF vars, TypeOK, Made
<1> QED BY <1>1, <1>2, <1>3, <1>4, <1>5, <1>6, NextIs

LEMMA NotAheadStep ==
  ASSUME TypeOK, NotAhead, [Next]_vars
  PROVE  NotAhead'
<1>1. now \in Nat /\ failure \in Int /\ cache.until \in Int /\ ValidFor = 1
  BY BoundsAssumption DEF TypeOK, Times, Never, ValidFor
<1>2. ASSUME UNCHANGED <<cache, meta, failure>>, now' \in Nat, now' >= now
      PROVE  NotAhead'
  <2>1. 0..now \subseteq 0..now'
    BY <1>1, <1>2
  <2>2. Downloaded \subseteq Downloaded'
    BY <2>1 DEF Downloaded
  <2>3. meta' \in Metas'
    BY <1>2, <2>2 DEF NotAhead, Metas
  <2>4. failure' <= now' /\ cache'.until <= now' + ValidFor
    BY <1>1, <1>2 DEF NotAhead
  <2> QED BY <2>3, <2>4 DEF NotAhead
<1>3. ASSUME NEW r \in Requests, NEW f \in Made, Handles(r, f)
      PROVE  NotAhead'
  <2>1. meta' \in Metas /\ failure' \in {failure, now} /\ (cache' = cache \/ cache'.until = now + ValidFor) /\ now' = now
    BY <1>3, GoingOn DEF Handles
  <2> QED BY <1>1, <2>1 DEF NotAhead, Metas, Downloaded
<1>4. ASSUME NEW r \in Requests, AnswerFromCache(r) \/ BeginFetch(r) \/ ShareFetch(r)
      PROVE  NotAhead'
  BY <1>1, <1>2, <1>4 DEF AnswerFromCache, BeginFetch, ShareFetch
<1>5. ASSUME NEW f \in Made, Respond(f)
      PROVE  NotAhead'
  BY <1>1, <1>2, <1>5 DEF Respond
<1>6. CASE Tick \/ UNCHANGED vars
  BY <1>1, <1>2, <1>6 DEF Tick, vars
<1> QED BY <1>3, <1>4, <1>5, <1>6, NextIs

\* A handler that failed has failed for good.
LEMMA FailuresStay ==
  ASSUME TypeOK, NotAhead, Numbered, SomeFailed, [Next]_vars
  PROVE  SomeFailed'
<1>1. ASSUME NEW r \in Requests, request[r] # "failed", NEW how, request' = [request EXCEPT ![r] = how]
      PROVE  SomeFailed'
  BY <1>1 DEF SomeFailed, TypeOK
<1>2. ASSUME NEW r \in Requests, AnswerFromCache(r) \/ BeginFetch(r) \/ ShareFetch(r)
      PROVE  SomeFailed'
  BY <1>1, <1>2 DEF AnswerFromCache, BeginFetch, ShareFetch, Answered, Leave
<1>3. ASSUME NEW r \in Requests, NEW f \in Made, Handles(r, f), request[r] \in {"new", "waiting"}
      PROVE  SomeFailed'
  BY <1>1, <1>3, GoingOn DEF Handles
<1>4. ASSUME UNCHANGED request PROVE SomeFailed'
  BY <1>4 DEF SomeFailed
<1> QED BY <1>2, <1>3, <1>4, NextIs DEF Respond, Tick, vars

\* A handler that goes on with a page does so as soon as it has come, unless a handler has failed.
LEMMA PageIsNew ==
  ASSUME TypeOK, Shared, NEW r \in Requests, NEW f \in Made \ Pending, fetches[f].result = "page", ~SomeFailed,
         \/ request[r] = "new" /\ f = inProgress
         \/ request[r] = "waiting" /\ f = shares[r]
  PROVE  fetches[f].at = now
<1>1. f # 0
  BY BoundsAssumption DEF Made
<1>2. PICK q \in Requests : shares[q] = f
  BY <1>1 DEF Shared
<1>3. Resumable(q)
  BY <1>1, <1>2 DEF Resumable, Shared
<1> QED BY <1>2, <1>3 DEF Shared

LEMMA AnswerStep ==
  ASSUME TypeOK, NotAhead, Numbered, Shared, Answer, [Next]_vars
  PROVE  Answer'
<1>1. now \in Nat /\ failure \in Int /\ cache.until \in Int /\ ValidFor = 1 /\ MadeAt <= now
  BY BoundsAssumption DEF TypeOK, NotAhead, Times, Never, ValidFor, MadeAt
<1>2. ASSUME cache' = cache, failure' \in {failure, now}
      PROVE  Answer'
  <2>1. failure >= MadeAt => failure' >= MadeAt
    BY <1>1, <1>2
  <2>2. MadeAt' = MadeAt
    BY <1>2 DEF MadeAt
  <2> QED BY <1>2, <2>1, <2>2, FailuresStay DEF Answer
<1>3. ASSUME NEW r \in Requests, NEW f \in Made \ Pending, Handles(r, f),
             \/ request[r] = "new" /\ f = inProgress
             \/ request[r] = "waiting" /\ f = shares[r]
      PROVE  Answer'
  <2>1. CASE cache' = cache
    BY <1>2, <1>3, <2>1, GoingOn DEF Handles
  <2>2. ASSUME NEW a \in DataType,
               cache' = [data |-> a, until |-> now + ValidFor],
               a.kind = "details" =>
                      /\ fetches[f].result = "page" /\ a.tree = fetches[f].at
                      /\ a.title # a.stats => a.stats - a.title > MetaValidFor
                      /\ a.stats + MetaValidFor >= now \/ failure' = now
        PROVE  Answer'
    <3>1. MadeAt' = now /\ cache'.data = a
      BY <1>1, <2>2 DEF MadeAt, ValidFor
    <3>2. a.kind = "details" => a.tree = now \/ SomeFailed'
      <4>1. CASE SomeFailed
        BY <4>1, FailuresStay
      <4>2. CASE ~SomeFailed
        BY <1>3, <2>2, <4>2, PageIsNew
      <4> QED BY <4>1, <4>2
    <3>3. failure' = now => failure' >= now
      BY <1>1
    <3> HIDE DEF MadeAt
    <3> QED BY <2>2, <3>1, <3>2, <3>3 DEF Answer, MetaValidFor
  <2> QED BY <1>3, <2>1, <2>2, GoingOn DEF Handles
<1>4. ASSUME NEW r \in Requests, AnswerFromCache(r) \/ BeginFetch(r) \/ ShareFetch(r)
      PROVE  Answer'
  BY <1>2, <1>4 DEF AnswerFromCache, BeginFetch, ShareFetch
<1>5. CASE (\E f \in Made : Respond(f)) \/ Tick \/ UNCHANGED vars
  BY <1>2, <1>5 DEF Respond, Tick, vars
<1> QED BY <1>3, <1>4, <1>5, NextIs

LEMMA SharedStep ==
  ASSUME TypeOK, NotAhead, Numbered, Shared, [Next]_vars
  PROVE  Shared'
<1>1. 0 \notin Made /\ Pending \subseteq Made /\ \A r \in Requests : shares[r] \in {0} \union Made
  BY BoundsAssumption DEF Made, Pending, TypeOK
<1>2. ASSUME UNCHANGED <<request, shares, fetches, inProgress>>,
             now' = now \/ \A r \in Requests : ~Resumable(r)
      PROVE  Shared'
  <2>1. \A r \in Requests : Resumable(r)' = Resumable(r)
    BY <1>2 DEF Resumable, Made, Pending
  <2> QED BY <1>2, <2>1 DEF Shared, SomeFailed
<1>3. ASSUME NEW r \in Requests, AnswerFromCache(r)
      PROVE  Shared'
  <2>1. /\ request' = [request EXCEPT ![r] = "answered"] /\ shares' = [shares EXCEPT ![r] = 0] /\ request[r] = "new"
        /\ UNCHANGED <<now, fetches, inProgress>>
    BY <1>3 DEF AnswerFromCache, Answered, Leave
  <2>2. shares[r] = 0
    BY <2>1 DEF Shared
  <2>3. \A q \in Requests : shares'[q] = shares[q] /\ (q # r => request'[q] = request[q])
    BY <2>1, <2>2 DEF TypeOK
  <2>4. request'[r] = "answered" /\ (SomeFailed <=> SomeFailed')
    <3>1. request'[r] = "answered"
      BY <2>1 DEF TypeOK
    <3> QED BY <2>1, <2>3, <3>1 DEF SomeFailed
  <2>5. \A q \in Requests : Resumable(q)' = Resumable(q)
    BY <2>1, <2>3, <2>4 DEF Resumable, Made, Pending
  <2> QED BY <2>1, <2>2, <2>3, <2>4, <2>5 DEF Shared
<1>4. ASSUME NEW r \in Requests, NEW f \in Nat \ {0}, request[r] = "new",
             request' = [request EXCEPT ![r] = "waiting"], shares' = [shares EXCEPT ![r] = f],
             inProgress' = f, now' = now, f \in Pending', Made \subseteq Made',
             \A g \in Made : fetches'[g] = fetches[g]
      PROVE  Shared'
  <2>1. /\ request'[r] = "waiting" /\ shares'[r] = f
        /\ \A q \in Requests : q # r => request'[q] = request[q] /\ shares'[q] = shares[q]
    BY <1>4 DEF TypeOK
  <2>2. ~Resumable(r)'
    BY <1>4, <2>1 DEF Resumable
  <2>3. \A q \in Requests : q # r /\ Resumable(q)' => Resumable(q) /\ fetches'[shares'[q]] = fetches[shares[q]]
    BY <1>1, <1>4, <2>1 DEF Resumable, Made, Pending, Shared
  <2> QED BY <1>4, <2>1, <2>2, <2>3 DEF Shared
<1>5. ASSUME NEW r \in Requests, BeginFetch(r)
      PROVE  Shared'
  <2>1. PICK n \in 0..MaxFetches, f \in 1..MaxFetches :
           /\ Made = 1..n /\ f = n + 1 /\ Made' = 1..f
           /\ fetches' = [fetches EXCEPT ![f] = [result |-> "pending", at |-> Never]]
           /\ request' = [request EXCEPT ![r] = "waiting"] /\ shares' = [shares EXCEPT ![r] = f]
           /\ inProgress' = f /\ f \notin Made /\ f \in Made'
    BY <1>5, FetchBegins
  <2>2. \A g \in Made : fetches'[g] = fetches[g]
    BY <2>1 DEF TypeOK, Made
  <2>3. f \in Pending'
    BY <2>1 DEF TypeOK, Pending
  <2>4. Made \subseteq Made' /\ f \in Nat \ {0}
    BY <2>1, BoundsAssumption
  <2>5. now' = now /\ request[r] = "new"
    BY <1>5 DEF BeginFetch
  <2> QED BY <1>4, <2>1, <2>2, <2>3, <2>4, <2>5
<1>6. ASSUME NEW r \in Requests, ShareFetch(r)
      PROVE  Shared'
  <2>1. /\ request[r] = "new" /\ inProgress \in Pending
        /\ request' = [request EXCEPT ![r] = "waiting"] /\ shares' = [shares EXCEPT ![r] = inProgress]
        /\ UNCHANGED <<now, fetches, inProgress>>
    BY <1>6 DEF ShareFetch
  <2>2. Made' = Made /\ Pending' = Pending
    BY <2>1 DEF Made, Pending
  <2>3. inProgress \in Nat \ {0}
    BY <2>1, BoundsAssumption DEF Made, Pending
  <2> QED BY <1>4, <2>1, <2>2, <2>3
<1>7. ASSUME NEW r \in Requests, NEW f \in Made, Handles(r, f)
      PROVE  Shared'
  <2>1. /\ shares' = [shares EXCEPT ![r] = 0] /\ UNCHANGED <<now, fetches>>
        /\ \/ request' = [request EXCEPT ![r] = "answered"] /\ inProgress' = 0
           \/ request' = [request EXCEPT ![r] = "failed"] /\ inProgress' = inProgress
    BY <1>7, GoingOn DEF Handles
  <2>2. /\ request'[r] \in {"answered", "failed"} /\ shares'[r] = 0
        /\ \A q \in Requests : q # r => request'[q] = request[q] /\ shares'[q] = shares[q]
        /\ inProgress' # 0 => SomeFailed'
    BY <2>1 DEF TypeOK, SomeFailed
  <2>3. \A q \in Requests : Resumable(q)' => q # r /\ Resumable(q)
    BY <2>1, <2>2 DEF Resumable, Made, Pending
  <2> QED BY <2>1, <2>2, <2>3 DEF Shared
<1>8. ASSUME NEW f \in Made, Respond(f)
      PROVE  Shared'
  <2>1. /\ Made' = Made /\ Pending' = Pending \ {f} /\ UNCHANGED <<now, request, shares, inProgress>>
        /\ \A g \in Made : g # f => fetches'[g] = fetches[g]
        /\ fetches'[f].result = "page" => fetches'[f].at = now
    BY <1>8, FetchEnds
  <2>2. ASSUME NEW q \in Requests, Resumable(q)', fetches'[shares'[q]].result = "page"
        PROVE  fetches'[shares'[q]].at = now
    <3>1. CASE shares[q] = f
      BY <2>1, <2>2, <3>1
    <3>2. CASE shares[q] # f
      <4>1. Resumable(q) /\ fetches'[shares[q]] = fetches[shares[q]]
        BY <1>1, <2>1, <2>2, <3>2 DEF Resumable
      <4> QED BY <2>1, <2>2, <4>1 DEF Shared
    <3> QED BY <3>1, <3>2
  <2> QED BY <2>1, <2>2 DEF Shared, SomeFailed
<1>9. CASE Tick \/ UNCHANGED vars
  BY <1>2, <1>9 DEF Tick, vars
<1> QED BY <1>3, <1>5, <1>6, <1>7, <1>8, <1>9, NextIs

LEMMA InitHolds == Init => Inv
<1> SUFFICES ASSUME Init PROVE Inv
  OBVIOUS
<1>1. Made = {}
  BY DEF Init, Made
<1>2. [result |-> "none", at |-> Never] \in [result : Results \union {"none"}, at : Times]
  BY DEF Times
<1>3. Plain("unknown") \in DataType /\ Plain("unknown").kind # "details"
  BY DEF Plain, Data, DataType, Kinds, Times
<1>4. TypeOK
  <2>1. now \in 0..MaxTime
    BY BoundsAssumption DEF Init
  <2>2. fetches \in [1..MaxFetches -> [result : Results \union {"none"}, at : Times]]
    BY <1>2 DEF Init
  <2>3. cache \in [data : DataType, until : {Never} \union 0..(MaxTime + ValidFor)]
    BY <1>3 DEF Init
  <2>4. meta \in [doc : Docs, at : Times] /\ failure \in Times
    BY DEF Init, NoMeta, Docs, Times
  <2> QED BY <1>1, <2>1, <2>2, <2>3, <2>4 DEF Init, TypeOK
<1>5. NotAhead
  BY DEF Init, NotAhead, Metas, Never, ValidFor
<1>6. Answer
  BY <1>3 DEF Init, Answer
<1>7. Numbered
  <2>1. 0 \in 0..MaxFetches /\ 1..0 = {}
    BY BoundsAssumption
  <2> QED BY <1>1, <2>1 DEF Init, Numbered
<1>8. Shared
  BY DEF Init, Shared, Resumable
<1> QED BY <1>4, <1>5, <1>6, <1>7, <1>8 DEF Inv

LEMMA Inductive == Inv /\ [Next]_vars => Inv'
BY TypedStep, NotAheadStep, AnswerStep, NumberedStep, SharedStep DEF Inv

-------------------------------------------------------------------------------
(* The theorems *)

\* Type correctness, for any requests: every request shares a fetch that was made, and the fetch that is shared is one.
THEOREM TypeCorrect == Spec => []TypeOK
<1>1. Inv => TypeOK
  BY DEF Inv
<1> QED BY <1>1, InitHolds, Inductive, PTL DEF Spec

\* Details that are answered from the cache are recent: statistics older than an hour and a half are answered only when
\* newer ones could not be downloaded in the last half hour, and remixes older than half an hour only after a handler
\* has failed and left its fetch to the requests after it (converterwebapp.py:187-246, scratchwebapi.py:301-338).
THEOREM DetailsRecent == Spec => []DetailsAreRecent
<1>1. ASSUME Inv PROVE DetailsAreRecent
  <2>1. SUFFICES ASSUME Served PROVE /\ now - cache.data.stats > MetaValidFor + ValidFor => failure >= now - ValidFor
                                     /\ now - cache.data.tree > ValidFor => SomeFailed
    BY DEF DetailsAreRecent, StatsAreRecent, RemixesAreRecent
  <2>2. now \in Int /\ failure \in Int /\ cache.until \in Int /\ cache.data.stats \in Int /\ cache.data.tree \in Int
    BY <1>1, BoundsAssumption DEF Inv, TypeOK, DataType, Times, Never, ValidFor
  <2>3. /\ now <= cache.until
        /\ cache.data.stats + MetaValidFor >= MadeAt \/ failure >= MadeAt
        /\ cache.data.tree = MadeAt \/ SomeFailed
    BY <1>1, <2>1 DEF Inv, Answer, Served, CacheHit
  <2> QED BY <2>2, <2>3 DEF MadeAt, ValidFor, MetaValidFor
<1> QED BY <1>1, InitHolds, Inductive, PTL DEF Spec

\* The title and the statistics of an answer were downloaded together, unless the title's had expired when the
\* statistics were read (scratchwebapi.py:301-338).
THEOREM OneVersionAnswered == Spec => []OneVersion
<1>1. Inv => OneVersion
  BY DEF Inv, Answer, OneVersion, Served
<1> QED BY <1>1, InitHolds, Inductive, PTL DEF Spec

\* A fetch that is going on is taken out of the map only by a request that shared an earlier one
\* (converterwebapp.py:200-246).
THEOREM OnlySharersDo == Spec => OnlySharersForget
<1> DEFINE Sharer == \E r \in Requests : request[r] = "waiting" /\ request'[r] # "waiting" /\ shares[r] < inProgress
<1>1. ASSUME Inv, [Next]_vars, inProgress \in Pending, inProgress' # inProgress
      PROVE  Sharer
  <2>1. PICK n \in 0..MaxFetches : Made = 1..n /\ inProgress = n /\ n \in Nat \ {0}
    <3>1. inProgress # 0 /\ 0..MaxFetches \subseteq Nat
      BY <1>1, BoundsAssumption DEF Pending, Made
    <3> QED BY <1>1, <3>1 DEF Inv, Numbered
  <2>2. ASSUME NEW r \in Requests, NEW f \in Made \ Pending, Handles(r, f), request[r] = "waiting", f = shares[r]
        PROVE  Sharer
    <3>1. request'[r] # "waiting"
      BY <2>2, <1>1, GoingOn DEF Handles, Inv, TypeOK
    <3>2. f < inProgress
      BY <1>1, <2>1, <2>2
    <3> QED BY <2>2, <3>1, <3>2
  <2>3. ASSUME NEW r \in Requests, AnswerFromCache(r) \/ BeginFetch(r) \/ ShareFetch(r) PROVE FALSE
    BY <1>1, <2>1, <2>3 DEF AnswerFromCache, BeginFetch, ShareFetch
  <2>4. ~((\E f \in Made : Respond(f)) \/ Tick \/ UNCHANGED vars)
    BY <1>1 DEF Respond, Tick, vars
  <2> QED BY <1>1, <2>2, <2>3, <2>4, NextIs
<1>2. Inv /\ [Next]_vars => [(inProgress \in Pending /\ inProgress' # inProgress) => Sharer]_vars
  BY <1>1
<1> QED BY <1>2, InitHolds, Inductive, PTL DEF Spec, OnlySharersForget
================================================================================
