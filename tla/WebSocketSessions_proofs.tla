---------------------- MODULE WebSocketSessions_proofs ----------------------
(***************************************************************************)
(* Proofs about WebSocketSessions, for any sockets and any number of       *)
(* client IDs, and without the threads agreeing on anything but one access *)
(* at a time. What notify delivers depends on what the web thread does to  *)
(* the lists meanwhile: the invariant says what holds of the map between   *)
(* any two accesses (Lists), and of the sockets that notify still has to   *)
(* reach, that they lie ahead of its iterator (Ahead, NotYet).             *)
(***************************************************************************)
EXTENDS WebSocketSessions, SequenceTheorems, FiniteSetTheorems, TLAPS

------------------------------------------------------------------------------
(* The invariant *)

\* What the web thread has in hand; a key without sockets is the one it is
\* about to use or to remove.
Hands ==
    /\ web.pc \in {"create", "append"} => web.socket \in Sockets
    /\ web.pc # "idle" => web.client \in ClientIDs
    /\ web.pc = "append" => web.client \in keys
    /\ web.pc = "delete" => web.client \in keys /\ sockets[web.client] = <<>>

\* A socket that authenticates only once is in no list when it does.
New == web.pc \in {"create", "append"} => told[web.socket] = None /\ sock[web.socket] # "closed"

Held(c) == {s \in Sockets : told[s] = c /\ sock[s] # "closed"}

Lists ==
    \A c \in ClientIDs :
        /\ sockets[c] # <<>> => c \in keys
        /\ c \in keys /\ sockets[c] = <<>> => web.pc \in {"append", "delete"} /\ c = web.client
        /\ IsInjective(sockets[c])
        /\ ToSet(sockets[c]) = Held(c)

\* The clients that notify found are in the map, or a socket of theirs left.
Found ==
    /\ tcp.gone \subseteq left
    /\ tcp.pc = "filter" => tcp.found \subseteq keys \cup left
    /\ tcp.pc = "lookup" => tcp.todo \subseteq keys \cup left
    /\ RaisesOnlyWhenSocketsLeave

\* Where the iterator of notify is.
Sends ==
    /\ tcp.pc # "send" => tcp.client = None
    /\ tcp.client \notin tcp.todo
    /\ \A s \in due : told[s] \in ClientIDs /\ sock[s] # "none"

Iterated == IF tcp.client \in tcp.gone THEN <<>> ELSE sockets[tcp.client]

\* What is ahead of the iterator has not got the message, ...
NotYet ==
    /\ \A s \in Sockets : got[s] \in {0, 1}
    /\ \A s \in Sockets : told[s] = None => got[s] = 0
    /\ tcp.pc \in {"filter", "lookup"} => \A s \in Sockets : got[s] = 0
    /\ tcp.pc = "send" =>
          /\ \A s \in Sockets : told[s] \in tcp.todo => got[s] = 0
          /\ tcp.client # None =>
                \A i \in DOMAIN Iterated : i >= tcp.next => got[Iterated[i]] = 0

\* ... and what has not got it, and has to, is ahead of the iterator.
Expected == {s \in due : sock[s] = "open" /\ told[s] \notin left}
Ahead ==
    \A s \in Expected :
        /\ tcp.pc \in {"filter", "lookup"} => told[s] \in tcp.todo \cup tcp.found
        /\ tcp.pc = "send" =>
              \/ told[s] \in tcp.todo
              \/ got[s] = 1
              \/ told[s] = tcp.client /\ \E i \in DOMAIN Iterated : i >= tcp.next /\ Iterated[i] = s
        /\ tcp.pc = "sent" => got[s] = 1

MapInv == TypeOK /\ Hands /\ New /\ Lists
Inv == MapInv /\ Found /\ Sends /\ NotYet /\ Ahead

------------------------------------------------------------------------------
(* Lists *)

\* A set of numbers that is not empty has its least number.
LEMMA LeastNumber ==
  ASSUME NEW S \in SUBSET Nat, S # {}
  PROVE  Min(S) \in S
<1> DEFINE T == {1 .. n : n \in S}
<1>1. T # {} /\ T \subseteq FiniteSubsetsOf(Nat)
  <2>1. \A n \in S : 1 .. n \in SUBSET Nat /\ IsFiniteSet(1 .. n)
    BY FS_Interval
  <2> QED BY <2>1 DEF FiniteSubsetsOf
<1>2. PICK I \in T : \A J \in T : ~(<<J, I>> \in StrictSubsetOrdering(Nat))
  BY <1>1, FS_StrictSubsetOrderingWellFounded, WFMin
<1>3. PICK n \in S : I = 1 .. n
  BY <1>2
<1>4. ASSUME NEW m \in S PROVE n =< m
  <2>1. SUFFICES ASSUME m < n PROVE FALSE
    OBVIOUS
  <2>2. 1 .. m \in T /\ 1 .. m \in SUBSET Nat /\ 1 .. n \in SUBSET Nat
    OBVIOUS
  <2>3. 1 .. m \subseteq 1 .. n /\ n \in 1 .. n /\ n \notin 1 .. m
    BY <2>1
  <2>4. <<1 .. m, 1 .. n>> \in StrictSubsetOrdering(Nat)
    BY <2>2, <2>3 DEF StrictSubsetOrdering
  <2> QED BY <1>2, <1>3, <2>2, <2>4
<1> QED
  BY <1>4 DEF Min

\* RemoveAt takes one position out of a sequence.
LEMMA OneRemoved ==
  ASSUME NEW S, NEW seq \in Seq(S), NEW k \in 1 .. Len(seq)
  PROVE  /\ RemoveAt(seq, k) \in Seq(S)
         /\ Len(RemoveAt(seq, k)) = Len(seq) - 1
         /\ \A i \in 1 .. Len(seq) - 1 : RemoveAt(seq, k)[i] = IF i < k THEN seq[i] ELSE seq[i + 1]
<1> DEFINE a == SubSeq(seq, 1, k - 1)
           b == SubSeq(seq, k + 1, Len(seq))
<1>0. Len(seq) \in Nat
  BY LenProperties
<1>1. /\ a \in Seq(S) /\ Len(a) = k - 1
      /\ \A i \in 1 .. k - 1 : a[i] = seq[i]
  <2>1. \A i \in 1 .. k - 1 : seq[i] \in S
    BY <1>0, ElementOfSeq
  <2> QED BY <1>0, <2>1, SubSeqProperties
<1>2. /\ b \in Seq(S) /\ Len(b) = Len(seq) - k
      /\ \A i \in 1 .. Len(seq) - k : b[i] = seq[i + k]
  <2>1. \A i \in k + 1 .. Len(seq) : seq[i] \in S
    BY <1>0, ElementOfSeq
  <2>2. /\ b \in Seq(S)
        /\ Len(b) = IF k + 1 <= Len(seq) THEN Len(seq) - (k + 1) + 1 ELSE 0
        /\ \A i \in 1 .. Len(seq) - (k + 1) + 1 : b[i] = seq[k + 1 + i - 1]
    BY <1>0, <2>1, SubSeqProperties
  <2>3. \A i \in 1 .. Len(seq) - k : k + 1 + i - 1 = i + k
    BY <1>0
  <2> QED BY <1>0, <2>2, <2>3
<1>3. /\ a \o b \in Seq(S) /\ Len(a \o b) = Len(a) + Len(b)
      /\ \A i \in 1 .. Len(a) + Len(b) : (a \o b)[i] = IF i <= Len(a) THEN a[i] ELSE b[i - Len(a)]
  BY <1>1, <1>2, ConcatProperties
<1>4. RemoveAt(seq, k) = a \o b
  BY DEF RemoveAt
<1> HIDE DEF a, b
<1>5. ASSUME NEW i \in 1 .. Len(seq) - 1
      PROVE  (a \o b)[i] = IF i < k THEN seq[i] ELSE seq[i + 1]
  <2>1. CASE i < k
    BY <1>0, <1>1, <1>2, <1>3, <2>1
  <2>2. CASE i >= k
    <3>1. i - (k - 1) \in 1 .. Len(seq) - k /\ (i - (k - 1)) + k = i + 1
      BY <1>0, <2>2
    <3>2. b[i - (k - 1)] = seq[i + 1]
      BY <1>2, <3>1
    <3> QED BY <1>0, <1>1, <1>2, <1>3, <2>2, <3>2
  <2>3. i < k \/ i >= k
    OBVIOUS
  <2> QED BY <2>1, <2>2, <2>3
<1> QED BY <1>0, <1>1, <1>2, <1>3, <1>4, <1>5

\* What the removal of an element leaves is a sequence of the others.
LEMMA RemoveFirstType ==
  ASSUME NEW S, NEW seq \in Seq(S), NEW s
  PROVE  RemoveFirst(seq, s) \in Seq(S)
<1> DEFINE I == {i \in 1 .. Len(seq) : seq[i] = s}
<1>1. CASE I = {}
  <2>1. ~(\E i \in 1 .. Len(seq) : seq[i] = s)
    BY <1>1
  <2> QED BY <2>1 DEF RemoveFirst
<1>2. CASE I # {}
  <2>1. Min(I) \in I
    <3>1. I \in SUBSET Nat
      OBVIOUS
    <3> QED BY <1>2, <3>1, LeastNumber
  <2>2. \E i \in 1 .. Len(seq) : seq[i] = s
    BY <1>2
  <2>3. RemoveFirst(seq, s) = RemoveAt(seq, Min(I))
    BY <1>2, <2>2 DEF RemoveFirst, SelectInSeq
  <2> QED BY <2>1, <2>3, OneRemoved
<1> QED BY <1>1, <1>2

\* A list that holds a socket once does not hold it after its removal; the
\* others keep their order, and none moves to a later position.
LEMMA RemovedOnce ==
  ASSUME NEW S, NEW seq \in Seq(S), IsInjective(seq), NEW s \in ToSet(seq)
  PROVE  /\ RemoveFirst(seq, s) \in Seq(S)
         /\ IsInjective(RemoveFirst(seq, s))
         /\ ToSet(RemoveFirst(seq, s)) = ToSet(seq) \ {s}
         /\ \A i \in DOMAIN RemoveFirst(seq, s) :
              \E j \in DOMAIN seq : j >= i /\ RemoveFirst(seq, s)[i] = seq[j]
<1> DEFINE rest == RemoveFirst(seq, s)
<1>0. Len(seq) \in Nat /\ DOMAIN seq = 1 .. Len(seq)
  BY LenProperties
<1>1. PICK k \in 1 .. Len(seq) : seq[k] = s
  BY <1>0 DEF ToSet
<1>2. {i \in 1 .. Len(seq) : seq[i] = s} = {k}
  BY <1>0, <1>1 DEF IsInjective
<1>3. rest = RemoveAt(seq, k)
  <2>1. Min({k}) = k
    BY DEF Min
  <2> QED BY <1>1, <1>2, <2>1 DEF RemoveFirst, SelectInSeq
<1> HIDE DEF rest
<1>4. /\ rest \in Seq(S) /\ Len(rest) = Len(seq) - 1
      /\ \A i \in 1 .. Len(seq) - 1 : rest[i] = IF i < k THEN seq[i] ELSE seq[i + 1]
  BY <1>3, OneRemoved
<1>5. DOMAIN rest = 1 .. Len(seq) - 1
  BY <1>4, LenProperties
<1>6. IsInjective(rest)
  <2>1. SUFFICES ASSUME NEW i \in DOMAIN rest, NEW j \in DOMAIN rest, rest[i] = rest[j]
                 PROVE  i = j
    BY DEF IsInjective
  <2>2. \A m, n \in 1 .. Len(seq) : seq[m] = seq[n] => m = n
    BY <1>0 DEF IsInjective
  <2> DEFINE at(m) == IF m < k THEN m ELSE m + 1
  <2>3. at(i) \in 1 .. Len(seq) /\ at(j) \in 1 .. Len(seq) /\ seq[at(i)] = seq[at(j)]
    BY <1>0, <1>4, <1>5, <2>1
  <2>4. at(i) = at(j)
    BY <2>2, <2>3
  <2> QED BY <1>0, <1>5, <2>4
<1>7. \A i \in DOMAIN rest : \E j \in DOMAIN seq : j >= i /\ rest[i] = seq[j] /\ j # k
  BY <1>0, <1>4, <1>5
<1>8. ToSet(rest) \subseteq ToSet(seq) \ {s}
  BY <1>0, <1>1, <1>7 DEF ToSet, IsInjective
<1>9. ASSUME NEW t \in ToSet(seq), t # s PROVE t \in ToSet(rest)
  <2>1. PICK j \in 1 .. Len(seq) : seq[j] = t /\ j # k
    BY <1>0, <1>1, <1>9 DEF ToSet
  <2>2. CASE j < k
    <3>1. j \in DOMAIN rest /\ rest[j] = t
      BY <1>0, <1>4, <1>5, <2>1, <2>2
    <3> QED BY <3>1 DEF ToSet
  <2>3. CASE j > k
    <3>1. j - 1 \in 1 .. Len(seq) - 1 /\ ~(j - 1 < k) /\ (j - 1) + 1 = j
      BY <1>0, <2>1, <2>3
    <3>2. rest[j - 1] = t
      BY <1>4, <2>1, <3>1
    <3> QED BY <1>5, <3>1, <3>2 DEF ToSet
  <2> QED BY <1>0, <2>1, <2>2, <2>3
<1>10. ToSet(rest) = ToSet(seq) \ {s}
  BY <1>8, <1>9
<1> QED
  BY <1>4, <1>6, <1>7, <1>10 DEF rest

\* A socket that is in no list is appended to one.
LEMMA AppendedOnce ==
  ASSUME NEW S, NEW seq \in Seq(S), NEW s \in S
  PROVE  /\ Append(seq, s) \in Seq(S) /\ Append(seq, s) # <<>>
         /\ DOMAIN Append(seq, s) = DOMAIN seq \cup {Len(seq) + 1}
         /\ \A i \in DOMAIN seq : Append(seq, s)[i] = seq[i]
         /\ Append(seq, s)[Len(seq) + 1] = s
         /\ ToSet(Append(seq, s)) = ToSet(seq) \cup {s}
         /\ IsInjective(seq) /\ s \notin ToSet(seq) => IsInjective(Append(seq, s))
<1> DEFINE longer == Append(seq, s)
<1>0. Len(seq) \in Nat /\ DOMAIN seq = 1 .. Len(seq)
  BY LenProperties
<1>1. /\ longer \in Seq(S) /\ longer # <<>> /\ Len(longer) = Len(seq) + 1
      /\ \A i \in 1 .. Len(seq) : longer[i] = seq[i]
      /\ longer[Len(seq) + 1] = s
  BY AppendProperties
<1> HIDE DEF longer
<1>2. DOMAIN longer = 1 .. Len(seq) + 1
  BY <1>1, LenProperties
<1>3. DOMAIN longer = DOMAIN seq \cup {Len(seq) + 1}
  BY <1>0, <1>2
<1>4. ToSet(longer) = ToSet(seq) \cup {s}
  BY <1>0, <1>1, <1>3 DEF ToSet
<1>5. IsInjective(seq) /\ s \notin ToSet(seq) => IsInjective(longer)
  BY <1>0, <1>1, <1>3 DEF IsInjective, ToSet
<1> QED
  BY <1>0, <1>1, <1>3, <1>4, <1>5 DEF longer

------------------------------------------------------------------------------
(* Types *)

LEMMA StartIsTyped == Init => TypeOK /\ Hands
<1> SUFFICES ASSUME Init PROVE TypeOK /\ Hands
  OBVIOUS
<1>1. <<>> \in Seq(Sockets)
  BY EmptySeq
<1> QED
  BY <1>1, MaxClientsAssumption DEF Init, TypeOK, Hands, WebLocals, TcpLocals, WebIdle, TcpIdle

LEMMA WebIdleType == WebIdle \in WebLocals
BY DEF WebIdle, WebLocals

LEMMA TcpIdleType == TcpIdle \in TcpLocals
BY DEF TcpIdle, TcpLocals

LEMMA TcpMoves ==
  ASSUME NEW t \in TcpLocals, NEW c \in ClientIDs, NEW n \in Nat \ {0},
         NEW T \in SUBSET ClientIDs, NEW F \in SUBSET ClientIDs, NEW G \in SUBSET ClientIDs
  PROVE  /\ [t EXCEPT !.todo = T, !.found = F, !.gone = G] \in TcpLocals
         /\ [t EXCEPT !.todo = T, !.client = c, !.next = n] \in TcpLocals
         /\ [t EXCEPT !.pc = "raised"] \in TcpLocals
<1>1. [t EXCEPT !.todo = T, !.found = F, !.gone = G] \in TcpLocals
  BY DEF TcpLocals
<1>2. [t EXCEPT !.todo = T, !.client = c, !.next = n] \in TcpLocals
  BY DEF TcpLocals
<1>3. [t EXCEPT !.pc = "raised"] \in TcpLocals
  BY DEF TcpLocals
<1> QED BY <1>1, <1>2, <1>3

\* A step of the web thread, of a socket or of a browser keeps the types.
LEMMA WebIsTyped ==
  ASSUME TypeOK, Hands,
         \/ \E s \in Sockets : OpenSocket(s) \/ ConnectionCloses(s)
         \/ \E s \in Sockets, c \in ClientIDs : Authenticate(s, c)
         \/ WebStep
  PROVE  TypeOK' /\ Hands'
<1>1. ASSUME NEW s \in Sockets, OpenSocket(s) \/ ConnectionCloses(s)
      PROVE  TypeOK' /\ Hands'
  BY <1>1 DEF OpenSocket, ConnectionCloses, TypeOK, Hands
<1>2. ASSUME NEW s \in Sockets, NEW c \in ClientIDs, Authenticate(s, c)
      PROVE  TypeOK' /\ Hands'
  <2>1. lastClientID' \in 0 .. MaxClients
    BY <1>2, MaxClientsAssumption DEF Authenticate, TypeOK
  <2>2. \E n \in ClientIDs, b \in BOOLEAN :
          web' = [pc |-> "create", socket |-> s, client |-> n, isNew |-> b]
    <3>1. CASE IsValidClientID(c)
      BY <1>2, <3>1 DEF Authenticate
    <3>2. CASE ~IsValidClientID(c)
      <4>1. lastClientID + 1 \in ClientIDs
        BY <1>2, <3>2, MaxClientsAssumption DEF Authenticate, TypeOK, ClientIDs
      <4> QED BY <1>2, <3>2, <4>1 DEF Authenticate, NewClientID
    <3> QED BY <3>1, <3>2
  <2> QED BY <1>2, <2>1, <2>2 DEF Authenticate, TypeOK, WebLocals, Hands
<1>3. CASE CreateList
  BY <1>3 DEF CreateList, TypeOK, WebLocals, Hands
<1>4. CASE AppendSocket
  <2>1. web.socket \in Sockets /\ web.client \in ClientIDs
    BY <1>4 DEF AppendSocket, Hands
  <2>2. Append(sockets[web.client], web.socket) \in Seq(Sockets)
    BY <2>1, AppendProperties DEF TypeOK
  <2> QED BY <1>4, <2>1, <2>2 DEF AppendSocket, WebIdle, TypeOK, WebLocals, Hands
<1>5. CASE DeleteKey
  BY <1>5 DEF DeleteKey, WebIdle, TypeOK, WebLocals, TcpLocals, Hands
<1>6. ASSUME NEW s \in Sockets, OnClose(s)
      PROVE  TypeOK' /\ Hands'
  <2>1. CASE ClientsOf(s) = {}
    BY <1>6, <2>1 DEF OnClose, TypeOK, Hands
  <2>2. CASE ClientsOf(s) # {}
    <3>1. PICK c \in ClientsOf(s) :
            /\ sockets' = [sockets EXCEPT ![c] = RemoveFirst(sockets[c], s)]
            /\ web' = AfterRemoval(c, RemoveFirst(sockets[c], s))
            /\ left' = left \cup {c}
      BY <1>6, <2>2 DEF OnClose
    <3>2. c \in ClientIDs /\ c \in keys
      BY DEF ClientsOf, TypeOK
    <3>3. RemoveFirst(sockets[c], s) \in Seq(Sockets)
      BY <3>2, RemoveFirstType DEF TypeOK
    <3>4. sockets' \in [ClientIDs -> Seq(Sockets)] /\ sockets'[c] = RemoveFirst(sockets[c], s)
      BY <3>1, <3>2, <3>3 DEF TypeOK
    <3>5. \/ web' = WebIdle
          \/ web' = [pc |-> "delete", socket |-> None, client |-> c, isNew |-> FALSE] /\ sockets'[c] = <<>>
      BY <3>1, <3>4 DEF AfterRemoval, WebIdle
    <3>6. web' \in WebLocals
      <4>1. [pc |-> "delete", socket |-> None, client |-> c, isNew |-> FALSE] \in WebLocals
        BY <3>2 DEF WebLocals
      <4> QED BY <3>5, <4>1, WebIdleType
    <3>7. sock' \in [Sockets -> {"none", "open", "closing", "closed"}] /\ left' \subseteq ClientIDs
      BY <1>6, <3>1, <3>2 DEF OnClose, TypeOK
    <3>8. TypeOK'
      BY <1>6, <3>4, <3>6, <3>7 DEF OnClose, TypeOK
    <3>9. Hands'
      BY <1>6, <3>2, <3>5 DEF OnClose, WebIdle, Hands
    <3> QED BY <3>8, <3>9
  <2> QED BY <2>1, <2>2
<1> QED BY <1>1, <1>2, <1>3, <1>4, <1>5, <1>6 DEF WebStep

\* The list notify iterates over, and the socket it sends to next.
LEMMA IteratedIsList ==
  ASSUME TypeOK, tcp.client # None
  PROVE  Iterated \in Seq(Sockets) /\ Len(Iterated) \in Nat /\ DOMAIN Iterated = 1 .. Len(Iterated)
<1>1. tcp.client \in ClientIDs
  BY DEF TypeOK, TcpLocals
<1>2. Iterated \in Seq(Sockets)
  BY <1>1, EmptySeq DEF Iterated, TypeOK
<1> QED BY <1>2, LenProperties

LEMMA SendsToSocket ==
  ASSUME TypeOK, SendToSocket, ~(tcp.next > Len(Iterated))
  PROVE  tcp.next \in DOMAIN Iterated /\ Iterated[tcp.next] \in Sockets
<1>1. Iterated \in Seq(Sockets) /\ Len(Iterated) \in Nat /\ DOMAIN Iterated = 1 .. Len(Iterated)
  BY IteratedIsList DEF SendToSocket
<1>2. tcp.next \in 1 .. Len(Iterated)
  BY <1>1 DEF TypeOK, TcpLocals
<1> QED BY <1>1, <1>2, ElementOfSeq

\* A step of the TCP thread keeps the types.
LEMMA TcpIsTyped ==
  ASSUME TypeOK, Hands,
         \/ \E listeners \in SUBSET ClientIDs : Notify(listeners)
         \/ TcpStep
         \/ UNCHANGED vars
  PROVE  TypeOK' /\ Hands'
<1>1. Hands'
  BY DEF Notify, TcpStep, FilterClient, LookupClient, NextClient, SendToSocket, vars, Hands
<1> SUFFICES TypeOK'
  BY <1>1
<1>2. ASSUME NEW listeners \in SUBSET ClientIDs, Notify(listeners)
      PROVE  TypeOK'
  <2>1. tcp' \in TcpLocals
    <3>1. [TcpIdle EXCEPT !.pc = "filter", !.todo = listeners] \in TcpLocals
      BY TcpIdleType DEF TcpLocals
    <3> QED BY <1>2, <3>1 DEF Notify
  <2> QED BY <1>2, <2>1 DEF Notify, TypeOK
<1>3. ASSUME tcp' \in TcpLocals, got' \in [Sockets -> Nat],
             UNCHANGED <<lastClientID, keys, sockets, sock, told, web, due, left>>
      PROVE  TypeOK'
  BY <1>3 DEF TypeOK
<1>4. CASE FilterClient
  <2>0. tcp \in TcpLocals
    BY DEF TypeOK
  <2>1. tcp' \in TcpLocals
    <3>1. CASE tcp.todo = {}
      BY <1>4, <2>0, <3>1 DEF FilterClient, TcpLocals
    <3>2. CASE tcp.todo # {}
      <4>1. PICK c \in tcp.todo :
              tcp' = [tcp EXCEPT !.todo = @ \ {c}, !.found = IF IsListening(c) THEN @ \cup {c} ELSE @]
        BY <1>4, <3>2 DEF FilterClient
      <4>2. c \in ClientIDs
        BY <2>0 DEF TcpLocals
      <4>3. CASE IsListening(c)
        BY <2>0, <4>1, <4>2, <4>3 DEF TcpLocals
      <4>4. CASE ~IsListening(c)
        BY <2>0, <4>1, <4>2, <4>4 DEF TcpLocals
      <4> QED BY <4>3, <4>4
    <3> QED BY <3>1, <3>2
  <2> QED BY <1>3, <1>4, <2>1 DEF FilterClient, TypeOK
<1>5. CASE LookupClient
  <2>0. tcp \in TcpLocals
    BY DEF TypeOK
  <2>1. tcp' \in TcpLocals
    <3>1. CASE tcp.todo = {}
      BY <1>5, <2>0, <3>1 DEF LookupClient, TcpLocals
    <3>2. CASE tcp.todo # {}
      <4>1. PICK c \in tcp.todo :
              \/ tcp' = [tcp EXCEPT !.todo = tcp.todo \ {c}, !.found = tcp.found \cup {c},
                                    !.gone = tcp.gone \ {c}]
              \/ tcp' = [tcp EXCEPT !.pc = "raised"]
        BY <1>5, <3>2 DEF LookupClient
      <4>2. /\ tcp.todo \ {c} \in SUBSET ClientIDs /\ tcp.found \cup {c} \in SUBSET ClientIDs
            /\ tcp.gone \ {c} \in SUBSET ClientIDs /\ c \in ClientIDs /\ 1 \in Nat \ {0}
        BY <2>0 DEF TcpLocals
      <4>3. /\ [tcp EXCEPT !.todo = tcp.todo \ {c}, !.found = tcp.found \cup {c},
                           !.gone = tcp.gone \ {c}] \in TcpLocals
            /\ [tcp EXCEPT !.pc = "raised"] \in TcpLocals
        BY <2>0, <4>2, TcpMoves
      <4> QED BY <4>1, <4>3
    <3> QED BY <3>1, <3>2
  <2> QED BY <1>3, <1>5, <2>1 DEF LookupClient, TypeOK
<1>6. CASE NextClient
  <2>0. tcp \in TcpLocals
    BY DEF TypeOK
  <2>1. tcp' \in TcpLocals
    <3>1. CASE tcp.todo = {}
      BY <1>6, <2>0, <3>1 DEF NextClient, TcpLocals
    <3>2. CASE tcp.todo # {}
      <4>1. PICK c \in tcp.todo : tcp' = [tcp EXCEPT !.todo = @ \ {c}, !.client = c, !.next = 1]
        BY <1>6, <3>2 DEF NextClient
      <4>2. c \in ClientIDs
        BY <2>0 DEF TcpLocals
      <4>3. tcp.todo \ {c} \in SUBSET ClientIDs /\ {} \in SUBSET ClientIDs /\ 1 \in Nat \ {0}
        BY <2>0 DEF TcpLocals
      <4> QED BY <2>0, <4>1, <4>2, <4>3, TcpMoves
    <3> QED BY <3>1, <3>2
  <2> QED BY <1>3, <1>6, <2>1 DEF NextClient, TypeOK
<1>7. CASE SendToSocket
  <2>1. tcp.next \in Nat /\ tcp \in TcpLocals
    BY DEF TypeOK, TcpLocals
  <2>2. CASE tcp.next > Len(Iterated)
    <3>1. tcp' = [tcp EXCEPT !.client = None] /\ UNCHANGED got
      BY <1>7, <2>2 DEF SendToSocket, Iterated
    <3>2. tcp' \in TcpLocals
      BY <2>1, <3>1 DEF TcpLocals
    <3> QED BY <1>3, <1>7, <3>1, <3>2 DEF SendToSocket, TypeOK
  <2>3. CASE ~(tcp.next > Len(Iterated))
    <3> DEFINE s == Iterated[tcp.next]
    <3>1. s \in Sockets
      BY <1>7, <2>3, SendsToSocket
    <3> HIDE DEF s
    <3>2. /\ got' = [got EXCEPT ![s] = IF sock[s] = "open" THEN @ + 1 ELSE @]
          /\ tcp' = [tcp EXCEPT !.next = @ + 1]
      BY <1>7, <2>3 DEF SendToSocket, Iterated, After, s
    <3>3. got' \in [Sockets -> Nat]
      BY <3>1, <3>2 DEF TypeOK
    <3>4. tcp' \in TcpLocals
      BY <2>1, <3>2 DEF TcpLocals
    <3> QED BY <1>3, <1>7, <3>3, <3>4 DEF SendToSocket
  <2> QED BY <2>2, <2>3
<1>8. CASE UNCHANGED vars
  BY <1>8 DEF vars, TypeOK
<1> QED BY <1>2, <1>4, <1>5, <1>6, <1>7, <1>8 DEF TcpStep

\* Type correctness: the web thread always knows whose list it is about to
\* change, and notify never indexes a list beyond its end, whatever is removed
\* between its check and its access (websockethandler.py:76-89, 154-191).
THEOREM TypeCorrect == Spec => []TypeOK
<1>1. Init => TypeOK /\ Hands
  BY StartIsTyped
<1>2. TypeOK /\ Hands /\ [Next]_vars => TypeOK' /\ Hands'
  BY WebIsTyped, TcpIsTyped DEF Next
<1> QED BY <1>1, <1>2, PTL DEF Spec

------------------------------------------------------------------------------
(* The map *)

LEMMA StartsEmpty == Init => MapInv
<1> SUFFICES ASSUME Init PROVE MapInv
  OBVIOUS
<1>1. New
  BY DEF Init, WebIdle, New
<1>2. Lists
  <2>1. DOMAIN <<>> = {} /\ ToSet(<<>>) = {}
    BY DEF ToSet
  <2>2. \A c \in ClientIDs : sockets[c] = <<>> /\ Held(c) = {}
    BY NoneAssumption DEF Init, Held, ClientIDs
  <2> QED BY <2>1, <2>2 DEF Init, Lists, IsInjective
<1> QED BY <1>1, <1>2, StartIsTyped DEF MapInv

\* A socket that is not told a client ID is in no list.
LEMMA UntoldIsListedNowhere ==
  ASSUME MapInv, NEW s \in Sockets, told[s] = None
  PROVE  ClientsOf(s) = {} /\ \A c \in ClientIDs : s \notin ToSet(sockets[c])
<1>1. \A c \in ClientIDs : c # None
  BY NoneAssumption DEF ClientIDs
<1>2. \A c \in ClientIDs : s \notin ToSet(sockets[c])
  BY <1>1 DEF MapInv, Lists, Held
<1> QED BY <1>2 DEF ClientsOf, MapInv, TypeOK

\* A socket that is told a client ID and not closed is in that client's list,
\* and the client in the map.
LEMMA ToldIsListed ==
  ASSUME MapInv, NEW s \in Sockets, NEW c \in ClientIDs, told[s] = c, sock[s] # "closed"
  PROVE  /\ c \in keys
         /\ \E i \in DOMAIN sockets[c] : i \in Nat \ {0} /\ sockets[c][i] = s
<1>1. s \in ToSet(sockets[c])
  BY DEF MapInv, Lists, Held
<1>2. sockets[c] # <<>>
  BY <1>1 DEF ToSet
<1>3. DOMAIN sockets[c] = 1 .. Len(sockets[c]) /\ Len(sockets[c]) \in Nat
  BY LenProperties DEF MapInv, TypeOK
<1> QED BY <1>1, <1>2, <1>3 DEF MapInv, Lists, ToSet

\* The second branch of AppendSocket is for a socket that is in another list.
LEMMA AppendTells ==
  ASSUME MapInv, AppendSocket
  PROVE  /\ told' = [told EXCEPT ![web.socket] = web.client] /\ UNCHANGED sock
         /\ web.socket \in Sockets /\ web.client \in ClientIDs /\ web.client \in keys
         /\ told[web.socket] = None /\ sock[web.socket] # "closed"
<1>1. web.socket \in Sockets /\ told[web.socket] = None
  BY DEF AppendSocket, MapInv, Hands, New
<1>2. ClientsOf(web.socket) = {}
  BY <1>1, UntoldIsListedNowhere
<1> QED BY <1>1, <1>2 DEF AppendSocket, MapInv, Hands, New

LEMMA AppendKeepsMap ==
  ASSUME MapInv, AppendSocket
  PROVE  New' /\ Lists'
<1>0. PICK c \in ClientIDs, s \in Sockets : c = web.client /\ s = web.socket
  BY AppendTells
<1>1. /\ told' = [told EXCEPT ![s] = c] /\ UNCHANGED sock
      /\ s \in Sockets /\ c \in ClientIDs /\ c \in keys
      /\ told[s] = None /\ sock[s] # "closed"
  BY <1>0, AppendTells
<1>2. web' = WebIdle /\ keys' = keys /\ sockets' = [sockets EXCEPT ![c] = Append(sockets[c], s)]
  BY <1>0 DEF AppendSocket
<1>3. New'
  BY <1>2 DEF New, WebIdle
<1>4. sockets \in [ClientIDs -> Seq(Sockets)] /\ told \in [Sockets -> ClientIDs \cup {None}]
  BY DEF MapInv, TypeOK
<1>5. s \notin ToSet(sockets[c])
  BY <1>1, UntoldIsListedNowhere
<1>6. /\ Append(sockets[c], s) # <<>> /\ IsInjective(Append(sockets[c], s))
      /\ ToSet(Append(sockets[c], s)) = ToSet(sockets[c]) \cup {s}
  BY <1>1, <1>4, <1>5, AppendedOnce DEF MapInv, Lists
<1>7. Held(c)' = Held(c) \cup {s}
  BY <1>1, <1>4 DEF Held
<1>8. \A d \in ClientIDs : d # c => Held(d)' = Held(d) /\ sockets'[d] = sockets[d]
  <2>1. \A d \in ClientIDs : d # None
    BY NoneAssumption DEF ClientIDs
  <2> QED BY <1>1, <1>2, <1>4, <2>1 DEF Held
<1>9. sockets'[c] = Append(sockets[c], s)
  BY <1>1, <1>2, <1>4
<1>10. ASSUME NEW d \in ClientIDs
       PROVE  /\ sockets'[d] # <<>> => d \in keys'
              /\ ~(d \in keys' /\ sockets'[d] = <<>>)
              /\ IsInjective(sockets'[d])
              /\ ToSet(sockets'[d]) = Held(d)'
  <2>1. CASE d = c
    BY <1>1, <1>2, <1>6, <1>7, <1>9, <2>1 DEF MapInv, Lists
  <2>2. CASE d # c
    <3>1. ~(d \in keys /\ sockets[d] = <<>>)
      BY <1>0, <2>2 DEF MapInv, Lists
    <3> QED BY <1>2, <1>8, <2>2, <3>1 DEF MapInv, Lists
  <2> QED BY <2>1, <2>2
<1>11. Lists'
  BY <1>10 DEF Lists
<1> QED BY <1>3, <1>11

\* What OnClose does when the socket is in a list, and that it is in one when
\* it has a client ID.
LEMMA CloseRemoves ==
  ASSUME MapInv, NEW s \in Sockets, OnClose(s)
  PROVE  /\ web.pc = "idle" /\ sock[s] = "closing" /\ sock' = [sock EXCEPT ![s] = "closed"]
         /\ UNCHANGED <<keys, told, tcp, got, due>>
         /\ \/ told[s] \notin ClientIDs /\ UNCHANGED <<sockets, web, left>>
            \/ /\ told[s] \in ClientIDs /\ told[s] \in keys
               /\ s \in ToSet(sockets[told[s]])
               /\ sockets' = [sockets EXCEPT ![told[s]] = RemoveFirst(sockets[told[s]], s)]
               /\ web' = AfterRemoval(told[s], RemoveFirst(sockets[told[s]], s))
               /\ left' = left \cup {told[s]}
<1>1. \A c \in ClientIDs : s \in ToSet(sockets[c]) <=> told[s] = c
  BY DEF OnClose, MapInv, Lists, Held
<1>2. CASE told[s] \notin ClientIDs
  <2>1. ClientsOf(s) = {}
    BY <1>1, <1>2 DEF ClientsOf, MapInv, TypeOK
  <2> QED BY <1>2, <2>1 DEF OnClose
<1>3. CASE told[s] \in ClientIDs
  <2>1. told[s] \in keys
    BY <1>3, ToldIsListed DEF OnClose
  <2>2. ClientsOf(s) = {told[s]}
    BY <1>1, <1>3, <2>1 DEF ClientsOf, MapInv, TypeOK
  <2> QED BY <1>1, <1>3, <2>1, <2>2 DEF OnClose
<1> QED BY <1>2, <1>3

LEMMA CloseKeepsMap ==
  ASSUME MapInv, NEW s \in Sockets, OnClose(s)
  PROVE  New' /\ Lists'
<1>0. sockets \in [ClientIDs -> Seq(Sockets)] /\ sock \in [Sockets -> {"none", "open", "closing", "closed"}]
  BY DEF MapInv, TypeOK
<1>1. /\ web.pc = "idle" /\ sock[s] = "closing" /\ sock' = [sock EXCEPT ![s] = "closed"]
      /\ UNCHANGED <<keys, told>>
  BY CloseRemoves
<1>2. \A d \in ClientIDs : Held(d)' = Held(d) \ {s} /\ (told[s] # d => Held(d)' = Held(d))
  BY <1>0, <1>1 DEF Held
<1>3. CASE told[s] \notin ClientIDs /\ UNCHANGED <<sockets, web>>
  <2>1. New'
    BY <1>1, <1>3 DEF New
  <2>2. \A d \in ClientIDs : Held(d)' = Held(d)
    BY <1>2, <1>3
  <2>3. Lists'
    BY <1>1, <1>3, <2>2 DEF MapInv, Lists
  <2> QED BY <2>1, <2>3
<1>4. ASSUME NEW c \in ClientIDs, c = told[s], c \in keys, s \in ToSet(sockets[c]),
             sockets' = [sockets EXCEPT ![c] = RemoveFirst(sockets[c], s)],
             web' = AfterRemoval(c, RemoveFirst(sockets[c], s))
      PROVE  New' /\ Lists'
  <2> DEFINE rest == RemoveFirst(sockets[c], s)
  <2>1. IsInjective(sockets[c])
    BY DEF MapInv, Lists
  <2>2. IsInjective(rest) /\ ToSet(rest) = ToSet(sockets[c]) \ {s}
    BY <1>0, <1>4, <2>1, RemovedOnce
  <2>3. sockets'[c] = rest /\ \A d \in ClientIDs : d # c => sockets'[d] = sockets[d]
    BY <1>0, <1>4
  <2> HIDE DEF rest
  <2>4. /\ web'.pc \in {"idle", "delete"}
        /\ rest = <<>> => web'.pc = "delete" /\ web'.client = c
    BY <1>4 DEF AfterRemoval, WebIdle, rest
  <2>5. New'
    BY <2>4 DEF New
  <2>6. ASSUME NEW d \in ClientIDs
        PROVE  /\ sockets'[d] # <<>> => d \in keys'
               /\ d \in keys' /\ sockets'[d] = <<>> => web'.pc \in {"append", "delete"} /\ d = web'.client
               /\ IsInjective(sockets'[d])
               /\ ToSet(sockets'[d]) = Held(d)'
    <3>1. CASE d = c
      BY <1>1, <1>2, <1>4, <2>2, <2>3, <2>4, <3>1 DEF MapInv, Lists
    <3>2. CASE d # c
      <4>1. ~(d \in keys /\ sockets[d] = <<>>)
        BY <1>1 DEF MapInv, Lists
      <4> QED BY <1>1, <1>2, <1>4, <2>3, <3>2, <4>1 DEF MapInv, Lists
    <3> QED BY <3>1, <3>2
  <2>7. Lists'
    BY <2>6 DEF Lists
  <2> QED BY <2>5, <2>7
<1> QED BY <1>3, <1>4, CloseRemoves

\* Every step keeps the map in order, if no socket authenticates twice.
LEMMA MapStep ==
  ASSUME OncePerSocket, MapInv, [Next]_vars
  PROVE  MapInv'
<1>1. TypeOK' /\ Hands'
  BY WebIsTyped, TcpIsTyped DEF MapInv, Next
<1> SUFFICES New' /\ Lists'
  BY <1>1 DEF MapInv
<1>2. ASSUME NEW s \in Sockets, OpenSocket(s) \/ ConnectionCloses(s)
      PROVE  New' /\ Lists'
  <2>1. /\ UNCHANGED <<told, web, keys, sockets>>
        /\ \A t \in Sockets : sock'[t] = "closed" <=> sock[t] = "closed"
    BY <1>2 DEF OpenSocket, ConnectionCloses, MapInv, TypeOK
  <2>2. \A c \in ClientIDs : Held(c)' = Held(c)
    BY <2>1 DEF Held
  <2>3. New'
    BY <2>1 DEF MapInv, New, Hands
  <2>4. Lists'
    BY <2>1, <2>2 DEF MapInv, Lists
  <2> QED BY <2>3, <2>4
<1>3. ASSUME NEW s \in Sockets, NEW c \in ClientIDs, Authenticate(s, c)
      PROVE  New' /\ Lists'
  <2>1. /\ web.pc = "idle" /\ UNCHANGED <<told, sock, keys, sockets>> /\ web'.socket = s
        /\ told[s] = None /\ sock[s] = "open"
    BY <1>3 DEF Authenticate
  <2>2. New'
    BY <2>1 DEF New
  <2>3. \A d \in ClientIDs : Held(d)' = Held(d)
    BY <2>1 DEF Held
  <2>4. Lists'
    BY <2>1, <2>3 DEF MapInv, Lists
  <2> QED BY <2>2, <2>4
<1>4. CASE CreateList
  <2>1. /\ web.pc = "create" /\ web'.pc = "append" /\ UNCHANGED <<told, sock, sockets>>
        /\ web'.client = web.client /\ web'.socket = web.socket /\ keys' = keys \cup {web.client}
    BY <1>4 DEF CreateList, MapInv, TypeOK, WebLocals
  <2>2. New'
    BY <2>1 DEF MapInv, New
  <2>3. \A d \in ClientIDs : Held(d)' = Held(d)
    BY <2>1 DEF Held
  <2>4. Lists'
    BY <2>1, <2>3 DEF MapInv, Lists
  <2> QED BY <2>2, <2>4
<1>5. CASE AppendSocket
  BY <1>5, AppendKeepsMap
<1>6. CASE DeleteKey
  <2>1. /\ web.pc = "delete" /\ web'.pc = "idle" /\ UNCHANGED <<told, sock, sockets>>
        /\ keys' = keys \ {web.client} /\ sockets[web.client] = <<>>
    BY <1>6 DEF DeleteKey, MapInv, Hands, WebIdle
  <2>2. New'
    BY <2>1 DEF New
  <2>3. \A d \in ClientIDs : Held(d)' = Held(d)
    BY <2>1 DEF Held
  <2>4. Lists'
    BY <2>1, <2>3 DEF MapInv, Lists
  <2> QED BY <2>2, <2>4
<1>7. ASSUME NEW s \in Sockets, OnClose(s)
      PROVE  New' /\ Lists'
  BY <1>7, CloseKeepsMap
<1>8. CASE UNCHANGED <<told, sock, web, keys, sockets>>
  <2>1. \A d \in ClientIDs : Held(d)' = Held(d)
    BY <1>8 DEF Held
  <2> QED BY <1>8, <2>1 DEF MapInv, New, Lists
<1>9. CASE TcpStep \/ (\E listeners \in SUBSET ClientIDs : Notify(listeners)) \/ UNCHANGED vars
  BY <1>8, <1>9 DEF TcpStep, Notify, FilterClient, LookupClient, NextClient, SendToSocket, vars
<1> QED BY <1>2, <1>3, <1>4, <1>5, <1>6, <1>7, <1>9 DEF Next, WebStep

\* Whenever the web thread is between two commands, the map holds the sockets
\* that were told a client ID and are not closed, each once and under that ID,
\* and neither another socket nor an empty list (websockethandler.py:76-89,
\* 180-191), provided that a socket authenticates only once, as the browser's
\* sockethandler.js has it.
THEOREM MapIsRight == ASSUME OncePerSocket PROVE Spec => []MapMatchesSockets
<1>1. Init => MapInv
  BY StartsEmpty
<1>2. MapInv /\ [Next]_vars => MapInv'
  BY MapStep
<1>3. MapInv => MapMatchesSockets
  BY DEF MapInv, Lists, Held, MapMatchesSockets
<1> QED BY <1>1, <1>2, <1>3, PTL DEF Spec

------------------------------------------------------------------------------
(* Delivery *)

Delivery == Sends /\ NotYet /\ Ahead

LEMMA StartsUnsent == Init => Inv
<1> SUFFICES ASSUME Init PROVE Inv
  OBVIOUS
<1>1. Found
  BY DEF Init, TcpIdle, Found, RaisesOnlyWhenSocketsLeave
<1>2. Sends /\ NotYet /\ Ahead
  BY DEF Init, TcpIdle, Sends, NotYet, Ahead, Expected
<1> QED BY <1>1, <1>2, StartsEmpty DEF Inv

\* Only DeleteKey takes a client out of the map, and counts it as left.
LEMMA FoundStep ==
  ASSUME TypeOK, Hands, Found, [Next]_vars
  PROVE  Found'
<1> USE DEF Found, RaisesOnlyWhenSocketsLeave
<1>1. ASSUME tcp' = tcp, keys \subseteq keys', left \subseteq left'
      PROVE  Found'
  BY <1>1
<1>2. ASSUME NEW s \in Sockets, OpenSocket(s) \/ ConnectionCloses(s) \/ OnClose(s)
      PROVE  Found'
  BY <1>1, <1>2 DEF OpenSocket, ConnectionCloses, OnClose
<1>3. ASSUME NEW s \in Sockets, NEW c \in ClientIDs, Authenticate(s, c)
      PROVE  Found'
  BY <1>1, <1>3 DEF Authenticate
<1>4. CASE CreateList \/ AppendSocket
  BY <1>1, <1>4 DEF CreateList, AppendSocket
<1>5. CASE DeleteKey
  <2>1. /\ tcp'.pc = tcp.pc /\ tcp'.todo = tcp.todo /\ tcp'.found = tcp.found
        /\ tcp'.gone = tcp.gone \cup {web.client}
        /\ keys' = keys \ {web.client} /\ left' = left \cup {web.client}
    BY <1>5 DEF DeleteKey, TypeOK, TcpLocals
  <2> QED BY <2>1
<1>6. ASSUME NEW listeners \in SUBSET ClientIDs, Notify(listeners)
      PROVE  Found'
  BY <1>6 DEF Notify, TcpIdle
<1>7. CASE FilterClient
  <2>1. UNCHANGED <<keys, left>> /\ tcp.pc = "filter"
    BY <1>7 DEF FilterClient
  <2>2. CASE tcp.todo = {}
    BY <1>7, <2>1, <2>2 DEF FilterClient, TypeOK, TcpLocals
  <2>3. CASE tcp.todo # {}
    <3>1. PICK c \in tcp.todo :
            tcp' = [tcp EXCEPT !.todo = @ \ {c}, !.found = IF IsListening(c) THEN @ \cup {c} ELSE @]
      BY <1>7, <2>3 DEF FilterClient
    <3>2. /\ tcp'.pc = "filter" /\ tcp'.gone = tcp.gone
          /\ tcp'.found = IF IsListening(c) THEN tcp.found \cup {c} ELSE tcp.found
      BY <2>1, <3>1 DEF TypeOK, TcpLocals
    <3> QED BY <2>1, <3>2 DEF IsListening
  <2> QED BY <2>2, <2>3
<1>8. CASE LookupClient
  <2>1. UNCHANGED <<keys, left>> /\ tcp.pc = "lookup"
    BY <1>8 DEF LookupClient
  <2>2. CASE tcp.todo = {}
    BY <1>8, <2>1, <2>2 DEF LookupClient, TypeOK, TcpLocals
  <2>3. CASE tcp.todo # {}
    <3>1. PICK c \in tcp.todo :
              tcp' = IF c \in keys
                     THEN [tcp EXCEPT !.todo = @ \ {c}, !.found = @ \cup {c}, !.gone = @ \ {c}]
                     ELSE [tcp EXCEPT !.pc = "raised"]
      BY <1>8, <2>3 DEF LookupClient
    <3>2. CASE c \in keys
      <4>1. tcp'.pc = "lookup" /\ tcp'.gone = tcp.gone \ {c} /\ tcp'.todo = tcp.todo \ {c}
        BY <2>1, <3>1, <3>2 DEF TypeOK, TcpLocals
      <4> QED BY <2>1, <4>1
    <3>3. CASE c \notin keys
      <4>1. tcp'.pc = "raised" /\ tcp'.gone = tcp.gone /\ tcp'.todo = tcp.todo
        BY <2>1, <3>1, <3>3 DEF TypeOK, TcpLocals
      <4>2. c \in left
        BY <2>1, <3>3
      <4> QED BY <2>1, <4>1, <4>2
    <3> QED BY <3>2, <3>3
  <2> QED BY <2>2, <2>3
<1>9. CASE NextClient \/ SendToSocket
  <2>1. UNCHANGED left /\ tcp'.pc \in {"send", "sent"} /\ tcp'.gone = tcp.gone
    <3>1. CASE NextClient
      <4>1. \/ tcp' = [tcp EXCEPT !.pc = "sent"]
            \/ \E c \in tcp.todo : tcp' = [tcp EXCEPT !.todo = @ \ {c}, !.client = c, !.next = 1]
        BY <3>1 DEF NextClient
      <4> QED BY <3>1, <4>1 DEF NextClient, TypeOK, TcpLocals
    <3>2. CASE SendToSocket
      <4>1. \/ tcp' = [tcp EXCEPT !.client = None]
            \/ tcp' = [tcp EXCEPT !.next = After(tcp.next, sock[Iterated[tcp.next]] = "open")]
        BY <3>2 DEF SendToSocket, Iterated
      <4> QED BY <3>2, <4>1 DEF SendToSocket, TypeOK, TcpLocals
    <3> QED BY <1>9, <3>1, <3>2
  <2> QED BY <2>1
<1>10. CASE UNCHANGED vars
  BY <1>1, <1>10 DEF vars
<1> QED BY <1>2, <1>3, <1>4, <1>5, <1>6, <1>7, <1>8, <1>9, <1>10 DEF Next, WebStep, TcpStep

\* A step that changes nothing of what notify has in hand and does not add to
\* the sockets it has to reach leaves the delivery as it was.
LEMMA QuietKeepsDelivery ==
  ASSUME Delivery, UNCHANGED <<told, got, due>>,
         tcp'.pc = tcp.pc, tcp'.todo = tcp.todo, tcp'.found = tcp.found,
         tcp'.client = tcp.client, tcp'.next = tcp.next,
         Iterated' = Iterated,
         \A s \in due : sock[s] # "none" => sock'[s] # "none",
         Expected' \subseteq Expected
  PROVE  Delivery'
<1>1. Sends'
  BY DEF Delivery, Sends
<1>2. NotYet'
  BY DEF Delivery, NotYet
<1>3. Ahead'
  BY DEF Delivery, Ahead
<1> QED BY <1>1, <1>2, <1>3 DEF Delivery

LEMMA WebKeepsDelivery ==
  ASSUME MapInv, Found, Delivery,
         \/ \E s \in Sockets : OpenSocket(s) \/ ConnectionCloses(s)
         \/ \E s \in Sockets, c \in ClientIDs : Authenticate(s, c)
         \/ CreateList
         \/ DeleteKey
  PROVE  Delivery'
<1>1. ASSUME NEW s \in Sockets, OpenSocket(s) \/ ConnectionCloses(s)
      PROVE  Delivery'
  <2>1. UNCHANGED <<told, got, due, tcp, left, sockets>>
    BY <1>1 DEF OpenSocket, ConnectionCloses
  <2>2. \A t \in due : sock'[t] # "none" /\ (sock'[t] = "open" => sock[t] = "open")
    BY <1>1 DEF OpenSocket, ConnectionCloses, MapInv, TypeOK, Delivery, Sends
  <2> QED BY <2>1, <2>2, QuietKeepsDelivery DEF Iterated, Expected
<1>2. ASSUME NEW s \in Sockets, NEW c \in ClientIDs, Authenticate(s, c)
      PROVE  Delivery'
  <2>1. UNCHANGED <<told, got, due, tcp, left, sockets, sock>>
    BY <1>2 DEF Authenticate
  <2> QED BY <2>1, QuietKeepsDelivery DEF Iterated, Expected
<1>3. CASE CreateList
  <2>1. UNCHANGED <<told, got, due, tcp, left, sockets, sock>>
    BY <1>3 DEF CreateList
  <2> QED BY <2>1, QuietKeepsDelivery DEF Iterated, Expected
<1>4. CASE DeleteKey
  <2>1. /\ UNCHANGED <<told, got, due, sockets, sock>>
        /\ left' = left \cup {web.client} /\ sockets[web.client] = <<>>
        /\ tcp'.pc = tcp.pc /\ tcp'.todo = tcp.todo /\ tcp'.found = tcp.found
        /\ tcp'.client = tcp.client /\ tcp'.next = tcp.next
        /\ tcp'.gone = tcp.gone \cup {web.client}
    BY <1>4 DEF DeleteKey, MapInv, TypeOK, TcpLocals, Hands
  <2>2. Iterated' = Iterated
    BY <2>1 DEF Iterated
  <2>3. Expected' \subseteq Expected
    BY <2>1 DEF Expected
  <2> QED BY <2>1, <2>2, <2>3, QuietKeepsDelivery
<1> QED BY <1>1, <1>2, <1>3, <1>4

\* A socket that authenticates is appended to its list, ahead of the iterator.
LEMMA AppendKeepsDelivery ==
  ASSUME MapInv, Found, Delivery, AppendSocket
  PROVE  Delivery'
<1>0. PICK c \in ClientIDs, s \in Sockets : c = web.client /\ s = web.socket
  BY AppendTells
<1>1. /\ told' = [told EXCEPT ![s] = c] /\ told[s] = None
      /\ sockets' = [sockets EXCEPT ![c] = Append(sockets[c], s)]
      /\ UNCHANGED <<sock, tcp, got, due, left>>
  BY <1>0, AppendTells DEF AppendSocket
<1>2. /\ sockets \in [ClientIDs -> Seq(Sockets)] /\ told \in [Sockets -> ClientIDs \cup {None}]
      /\ tcp.todo \subseteq ClientIDs /\ due \subseteq Sockets /\ tcp.client \in ClientIDs \cup {None}
      /\ None \notin ClientIDs
  BY NoneAssumption DEF MapInv, TypeOK, TcpLocals, ClientIDs
<1>3. /\ \A t \in Sockets : t # s => told'[t] = told[t]
      /\ told'[s] = c /\ got[s] = 0 /\ s \notin due
  BY <1>1, <1>2 DEF Delivery, Sends, NotYet
<1>4. Sends'
  BY <1>1, <1>2, <1>3 DEF Delivery, Sends
<1>5. Expected' = Expected
  BY <1>1, <1>2, <1>3 DEF Expected
<1>6. /\ DOMAIN Iterated \subseteq DOMAIN Iterated'
      /\ \A i \in DOMAIN Iterated : Iterated'[i] = Iterated[i]
      /\ \A i \in DOMAIN Iterated' : i \in DOMAIN Iterated \/ Iterated'[i] = s
  <2>1. /\ DOMAIN Append(sockets[c], s) = DOMAIN sockets[c] \cup {Len(sockets[c]) + 1}
        /\ \A i \in DOMAIN sockets[c] : Append(sockets[c], s)[i] = sockets[c][i]
        /\ Append(sockets[c], s)[Len(sockets[c]) + 1] = s
    BY <1>2, AppendedOnce
  <2>2. CASE tcp.client = c /\ c \notin tcp.gone
    <3>1. Iterated = sockets[c] /\ Iterated' = Append(sockets[c], s)
      BY <1>1, <1>2, <2>2 DEF Iterated
    <3> QED BY <2>1, <3>1
  <2>3. CASE ~(tcp.client = c /\ c \notin tcp.gone)
    <3>1. Iterated' = Iterated
      <4>1. CASE tcp.client \in tcp.gone
        BY <1>1, <4>1 DEF Iterated
      <4>2. CASE tcp.client \notin tcp.gone
        <5>1. sockets'[tcp.client] = sockets[tcp.client]
          BY <1>1, <1>2, <2>3, <4>2
        <5> QED BY <1>1, <4>2, <5>1 DEF Iterated
      <4> QED BY <4>1, <4>2
    <3> QED BY <3>1
  <2> QED BY <2>2, <2>3
<1>7. NotYet'
  <2>1. ASSUME tcp.pc = "send" PROVE \A t \in Sockets : told'[t] \in tcp.todo => got[t] = 0
    BY <1>3, <2>1 DEF Delivery, NotYet
  <2>2. ASSUME tcp.pc = "send", tcp.client # None, NEW i \in DOMAIN Iterated', i >= tcp.next
        PROVE  got[Iterated'[i]] = 0
    BY <1>3, <1>6, <2>2 DEF Delivery, NotYet
  <2>3. \A t \in Sockets : told'[t] = None => got[t] = 0
    BY <1>2, <1>3 DEF Delivery, NotYet
  <2> QED BY <1>1, <2>1, <2>2, <2>3 DEF Delivery, NotYet
<1>8. Ahead'
  <2>1. \A t \in Expected : told'[t] = told[t]
    BY <1>2, <1>3 DEF Expected
  <2> QED BY <1>1, <1>5, <1>6, <2>1 DEF Delivery, Ahead
<1> QED BY <1>4, <1>7, <1>8 DEF Delivery

\* A socket is taken out of its list: what was ahead of the iterator may move
\* behind it, but only in the list of a client that counts as left.
LEMMA CloseKeepsDelivery ==
  ASSUME MapInv, Found, Delivery, NEW s \in Sockets, OnClose(s)
  PROVE  Delivery'
<1>1. /\ sock[s] = "closing" /\ sock' = [sock EXCEPT ![s] = "closed"]
      /\ UNCHANGED <<keys, told, tcp, got, due>>
  BY CloseRemoves
<1>2. /\ sockets \in [ClientIDs -> Seq(Sockets)]
      /\ sock \in [Sockets -> {"none", "open", "closing", "closed"}]
      /\ tcp.client \in ClientIDs \cup {None} /\ due \subseteq Sockets /\ tcp.next \in Nat
  BY DEF MapInv, TypeOK, TcpLocals
<1>3. \A t \in due : sock[t] # "none" => sock'[t] # "none"
  BY <1>1, <1>2
<1>4. \A t \in Sockets : sock'[t] = "open" => sock[t] = "open"
  BY <1>1, <1>2
<1>5. CASE UNCHANGED <<sockets, left>>
  <2>1. Expected' \subseteq Expected
    BY <1>1, <1>2, <1>4, <1>5 DEF Expected
  <2>2. Iterated' = Iterated
    BY <1>1, <1>5 DEF Iterated
  <2> QED BY <1>1, <1>3, <2>1, <2>2, QuietKeepsDelivery
<1>6. ASSUME NEW c \in ClientIDs, c = told[s], s \in ToSet(sockets[c]),
             sockets' = [sockets EXCEPT ![c] = RemoveFirst(sockets[c], s)],
             left' = left \cup {c}
      PROVE  Delivery'
  <2>1. \A d \in ClientIDs : d # c => sockets'[d] = sockets[d]
    BY <1>2, <1>6
  <2>2. CASE tcp.client # c \/ c \in tcp.gone
    <3>1. Iterated' = Iterated
      <4>1. CASE tcp.client \in tcp.gone
        BY <1>1, <4>1 DEF Iterated
      <4>2. CASE tcp.client \notin tcp.gone
        <5>1. sockets'[tcp.client] = sockets[tcp.client]
          BY <1>2, <1>6, <2>2, <4>2
        <5> QED BY <1>1, <4>2, <5>1 DEF Iterated
      <4> QED BY <4>1, <4>2
    <3>2. Expected' \subseteq Expected
      BY <1>1, <1>2, <1>4, <1>6 DEF Expected
    <3> QED BY <1>1, <1>3, <3>1, <3>2, QuietKeepsDelivery
  <2>3. CASE tcp.client = c /\ c \notin tcp.gone
    <3> DEFINE rest == RemoveFirst(sockets[c], s)
    <3>1. IsInjective(sockets[c]) /\ sockets[c] \in Seq(Sockets)
      BY <1>2 DEF MapInv, Lists
    <3>2. /\ rest \in Seq(Sockets)
          /\ \A i \in DOMAIN rest : \E j \in DOMAIN sockets[c] : j >= i /\ rest[i] = sockets[c][j]
      BY <1>6, <3>1, RemovedOnce
    <3>3. Iterated = sockets[c] /\ Iterated' = rest
      BY <1>1, <1>2, <1>6, <2>3 DEF Iterated
    <3>4. Sends'
      BY <1>1, <1>3 DEF Delivery, Sends
    <3>5. NotYet'
      <4>1. ASSUME tcp.pc = "send", NEW i \in DOMAIN rest, i >= tcp.next
            PROVE  got[rest[i]] = 0
        <5>1. PICK j \in DOMAIN sockets[c] : j >= i /\ rest[i] = sockets[c][j]
          BY <3>2
        <5>2. i \in Nat /\ j \in Nat
          BY <3>1, <3>2, LenProperties
        <5>3. j >= tcp.next
          BY <1>2, <4>1, <5>1, <5>2
        <5>4. tcp.client # None
          BY <2>3, NoneAssumption DEF ClientIDs
        <5>5. got[Iterated[j]] = 0
          BY <3>3, <4>1, <5>1, <5>3, <5>4 DEF Delivery, NotYet
        <5> QED BY <3>3, <5>1, <5>5
      <4> HIDE DEF rest
      <4> QED BY <1>1, <3>3, <4>1 DEF Delivery, NotYet
    <3>6. Ahead'
      <4>1. Expected' \subseteq Expected /\ \A t \in Expected' : told[t] # c
        BY <1>1, <1>2, <1>4, <1>6 DEF Expected
      <4> QED BY <1>1, <2>3, <4>1 DEF Delivery, Ahead
    <3> QED BY <3>4, <3>5, <3>6 DEF Delivery
  <2> QED BY <2>2, <2>3
<1> QED BY <1>5, <1>6, CloseRemoves

LEMMA NotifyBegins ==
  ASSUME MapInv, NEW listeners \in SUBSET ClientIDs, Notify(listeners)
  PROVE  Delivery'
<1>1. /\ tcp'.pc = "filter" /\ tcp'.todo = listeners /\ tcp'.client = None
      /\ got' = [s \in Sockets |-> 0]
      /\ due' = {s \in Sockets : sock[s] = "open" /\ told[s] \in listeners}
      /\ UNCHANGED <<sock, told>>
  BY DEF Notify, TcpIdle
<1>2. None \notin ClientIDs
  BY NoneAssumption DEF ClientIDs
<1>3. Sends'
  BY <1>1, <1>2 DEF Sends
<1>4. NotYet'
  BY <1>1 DEF NotYet
<1>5. Ahead'
  BY <1>1 DEF Ahead, Expected
<1> QED BY <1>3, <1>4, <1>5 DEF Delivery

\* A client that is not in the map when notify looks has no socket to be told.
LEMMA FilterKeepsDelivery ==
  ASSUME MapInv, Delivery, FilterClient
  PROVE  Delivery'
<1>1. tcp.pc = "filter" /\ UNCHANGED <<sock, told, got, due, left>> /\ tcp \in TcpLocals /\ due \subseteq Sockets
  BY DEF FilterClient, MapInv, TypeOK
<1>2. Expected' = Expected
  BY <1>1 DEF Expected
<1>3. CASE tcp.todo = {}
  <2>1. tcp'.pc = "lookup" /\ tcp'.todo = tcp.found /\ tcp'.client = tcp.client
    BY <1>1, <1>3 DEF FilterClient, TcpLocals
  <2>2. tcp.client = None /\ None \notin tcp.found
    BY <1>1, NoneAssumption DEF Delivery, Sends, TcpLocals, ClientIDs
  <2>3. Sends'
    BY <1>1, <2>1, <2>2 DEF Delivery, Sends
  <2>4. NotYet'
    BY <1>1, <2>1 DEF Delivery, NotYet
  <2>5. Ahead'
    BY <1>1, <1>2, <1>3, <2>1 DEF Delivery, Ahead
  <2> QED BY <2>3, <2>4, <2>5 DEF Delivery
<1>4. CASE tcp.todo # {}
  <2>1. PICK c \in tcp.todo :
          tcp' = [tcp EXCEPT !.todo = @ \ {c}, !.found = IF IsListening(c) THEN @ \cup {c} ELSE @]
    BY <1>4 DEF FilterClient
  <2>2. /\ tcp'.pc = "filter" /\ tcp'.todo = tcp.todo \ {c} /\ tcp'.client = tcp.client
        /\ tcp'.found = IF IsListening(c) THEN tcp.found \cup {c} ELSE tcp.found
    BY <1>1, <2>1 DEF TcpLocals
  <2>3. Sends'
    BY <1>1, <2>2 DEF Delivery, Sends
  <2>4. NotYet'
    BY <1>1, <2>2 DEF Delivery, NotYet
  <2>5. Ahead'
    <3>1. ASSUME NEW s \in Expected, told[s] = c PROVE IsListening(c)
      <4>1. s \in Sockets /\ sock[s] # "closed" /\ c \in ClientIDs
        BY <1>1, <3>1 DEF Expected, TcpLocals
      <4> QED BY <3>1, <4>1, ToldIsListed DEF IsListening
    <3> QED BY <1>1, <1>2, <2>2, <3>1 DEF Delivery, Ahead
  <2> QED BY <2>3, <2>4, <2>5 DEF Delivery
<1> QED BY <1>3, <1>4

LEMMA LookupKeepsDelivery ==
  ASSUME MapInv, Delivery, LookupClient
  PROVE  Delivery'
<1>1. tcp.pc = "lookup" /\ UNCHANGED <<sock, told, got, due, left>> /\ tcp \in TcpLocals /\ due \subseteq Sockets
  BY DEF LookupClient, MapInv, TypeOK
<1>2. Expected' = Expected
  BY <1>1 DEF Expected
<1>0. tcp.client = None /\ None \notin tcp.found
  BY <1>1, NoneAssumption DEF Delivery, Sends, TcpLocals, ClientIDs
<1>3. CASE tcp.todo = {}
  <2>1. tcp'.pc = "send" /\ tcp'.todo = tcp.found /\ tcp'.client = None
    BY <1>0, <1>1, <1>3 DEF LookupClient, TcpLocals
  <2>3. Sends'
    BY <1>0, <1>1, <2>1 DEF Delivery, Sends
  <2>4. NotYet'
    BY <1>1, <2>1 DEF Delivery, NotYet
  <2>5. Ahead'
    BY <1>1, <1>2, <1>3, <2>1 DEF Delivery, Ahead
  <2> QED BY <2>3, <2>4, <2>5 DEF Delivery
<1>4. CASE tcp.todo # {}
  <2>1. PICK c \in tcp.todo :
          tcp' = IF c \in keys
                 THEN [tcp EXCEPT !.todo = @ \ {c}, !.found = @ \cup {c}, !.gone = @ \ {c}]
                 ELSE [tcp EXCEPT !.pc = "raised"]
    BY <1>4 DEF LookupClient
  <2>2. /\ tcp'.client = None
        /\ \/ tcp'.pc = "lookup" /\ tcp'.todo = tcp.todo \ {c} /\ tcp'.found = tcp.found \cup {c}
           \/ tcp'.pc = "raised" /\ tcp'.todo = tcp.todo
    BY <1>0, <1>1, <2>1 DEF TcpLocals
  <2>3. Sends'
    BY <1>0, <1>1, <2>2 DEF Delivery, Sends
  <2>4. NotYet'
    BY <1>1, <2>2 DEF Delivery, NotYet
  <2>5. Ahead'
    BY <1>1, <1>2, <2>2 DEF Delivery, Ahead
  <2> QED BY <2>3, <2>4, <2>5 DEF Delivery
<1> QED BY <1>3, <1>4

\* The iterator begins before the first socket of a client.
LEMMA NextKeepsDelivery ==
  ASSUME MapInv, Found, Delivery, NextClient
  PROVE  Delivery'
<1>1. /\ tcp.pc = "send" /\ tcp.client = None /\ UNCHANGED <<sockets, sock, told, got, due, left>>
      /\ tcp \in TcpLocals /\ due \subseteq Sockets
  BY DEF NextClient, MapInv, TypeOK
<1>2. Expected' = Expected /\ \A s \in Expected : s \in Sockets /\ told[s] \in ClientIDs
  BY <1>1 DEF Expected, Delivery, Sends
<1>3. None \notin ClientIDs
  BY NoneAssumption DEF ClientIDs
<1>4. CASE tcp.todo = {}
  <2>1. tcp'.pc = "sent" /\ tcp'.client = None /\ tcp'.todo = {}
    BY <1>1, <1>4 DEF NextClient, TcpLocals
  <2>2. Sends'
    BY <1>1, <2>1 DEF Delivery, Sends
  <2>3. NotYet'
    BY <1>1, <2>1 DEF Delivery, NotYet
  <2>4. Ahead'
    BY <1>1, <1>2, <1>3, <1>4, <2>1 DEF Delivery, Ahead
  <2> QED BY <2>2, <2>3, <2>4 DEF Delivery
<1>5. CASE tcp.todo # {}
  <2>1. PICK c \in tcp.todo : tcp' = [tcp EXCEPT !.todo = @ \ {c}, !.client = c, !.next = 1]
    BY <1>1, <1>5 DEF NextClient
  <2>2. /\ tcp'.pc = "send" /\ tcp'.todo = tcp.todo \ {c} /\ tcp'.client = c /\ tcp'.next = 1
        /\ tcp'.gone = tcp.gone /\ c \in ClientIDs
    BY <1>1, <2>1 DEF TcpLocals
  <2>3. Iterated' = IF c \in tcp.gone THEN <<>> ELSE sockets[c]
    BY <1>1, <2>2 DEF Iterated
  <2>4. Sends'
    BY <1>1, <2>2 DEF Delivery, Sends
  <2>5. \A i \in DOMAIN Iterated' : got[Iterated'[i]] = 0
    <3>1. CASE c \in tcp.gone
      BY <2>3, <3>1
    <3>2. CASE c \notin tcp.gone
      <4>1. \A i \in DOMAIN sockets[c] : sockets[c][i] \in Held(c)
        BY <2>2 DEF MapInv, Lists, ToSet
      <4>2. \A s \in Held(c) : got[s] = 0
        BY <1>1, <2>1 DEF Held, Delivery, NotYet
      <4> QED BY <2>3, <3>2, <4>1, <4>2
    <3> QED BY <3>1, <3>2
  <2>6. NotYet'
    BY <1>1, <2>2, <2>5 DEF Delivery, NotYet
  <2>7. Ahead'
    <3>1. ASSUME NEW s \in Expected, told[s] = c
          PROVE  \E i \in DOMAIN Iterated' : i >= 1 /\ Iterated'[i] = s
      <4>1. c \notin tcp.gone
        BY <3>1 DEF Expected, Found
      <4>2. sock[s] # "closed"
        BY DEF Expected
      <4>3. \E i \in DOMAIN sockets[c] : i \in Nat \ {0} /\ sockets[c][i] = s
        BY <1>2, <2>2, <3>1, <4>2, ToldIsListed
      <4> QED BY <2>3, <4>1, <4>3
    <3> QED BY <1>1, <1>2, <1>3, <2>2, <3>1 DEF Delivery, Ahead
  <2> QED BY <2>4, <2>6, <2>7 DEF Delivery
<1> QED BY <1>4, <1>5

\* A socket is sent the message when the iterator comes to it, and never again.
LEMMA SendKeepsDelivery ==
  ASSUME MapInv, Found, Delivery, SendToSocket
  PROVE  Delivery'
<1>1. /\ tcp.pc = "send" /\ tcp.client # None /\ UNCHANGED <<sockets, sock, told, due, left>>
      /\ tcp \in TcpLocals /\ due \subseteq Sockets /\ tcp.next \in Nat
      /\ got \in [Sockets -> Nat]
  BY DEF SendToSocket, MapInv, TypeOK, TcpLocals
<1>2. Expected' = Expected /\ \A s \in Expected : s \in Sockets
  BY <1>1 DEF Expected
<1>3. tcp.client \in ClientIDs
  BY <1>1 DEF TcpLocals
<1>4. Iterated \in Seq(Sockets) /\ Len(Iterated) \in Nat /\ DOMAIN Iterated = 1 .. Len(Iterated)
  BY <1>1, IteratedIsList DEF MapInv
<1>5. CASE tcp.next > Len(Iterated)
  <2>1. tcp' = [tcp EXCEPT !.client = None] /\ UNCHANGED got
    BY <1>5 DEF SendToSocket, Iterated
  <2>2. tcp'.pc = "send" /\ tcp'.client = None /\ tcp'.todo = tcp.todo
    BY <1>1, <2>1 DEF TcpLocals
  <2>3. None \notin tcp.todo
    BY <1>1, NoneAssumption DEF TcpLocals, ClientIDs
  <2>4. Sends'
    BY <1>1, <2>2, <2>3 DEF Delivery, Sends
  <2>5. NotYet'
    BY <1>1, <2>1, <2>2 DEF Delivery, NotYet
  <2>6. Ahead'
    <3>1. ~(\E i \in DOMAIN Iterated : i >= tcp.next)
      BY <1>1, <1>4, <1>5
    <3> QED BY <1>1, <1>2, <2>1, <2>2, <3>1 DEF Delivery, Ahead
  <2> QED BY <2>4, <2>5, <2>6 DEF Delivery
<1>6. CASE ~(tcp.next > Len(Iterated))
  <2> DEFINE n == tcp.next
  <2>1. n \in DOMAIN Iterated /\ Iterated[n] \in Sockets
    BY <1>6, SendsToSocket DEF MapInv
  <2>2. PICK s \in Sockets : s = Iterated[n]
    BY <2>1
  <2>3. /\ got' = [got EXCEPT ![s] = IF sock[s] = "open" THEN got[s] + 1 ELSE got[s]]
        /\ tcp' = [tcp EXCEPT !.next = n + 1]
    BY <1>6, <2>2 DEF SendToSocket, Iterated, After
  <2>4. /\ tcp'.pc = "send" /\ tcp'.client = tcp.client /\ tcp'.todo = tcp.todo /\ tcp'.gone = tcp.gone
        /\ tcp'.next = n + 1
    BY <1>1, <2>3 DEF TcpLocals
  <2>5. Iterated' = Iterated
    BY <1>1, <2>4 DEF Iterated
  <2>6. IsInjective(Iterated) /\ s \in Held(tcp.client)
    <3>1. tcp.client \notin tcp.gone
      BY <2>1 DEF Iterated
    <3>2. Iterated = sockets[tcp.client]
      BY <3>1 DEF Iterated
    <3> QED BY <1>3, <2>1, <2>2, <3>2 DEF MapInv, Lists, ToSet
  <2>7. told[s] = tcp.client /\ told[s] \notin tcp.todo /\ told[s] # None
    BY <1>1, <2>6 DEF Held, Delivery, Sends
  <2>8. got[s] = 0
    BY <1>1, <2>1, <2>2 DEF Delivery, NotYet
  <2>9. /\ \A t \in Sockets : t # s => got'[t] = got[t]
        /\ got'[s] = IF sock[s] = "open" THEN 1 ELSE 0
    BY <1>1, <2>3, <2>8
  <2> HIDE DEF n
  <2>10. Sends'
    BY <1>1, <2>4 DEF Delivery, Sends
  <2>11. NotYet'
    <3>1. \A i \in DOMAIN Iterated : i >= n + 1 => got'[Iterated[i]] = 0
      <4>1. SUFFICES ASSUME NEW i \in DOMAIN Iterated, i >= n + 1 PROVE got'[Iterated[i]] = 0
        OBVIOUS
      <4>2. i \in Nat /\ n \in Nat /\ i >= n /\ i # n
        BY <1>1, <1>4, <2>1, <4>1 DEF n
      <4>3. Iterated[i] # s
        BY <2>1, <2>2, <2>6, <4>2 DEF IsInjective
      <4>4. got[Iterated[i]] = 0
        BY <1>1, <4>2 DEF Delivery, NotYet, n
      <4>5. Iterated[i] \in Sockets
        BY <1>4, ElementOfSeq
      <4> QED BY <2>9, <4>3, <4>4, <4>5
    <3>2. \A t \in Sockets : got'[t] \in {0, 1}
      BY <2>9 DEF Delivery, NotYet
    <3>3. \A t \in Sockets : told[t] \in tcp.todo \cup {None} => got'[t] = got[t]
      BY <2>7, <2>9
    <3> QED BY <1>1, <2>4, <2>5, <3>1, <3>2, <3>3 DEF Delivery, NotYet
  <2>12. Ahead'
    <3>1. ASSUME NEW t \in Expected
          PROVE  \/ told[t] \in tcp.todo
                 \/ got'[t] = 1
                 \/ told[t] = tcp.client /\ \E i \in DOMAIN Iterated : i >= n + 1 /\ Iterated[i] = t
      <4>1. CASE t = s
        BY <2>9, <4>1 DEF Expected
      <4>2. CASE t # s /\ told[t] = tcp.client /\ \E i \in DOMAIN Iterated : i >= n /\ Iterated[i] = t
        <5>1. PICK i \in DOMAIN Iterated : i >= n /\ Iterated[i] = t
          BY <4>2
        <5>2. i \in Nat /\ n \in Nat /\ i # n
          BY <1>1, <1>4, <2>2, <4>2, <5>1 DEF n
        <5>3. i >= n + 1
          BY <5>1, <5>2
        <5> QED BY <4>2, <5>1, <5>3
      <4>3. CASE t # s /\ (told[t] \in tcp.todo \/ got[t] = 1)
        BY <1>2, <2>9, <4>3
      <4> QED BY <1>1, <4>1, <4>2, <4>3 DEF Delivery, Ahead, n
    <3> QED BY <1>1, <1>2, <2>4, <2>5, <3>1 DEF Ahead
  <2> QED BY <2>10, <2>11, <2>12 DEF Delivery
<1> QED BY <1>5, <1>6

LEMMA DeliveryStep ==
  ASSUME OncePerSocket, Inv, [Next]_vars
  PROVE  Inv'
<1>1. MapInv' /\ Found'
  BY MapStep, FoundStep DEF Inv, MapInv
<1>2. MapInv /\ Found /\ Delivery
  BY DEF Inv, Delivery
<1>3. CASE UNCHANGED vars
  <2>1. Iterated' = Iterated /\ Expected' = Expected
    BY <1>3 DEF vars, Iterated, Expected
  <2> QED BY <1>1, <1>2, <1>3, <2>1, QuietKeepsDelivery DEF vars, Inv, Delivery
<1>4. CASE Next
  <2>1. Delivery'
    BY <1>2, <1>4, WebKeepsDelivery, AppendKeepsDelivery, CloseKeepsDelivery, NotifyBegins,
       FilterKeepsDelivery, LookupKeepsDelivery, NextKeepsDelivery, SendKeepsDelivery
       DEF Next, WebStep, TcpStep
  <2> QED BY <1>1, <2>1 DEF Inv, Delivery
<1> QED BY <1>3, <1>4

\* A notification reaches every socket that was open when it began and still is,
\* and none twice, although the web thread changes the lists it iterates over;
\* only the sockets of a client of which another socket left meanwhile may be
\* skipped, and only when one left may it raise a KeyError
\* (websockethandler.py:154-177). This is for any number of sockets, clients and
\* notifications, if no socket authenticates twice.
THEOREM NotificationsArrive == ASSUME OncePerSocket PROVE Spec => []EverySocketIsReached
<1>1. Init => Inv
  BY StartsUnsent
<1>2. Inv /\ [Next]_vars => Inv'
  BY DeliveryStep
<1>3. Inv => EverySocketIsReached
  <2>1. SUFFICES ASSUME Inv PROVE EverySocketIsReached
    OBVIOUS
  <2>2. \A s \in Sockets : got[s] <= 1
    BY <2>1 DEF Inv, NotYet
  <2> QED BY <2>1, <2>2 DEF Inv, Found, Ahead, Expected, EverySocketIsReached
<1> QED BY <1>1, <1>2, <1>3, PTL DEF Spec
=============================================================================
