------------------------- MODULE WebSocketSessions -------------------------
(***************************************************************************)
(* ConverterWebSocketHandler.client_ID_open_sockets_map, which both        *)
(* threads of the web process use without a lock: the web thread adds and  *)
(* removes sockets when they authenticate and close; the TCP thread, in    *)
(* notify, finds the sockets of a job's listeners in it and sends to them. *)
(* A step is what the interpreter does before it may switch threads: one   *)
(* access to the map or to one of its lists.                               *)
(***************************************************************************)
EXTENDS Naturals, FiniteSets, SequencesExt

CONSTANTS Sockets,
          MaxClients,     \* bound: client IDs given out
          OncePerSocket,  \* a socket authenticates once, as sockethandler.js does
          None

ASSUME MaxClientsAssumption == MaxClients \in Nat \ {0}
ASSUME OncePerSocketAssumption == OncePerSocket \in BOOLEAN
ASSUME NoneAssumption == None \notin Sockets /\ None \notin Nat

ClientIDs == 1 .. MaxClients

VARIABLES lastClientID,  \* in Redis: the last client ID given out
          keys,          \* the keys of client_ID_open_sockets_map
          sockets,       \* its lists; <<>> for a client ID that is no key
          sock,          \* the WebSocket connections
          told,          \* the client ID a socket was told (ClientIDMessage)
          web,           \* the web thread
          tcp,           \* the TCP thread in notify
          got,           \* how often each socket got the message of this notify
          due,           \* history: the sockets this notify has to reach
          left           \* history: the clients a socket of which closed meanwhile

vars == <<lastClientID, keys, sockets, sock, told, web, tcp, got, due, left>>

WebIdle == [pc |-> "idle", socket |-> None, client |-> None, isNew |-> FALSE]
TcpIdle == [pc |-> "idle", todo |-> {}, found |-> {}, gone |-> {}, client |-> None, next |-> 1]

WebLocals == [pc : {"idle", "create", "append", "delete"}, socket : Sockets \cup {None},
              client : ClientIDs \cup {None}, isNew : BOOLEAN]
TcpLocals == [pc : {"idle", "filter", "lookup", "send", "raised", "sent"},
              todo : SUBSET ClientIDs, found : SUBSET ClientIDs, gone : SUBSET ClientIDs,
              client : ClientIDs \cup {None}, next : Nat \ {0}]

TypeOK ==
    /\ lastClientID \in 0 .. MaxClients
    /\ keys \subseteq ClientIDs
    /\ sockets \in [ClientIDs -> Seq(Sockets)]
    /\ sock \in [Sockets -> {"none", "open", "closing", "closed"}]
    /\ told \in [Sockets -> ClientIDs \cup {None}]
    /\ web \in WebLocals /\ tcp \in TcpLocals
    /\ got \in [Sockets -> Nat]
    /\ due \subseteq Sockets
    /\ left \subseteq ClientIDs

Init ==
    /\ lastClientID = 0
    /\ keys = {} /\ sockets = [c \in ClientIDs |-> <<>>]
    /\ sock = [s \in Sockets |-> "none"]
    /\ told = [s \in Sockets |-> None]
    /\ web = WebIdle /\ tcp = TcpIdle
    /\ got = [s \in Sockets |-> 0]
    /\ due = {} /\ left = {}

------------------------------------------------------------------------------
(* The web thread *)

\* The clients among whose sockets s is; the dictionary's order decides which of
\* them get_client_ID and on_close meet first.
ClientsOf(s) == {c \in keys : s \in ToSet(sockets[c])}

OpenSocket(s) ==
    /\ sock[s] = "none"
    /\ sock' = [sock EXCEPT ![s] = "open"]
    /\ UNCHANGED <<lastClientID, keys, sockets, told, web, tcp, got, due, left>>

IsValidClientID(c) == c \in 1 .. lastClientID

\* retrieve_new_client_ID: INCR of lastClientID.
NewClientID(last) == last + 1

\* AuthenticateCommand.execute: an ID that was never given out is answered with
\* a new one.
Authenticate(s, claimed) ==
    /\ web.pc = "idle" /\ sock[s] = "open"
    /\ OncePerSocket => told[s] = None
    /\ IF IsValidClientID(claimed)
       THEN /\ web' = [pc |-> "create", socket |-> s, client |-> claimed, isNew |-> FALSE]
            /\ UNCHANGED lastClientID
       ELSE /\ lastClientID < MaxClients
            /\ lastClientID' = lastClientID + 1
            /\ web' = [pc |-> "create", socket |-> s,
                        client |-> NewClientID(lastClientID), isNew |-> TRUE]
    /\ UNCHANGED <<keys, sockets, sock, told, tcp, got, due, left>>

\* set_client_ID: an empty list for a client that has none.
CreateList ==
    /\ web.pc = "create"
    /\ keys' = keys \cup {web.client}
    /\ web' = [web EXCEPT !.pc = "append"]
    /\ UNCHANGED <<lastClientID, sockets, sock, told, tcp, got, due, left>>

\* set_client_ID appends the socket; then, for an ID the client brought along,
\* execute asserts that get_client_ID finds it. When it finds another one, the
\* exception closes the socket.
AppendSocket ==
    /\ web.pc = "append"
    /\ sockets' = [sockets EXCEPT ![web.client] = Append(@, web.socket)]
    /\ \/ /\ told' = [told EXCEPT ![web.socket] = web.client]
          /\ UNCHANGED sock
       \/ /\ ~web.isNew /\ ClientsOf(web.socket) \ {web.client} # {}
          /\ sock' = [sock EXCEPT ![web.socket] = "closing"]
          /\ UNCHANGED told
    /\ web' = WebIdle
    /\ UNCHANGED <<lastClientID, keys, tcp, got, due, left>>

\* The browser or the network closes the connection; on_close runs later.
ConnectionCloses(s) ==
    /\ sock[s] = "open"
    /\ sock' = [sock EXCEPT ![s] = "closing"]
    /\ UNCHANGED <<lastClientID, keys, sockets, told, web, tcp, got, due, left>>

\* on_close removes the socket from the first list it is found in, and the key
\* when the list is empty then.
AfterRemoval_KeepsKey(c, list) == WebIdle
AfterRemoval(c, list) ==
    IF list = <<>> THEN [WebIdle EXCEPT !.pc = "delete", !.client = c] ELSE WebIdle

OnClose(s) ==
    /\ web.pc = "idle" /\ sock[s] = "closing"
    /\ sock' = [sock EXCEPT ![s] = "closed"]
    /\ IF ClientsOf(s) = {} THEN UNCHANGED <<sockets, web, left>>
       ELSE \E c \in ClientsOf(s) :
              LET list == RemoveFirst(sockets[c], s)
              IN /\ sockets' = [sockets EXCEPT ![c] = list]
                 /\ web' = AfterRemoval(c, list)
                 /\ left' = left \cup {c}
    /\ UNCHANGED <<lastClientID, keys, told, tcp, got, due>>

\* The list notify may have looked up stays empty from now on.
DeleteKey ==
    /\ web.pc = "delete"
    /\ keys' = keys \ {web.client}
    /\ tcp' = [tcp EXCEPT !.gone = @ \cup {web.client}]
    /\ left' = left \cup {web.client}
    /\ web' = WebIdle
    /\ UNCHANGED <<lastClientID, sockets, sock, told, got, due>>

------------------------------------------------------------------------------
(* The TCP thread: notify, after the record is saved *)

Notify(listeners) ==
    /\ tcp.pc \in {"idle", "raised", "sent"}
    /\ tcp' = [TcpIdle EXCEPT !.pc = "filter", !.todo = listeners]
    /\ got' = [s \in Sockets |-> 0]
    /\ due' = {s \in Sockets : sock[s] = "open" /\ told[s] \in listeners}
    /\ left' = {}
    /\ UNCHANGED <<lastClientID, keys, sockets, sock, told, web>>

\* filter(lambda client_ID: client_ID in cls.client_ID_open_sockets_map, ...)
IsListening(c) == c \in keys

FilterClient ==
    /\ tcp.pc = "filter"
    /\ IF tcp.todo = {}
       THEN tcp' = [tcp EXCEPT !.pc = "lookup", !.todo = tcp.found, !.found = {}, !.gone = {}]
       ELSE \E c \in tcp.todo :
              tcp' = [tcp EXCEPT !.todo = @ \ {c},
                                 !.found = IF IsListening(c) THEN @ \cup {c} ELSE @]
    /\ UNCHANGED <<lastClientID, keys, sockets, sock, told, web, got, due, left>>

\* map(lambda client_ID: cls.client_ID_open_sockets_map[client_ID], ...): the
\* lists themselves, not copies of them. gone: those deleted since.
LookupClient ==
    /\ tcp.pc = "lookup"
    /\ IF tcp.todo = {}
       THEN tcp' = [tcp EXCEPT !.pc = "send", !.todo = tcp.found]
       ELSE \E c \in tcp.todo :
              tcp' = IF c \in keys
                     THEN [tcp EXCEPT !.todo = @ \ {c}, !.found = @ \cup {c}, !.gone = @ \ {c}]
                     ELSE [tcp EXCEPT !.pc = "raised"]
    /\ UNCHANGED <<lastClientID, keys, sockets, sock, told, web, got, due, left>>

\* for handler in socket_handlers: handler.send_message(message). A list iterator
\* counts, whatever is inserted or removed meanwhile; on a closed connection
\* send_message swallows the error.
NextClient ==
    /\ tcp.pc = "send" /\ tcp.client = None
    /\ IF tcp.todo = {}
       THEN tcp' = [tcp EXCEPT !.pc = "sent"]
       ELSE \E c \in tcp.todo :
              tcp' = [tcp EXCEPT !.todo = @ \ {c}, !.client = c, !.next = 1]
    /\ UNCHANGED <<lastClientID, keys, sockets, sock, told, web, got, due, left>>

After_NotCaught(next, isOpen) == IF isOpen THEN next + 1 ELSE Cardinality(Sockets) + 1
After(next, isOpen) == next + 1

SendToSocket ==
    /\ tcp.pc = "send" /\ tcp.client # None
    /\ LET list == IF tcp.client \in tcp.gone THEN <<>> ELSE sockets[tcp.client]
       IN IF tcp.next > Len(list)
          THEN tcp' = [tcp EXCEPT !.client = None] /\ UNCHANGED got
          ELSE LET s == list[tcp.next]
                   isOpen == sock[s] = "open"
               IN /\ got' = [got EXCEPT ![s] = IF isOpen THEN @ + 1 ELSE @]
                  /\ tcp' = [tcp EXCEPT !.next = After(@, isOpen)]
    /\ UNCHANGED <<lastClientID, keys, sockets, sock, told, web, due, left>>

WebStep == CreateList \/ AppendSocket \/ DeleteKey \/ \E s \in Sockets : OnClose(s)
TcpStep == FilterClient \/ LookupClient \/ NextClient \/ SendToSocket

Next ==
    \/ \E s \in Sockets : OpenSocket(s) \/ ConnectionCloses(s)
    \/ \E s \in Sockets, c \in ClientIDs : Authenticate(s, c)
    \/ WebStep
    \/ \E listeners \in SUBSET ClientIDs : Notify(listeners)
    \/ TcpStep

Spec == Init /\ [][Next]_vars

------------------------------------------------------------------------------
(* Properties *)

\* Whenever the web thread is between two commands, the map holds each socket
\* that was told a client ID and has not been closed exactly once, under that
\* ID; it holds no other socket and no empty list (websockethandler.py:76-89,
\* 180-191). It depends on a socket authenticating once: see the next property.
MapMatchesSockets ==
    web.pc = "idle" =>
        /\ \A c \in ClientIDs :
             /\ c \in keys <=> sockets[c] # <<>>
             /\ IsInjective(sockets[c])
             /\ ToSet(sockets[c]) = {s \in Sockets : told[s] = c /\ sock[s] # "closed"}

\* "there can be no more than 1 clientID per socket" (websockethandler.py:191):
\* a socket that is closed is in no list any more.
ClosedSocketsAreForgotten ==
    web.pc = "idle" =>
        \A s \in Sockets : sock[s] = "closed" => ClientsOf(s) = {}

\* notify raises KeyError, and with it ends the worker's session, only when the
\* last socket of a listener was removed since it began.
RaisesOnlyWhenSocketsLeave == tcp.pc = "raised" => tcp.todo \cap left # {}

\* A notification reaches every socket that was open when it began and still is,
\* and none twice, although the lists it iterates over change under it. Only
\* when another socket of the same client was removed meanwhile may a socket be
\* skipped (websockethandler.py:154-177).
EverySocketIsReached ==
    /\ RaisesOnlyWhenSocketsLeave
    /\ \A s \in Sockets : got[s] <= 1
    /\ tcp.pc = "sent" =>
          \A s \in due : sock[s] = "open" /\ told[s] \notin left => got[s] = 1
=============================================================================
