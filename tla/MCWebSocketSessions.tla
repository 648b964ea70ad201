------------------------ MODULE MCWebSocketSessions ------------------------
(* WebSocketSessions with interchangeable sockets. *)
EXTENDS WebSocketSessions, TLC

Symmetry == Permutations(Sockets)
============================================================================
