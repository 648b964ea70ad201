------------------------- MODULE ConversionSession -------------------------
(***************************************************************************)
(* What the server may see of one entry of the RQ queue, from the moment   *)
(* it is enqueued until its outcome is recorded or it is lost:             *)
(* TCPConnectionHandler.run takes its phases in this order and in no other.*)
(* JobScheduling assumes it of each of its runs; JobMonitorProtocol, where *)
(* worker and server exchange the messages, implements it.                 *)
(***************************************************************************)
VARIABLES phase,
          outcome   \* of a run that is over: what its last notification said

Idle   == {"none", "lost", "over"}
Active == {"queued", "connected", "started", "converted", "transferring", "verified"}

\* A slot is empty, or already holds the entry whose life is followed.
Init == phase \in {"none", "queued"} /\ outcome = "none"

Move(from, to) == phase \in from /\ phase' = to /\ UNCHANGED outcome

Enqueue   == Move({"none", "lost"}, "queued")
Connect   == Move({"queued"}, "connected")
Start     == Move({"connected"}, "started")
Converted == Move({"started"}, "converted")
Transfer  == Move({"converted"}, "transferring")
Verify    == Move({"transferring"}, "verified")
Lose      == Move(Active, "lost")

\* The outcome is recorded: FINISHED only after the archive was verified, FAILED
\* only after the conversion had started and before the archive was verified.
End ==
    \/ phase = "verified" /\ phase' = "over" /\ outcome' = "FINISHED"
    \/ /\ phase \in {"started", "converted", "transferring"}
       /\ phase' = "over" /\ outcome' = "FAILED"

\* The slot is free again.
Leave == phase = "over" /\ phase' = "none" /\ outcome' = "none"

Next == \/ Enqueue \/ Connect \/ Start \/ Converted \/ Transfer \/ Verify
        \/ End \/ Lose \/ Leave

Spec == Init /\ [][Next]_<<phase, outcome>>
=============================================================================
