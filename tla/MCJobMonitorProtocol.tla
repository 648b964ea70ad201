----------------------- MODULE MCJobMonitorProtocol -----------------------
(* The troubles of the sessions the runs are about: everything may go wrong; *)
(* the worker's side only; nothing; one single thing.                        *)
EXTENDS JobMonitorProtocol

AllTroubles    == {TroubleKinds \ {"download"}, TroubleKinds \ {"notify", "crash", "download"}, {},
                   {"download", "rewrite", "kill"}}
BadKey         == {{"auth"}}
===========================================================================
