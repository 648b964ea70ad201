--------------------------- MODULE MCProjectInfoCache ---------------------------
(***************************************************************************)
(* ProjectInfoCache for TLC.                                               *)
(***************************************************************************)
EXTENDS ProjectInfoCache

CONSTANTS r1, r2, r3
AllRequests == {r1, r2, r3}
================================================================================
