---------------------------- MODULE JobLifecycle ----------------------------
(***************************************************************************)
(* What the conversion service promises about one Redis job record         *)
(* (job#{id}): a job that nobody converts may be scheduled; the record of  *)
(* a scheduled job is changed by one conversion attempt only, which may    *)
(* mark it RUNNING and ends it at most once; and an attempt that is lost   *)
(* leaves the record in progress for good, because nothing in the service  *)
(* schedules a job in progress again.                                      *)
(***************************************************************************)
CONSTANTS Jobs          \* the job IDs (Scratch project IDs)

VARIABLES state,        \* state[j]: the state in job j's record
          attempt       \* attempt[j]: what became of the last attempt to convert j

vars == <<state, attempt>>

Attempts == {"none", "scheduling", "live", "lost"}
Open     == {"READY", "RUNNING"}
Closed   == {"NONE", "FINISHED", "FAILED"}

Init == /\ state = [j \in Jobs |-> "NONE"]
        /\ attempt = [j \in Jobs |-> "none"]

Schedule(j) == /\ state[j] \in Closed
               /\ state' = [state EXCEPT ![j] = "READY"]
               /\ attempt' = [attempt EXCEPT ![j] = "scheduling"]

Launch(j) == /\ attempt[j] = "scheduling"
             /\ attempt' = [attempt EXCEPT ![j] = "live"]
             /\ UNCHANGED state

Start(j) == /\ attempt[j] = "live"
            /\ state[j] = "READY"
            /\ state' = [state EXCEPT ![j] = "RUNNING"]
            /\ UNCHANGED attempt

End(j) == /\ attempt[j] = "live"
          /\ state' \in {[state EXCEPT ![j] = s] : s \in {"FINISHED", "FAILED"}}
          /\ attempt' = [attempt EXCEPT ![j] = "none"]

\* Any set of attempts may be lost in one step: a restart of the web server
\* loses every connection at once.
Lose == \E lost \in SUBSET Jobs :
          /\ lost # {}
          /\ \A j \in lost : attempt[j] \in {"scheduling", "live"}
          /\ attempt' = [j \in Jobs |-> IF j \in lost THEN "lost" ELSE attempt[j]]
          /\ UNCHANGED state

Next == \/ \E j \in Jobs : Schedule(j) \/ Launch(j) \/ Start(j) \/ End(j)
        \/ Lose

Spec == Init /\ [][Next]_vars
=============================================================================
