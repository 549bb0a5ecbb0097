----------------------------- MODULE PredictionRun -----------------------------
(***************************************************************************)
(* PredictionService runs the prediction script in a process of its own,   *)
(* so that the server's thread goes on.  The process may end, fail, not    *)
(* start or hang; a watchdog kills it.  What the process did is learned    *)
(* from an event that the thread handles later, perhaps after the watchdog.*)
(***************************************************************************)

VARIABLES
  running,    \* running_
  timedOut,   \* runTimedOut_: the watchdog has killed the process
  watchdog,   \* runWatchdog_ is active
  process,    \* what the process did, its event not yet handled
  lastError   \* lastError_: why the last run failed, or ""

service == <<running, timedOut, watchdog, process, lastError>>

Outcomes == {"done", "failed", "unstartable"}

InitService ==
  /\ running = FALSE
  /\ timedOut = FALSE
  /\ watchdog = FALSE
  /\ process = "none"
  /\ lastError = ""

\* variant: the watchdog is started only when it is made
StartsUnwatched ==
  /\ running' = TRUE
  /\ timedOut' = FALSE
  /\ watchdog' = FALSE
  /\ lastError' = ""
  /\ process' = "working"

StartScriptProcess ==
  /\ running' = TRUE
  /\ timedOut' = FALSE
  /\ watchdog' = TRUE
  /\ lastError' = ""
  /\ process' = "working"

\* a request while the script runs succeeds and starts nothing
RunScript(ok) ==
  \/ running /\ ok /\ UNCHANGED service
  \/ ~running /\ ok /\ StartScriptProcess
  \/ ~running /\ ~ok /\ UNCHANGED service   \* there is no script

ScriptEnds ==
  /\ process = "working"
  /\ process' \in Outcomes
  /\ UNCHANGED <<running, timedOut, watchdog, lastError>>

WatchdogFires ==
  /\ watchdog
  /\ watchdog' = FALSE
  /\ timedOut' = running
  /\ process' = IF process = "working" THEN "killed" ELSE process
  /\ UNCHANGED <<running, lastError>>

\* why a run is said to have failed: a script that ended in time is said to
\* be late when the watchdog came before its event
Verdict ==
  CASE process = "unstartable" -> "no python"
    [] process # "unstartable" /\ timedOut -> "timeout"
    [] process = "done" /\ ~timedOut -> ""
    [] OTHER -> "failed"

\* the handlers of finished and errorOccurred, and finishRun
ProcessEvent ==
  /\ running
  /\ process \in Outcomes \cup {"killed"}
  /\ lastError' = Verdict
  /\ running' = FALSE
  /\ timedOut' = FALSE
  /\ watchdog' = FALSE
  /\ process' = "none"

=============================================================================
