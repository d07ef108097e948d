-------------------------- MODULE MCRuntimeProgress --------------------------
(***************************************************************************)
(* The fair instance of DocumentRuntime.  A behaviour keeps to one of two  *)
(* bounds: one generation whose files change and whose watcher fails, or   *)
(* two generations, the later of which waits for what the earlier left.    *)
(***************************************************************************)
EXTENDS DocumentRuntime

VARIABLE bound

\* Two generations start from the first use of a repository that has documents, and
\* the frontend starts, refreshes, aborts and stops sessions but opens no document.
FirstUse == Init /\ cache = EmptyCache /\ \A p \in Paths : Present(fs[p])
NoReadingNext ==
  \/ \E n \in Nonces : StarterStep(n) \/ ListenerStep(n) \/ WorkerStep(n) \/ FailureStep(n)
  \/ \E s \in Sessions : ReserveSession(s) \/ Refresh(s)
  \/ \E n \in Nonces : AbortStart(n) \/ StopGeneration(n)

ProgressInit ==
  \/ bound = "one generation" /\ Init
  \/ bound = "two generations" /\ FirstUse

ProgressNext ==
  /\ UNCHANGED bound
  /\ \/ bound = "one generation" /\ Next /\ nextNonce' <= 2
     \/ bound = "two generations" /\ NoReadingNext /\ faults' = 0

ProgressSpec == ProgressInit /\ [][ProgressNext]_<<vars, bound>> /\ Fairness
=============================================================================
