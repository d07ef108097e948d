----------------------------- MODULE JobRegistry -----------------------------
(***************************************************************************)
(* JobRegistry of state.rs: the jobs the window may cancel, by request id. *)
(* Every operation holds the mutex from beginning to end, and the          *)
(* cancellation token of a job is cancelled in the same critical section   *)
(* that makes it Cancelling; so a token is cancelled exactly when its job  *)
(* is in that phase.                                                       *)
(***************************************************************************)

JobPhases == {"free", "running", "cancelling", "completing"}
Terminals == {"completed", "cancelled", "already_terminal"}

Registered(jobs, r) == jobs[r] # "free"
Cancelled(jobs, r) == jobs[r] = "cancelling"
MayInsert(jobs, r) == jobs[r] = "free"
Inserted(jobs, r) == [jobs EXCEPT ![r] = "running"]

\* begin_completion: what a job that is not cancelled yet may never be any more.
MayComplete_Always(jobs, r) == Registered(jobs, r)
MayComplete(jobs, r) == jobs[r] \in {"running", "completing"}
Completing(jobs, r) == [jobs EXCEPT ![r] = "completing"]

\* cancel and cancel_all win against running jobs only.
MayCancel(jobs, r) == jobs[r] = "running"
Won_One(jobs) == {CHOOSE r \in DOMAIN jobs : \A q \in DOMAIN jobs : MayCancel(jobs, q) => MayCancel(jobs, r)}
             \cap {r \in DOMAIN jobs : MayCancel(jobs, r)}
Won(jobs) == {r \in DOMAIN jobs : MayCancel(jobs, r)}
WithCancelled_Removed(jobs, won) ==
  [r \in DOMAIN jobs |-> IF r \in won THEN "free" ELSE jobs[r]]
WithCancelled(jobs, won) ==
  [r \in DOMAIN jobs |-> IF r \in won THEN "cancelling" ELSE jobs[r]]

\* finish: the entry goes, and its phase says how the job ended.
Finished(jobs, r) == [jobs EXCEPT ![r] = "free"]
Terminal(jobs, r) ==
  CASE jobs[r] = "cancelling" -> "cancelled"
    [] jobs[r] \in {"running", "completing"} -> "completed"
    [] OTHER -> "already_terminal"
=============================================================================
