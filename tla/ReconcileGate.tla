--------------------------- MODULE ReconcileGate ---------------------------
(***************************************************************************)
(* The gate of documents/reconcile.rs that lets one reconciliation worker  *)
(* run per session: requests made while it runs collapse into one pending  *)
(* follow-up run.  A method that returns ReconcileDecision::Start is split *)
(* in two operators: the gate it leaves and whether it said Start.         *)
(***************************************************************************)

Gates == [running : BOOLEAN, pending : BOOLEAN, closed : BOOLEAN]

NewGate == [running |-> FALSE, pending |-> FALSE, closed |-> FALSE]

RequestStarts(g) == ~g.closed /\ ~g.running

AfterRequest_MemoryLess(g) ==
  IF RequestStarts(g) THEN [g EXCEPT !.running = TRUE] ELSE g

AfterRequest(g) ==
  IF g.closed THEN g
  ELSE IF g.running THEN [g EXCEPT !.pending = TRUE]
  ELSE [g EXCEPT !.running = TRUE]

FinishStarts(g) == ~g.closed /\ g.pending

AfterFinish_AlwaysIdle(g) == [g EXCEPT !.running = FALSE, !.pending = FALSE]

AfterFinish(g) ==
  IF FinishStarts(g) THEN [g EXCEPT !.pending = FALSE]
  ELSE [g EXCEPT !.running = FALSE, !.pending = FALSE]

AfterClose(g) == [g EXCEPT !.closed = TRUE, !.pending = FALSE]

=============================================================================
