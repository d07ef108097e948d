---------------------------- MODULE DocumentEvents ----------------------------
(***************************************************************************)
(* The way of a document event from the runtime to the window: the         *)
(* runtime's broadcast channel, which overwrites what a slow receiver has  *)
(* not read; flush_document_events and the listener task of                *)
(* commands/documents.rs, which recover from such a lag behind a barrier   *)
(* event; the numbered envelopes; and documents-reducer.ts, which receives *)
(* the envelopes and the result of start_document_session on two channels  *)
(* that know nothing of each other.                                        *)
(***************************************************************************)
EXTENDS Naturals, Integers, Sequences

CONSTANTS
  Capacity,     \* messages the broadcast channel retains (64 in the code)
  MaxChanges    \* bound of the model on what the runtime publishes by itself

ASSUME EventsAssumption ==
  /\ Capacity \in Nat \ {0}
  /\ MaxChanges \in Nat

VARIABLES
  runtime,      \* the published part of the session's snapshot
  changes,      \* changes published so far
  phase,        \* how far start_document_session has come
  channel,      \* the broadcast channel as its one receiver sees it
  barriers,     \* barrier ids given out by publish_resync_barrier
  reader,       \* who reads the channel and where in lag recovery it is
  revision,     \* next_revision of the session's context
  wire,         \* envelopes on their way to the window
  result,       \* the result of start_document_session on its way
  ui            \* DocumentsState

vars == <<runtime, changes, phase, channel, barriers, reader, revision, wire, result, ui>>

-----------------------------------------------------------------------------
Statuses == {"preparing", "ready", "degraded"}
Snapshots == [tree : Nat, status : Statuses]

TreeChanged(t) == [type |-> "tree", tree |-> t]
StatusChanged(s) == [type |-> "status", status |-> s]
Failed == [type |-> "failed"]
Resynced(b, s) == [type |-> "resynced", barrier |-> b, snapshot |-> s]

Events ==
  [type : {"tree"}, tree : Nat] \cup [type : {"status"}, status : Statuses]
    \cup {Failed} \cup [type : {"resynced"}, barrier : Nat, snapshot : Snapshots]

\* What the channel retains after the events es were sent: the oldest are
\* overwritten and the receiver learns it with its next receive.
Sent(ch, es) ==
  LET all == ch.queue \o es
      lost == IF Len(all) > Capacity THEN Len(all) - Capacity ELSE 0
  IN [queue |-> SubSeq(all, lost + 1, Len(all)), lagged |-> ch.lagged \/ lost > 0]

\* The envelopes of the events es.
Published(es) == [i \in 1..Len(es) |-> [revision |-> revision + i - 1, event |-> es[i]]]

Emit(es) ==
  /\ wire' = wire \o Published(es)
  /\ revision' = revision + Len(es)

NotSent == [status |-> "none"]

Init ==
  /\ runtime = [tree |-> 1, status |-> "preparing"]
  /\ changes = 0
  /\ phase = "prepared"
  /\ channel = [queue |-> <<>>, lagged |-> FALSE]
  /\ barriers = 0
  /\ reader = [by |-> "nobody", at |-> "receive", barrier |-> 0]
  /\ revision = 1
  /\ wire = <<>>
  /\ result = NotSent
  /\ ui = [status |-> "starting", latest |-> -1, tree |-> 0, index |-> "preparing"]

uiVars == <<wire, result, ui>>

-----------------------------------------------------------------------------
(***************************************************************************)
(* The runtime.  Every publication is made under the state lock, together  *)
(* with the change of the snapshot it tells of.                            *)
(***************************************************************************)

Publish(snapshot, es) ==
  /\ runtime' = snapshot
  /\ channel' = Sent(channel, es)

\* The events of a snapshot that goes from runtime to s, the tree always among them.
Told(s) ==
  <<TreeChanged(s.tree)>> \o
    (IF s.status = runtime.status THEN <<>> ELSE <<StatusChanged(s.status)>>)

\* finish_reserved_session, before it starts the watcher.
PublishStart ==
  /\ phase = "prepared"
  /\ phase' = "watching"
  /\ Publish(runtime, <<TreeChanged(runtime.tree), StatusChanged(runtime.status)>>)
  /\ UNCHANGED <<changes, barriers, reader, revision, uiVars>>

Degrade ==
  LET s == [runtime EXCEPT !.status = "degraded"]
  IN Publish(s, IF s = runtime THEN <<>> ELSE <<StatusChanged("degraded")>>)

\* The snapshot the start will answer with is read before the first reconcile is
\* requested; the command then reads what the channel holds so far.
TakeSnapshot ==
  /\ phase = "watching"
  /\ phase' = "started"
  /\ result' = [status |-> "held", snapshot |-> runtime]
  /\ reader' = [reader EXCEPT !.by = "flush"]
  /\ UNCHANGED <<runtime, changes, channel, barriers, revision, wire, ui>>

Reconciling == phase \in {"started", "answering"} /\ changes < MaxChanges

Reconcile ==
  /\ Reconciling
  /\ changes' = changes + 1
  /\ \E t \in {runtime.tree, runtime.tree + 1}, s \in {"ready", "degraded"} :
       Publish([tree |-> t, status |-> s], Told([tree |-> t, status |-> s]))
  /\ UNCHANGED <<phase, barriers, reader, revision, uiVars>>

ReconcileFails ==
  /\ Reconciling
  /\ changes' = changes + 1
  /\ Publish(runtime, <<Failed>>)
  /\ UNCHANGED <<phase, barriers, reader, revision, uiVars>>

\* The watcher may be missing from the start or break later.
MarkWatcherDegraded ==
  /\ Reconciling \/ (phase = "watching" /\ changes < MaxChanges)
  /\ changes' = changes + 1
  /\ Degrade
  /\ UNCHANGED <<phase, barriers, reader, revision, uiVars>>

-----------------------------------------------------------------------------
(***************************************************************************)
(* The reader of the channel: the start command while it flushes, then the *)
(* listener task.  A lag is recovered in three stages: drop what is        *)
(* retained, publish a barrier that carries the snapshot, drop everything  *)
(* up to the barrier.                                                      *)
(***************************************************************************)

Reading(stage) == reader.by # "nobody" /\ reader.at = stage
GoTo(stage) == reader' = [reader EXCEPT !.at = stage]
Take == channel' = [channel EXCEPT !.queue = Tail(@)]
NothingHeld == channel.queue = <<>> /\ ~channel.lagged
readerVars == <<runtime, changes, phase, result, ui>>

ReceiveEvent ==
  /\ Reading("receive") /\ ~channel.lagged /\ channel.queue # <<>>
  /\ Take
  /\ Emit(<<Head(channel.queue)>>)
  /\ UNCHANGED <<readerVars, barriers, reader>>

FindLag ==
  /\ Reading("receive") /\ channel.lagged
  /\ channel' = [channel EXCEPT !.lagged = FALSE]
  /\ GoTo("discard")
  /\ UNCHANGED <<readerVars, barriers, revision, wire>>

DiscardRetained ==
  /\ Reading("discard") /\ ~NothingHeld
  /\ IF channel.lagged THEN channel' = [channel EXCEPT !.lagged = FALSE] ELSE Take
  /\ UNCHANGED <<readerVars, barriers, reader, revision, wire>>

RetainedDiscarded_NoBarrier ==
  /\ Reading("discard") /\ NothingHeld
  /\ GoTo("receive")
  /\ UNCHANGED <<readerVars, channel, barriers, revision, wire>>

RetainedDiscarded ==
  /\ Reading("discard") /\ NothingHeld
  /\ GoTo("publish")
  /\ UNCHANGED <<readerVars, channel, barriers, revision, wire>>

PublishResyncBarrier ==
  /\ Reading("publish")
  /\ barriers' = barriers + 1
  /\ Publish(runtime, <<Resynced(barriers + 1, runtime)>>)
  /\ reader' = [reader EXCEPT !.at = "await", !.barrier = barriers + 1]
  /\ UNCHANGED <<changes, phase, revision, uiVars>>

IsBarrier(e) == e.type = "resynced" /\ e.barrier = reader.barrier

SkipToBarrier ==
  /\ Reading("await") /\ ~channel.lagged /\ channel.queue # <<>>
  /\ ~IsBarrier(Head(channel.queue))
  /\ Take
  /\ UNCHANGED <<readerVars, barriers, reader, revision, wire>>

BarrierReached ==
  /\ Reading("await") /\ ~channel.lagged /\ channel.queue # <<>>
  /\ IsBarrier(Head(channel.queue))
  /\ Take
  /\ Emit(<<Failed, Head(channel.queue)>>)
  /\ GoTo("receive")
  /\ UNCHANGED <<readerVars, barriers>>

LagBeforeBarrier_KeepWaiting ==
  /\ Reading("await") /\ channel.lagged
  /\ channel' = [channel EXCEPT !.lagged = FALSE]
  /\ UNCHANGED <<readerVars, barriers, reader, revision, wire>>

LagBeforeBarrier ==
  /\ Reading("await") /\ channel.lagged
  /\ channel' = [channel EXCEPT !.lagged = FALSE]
  /\ GoTo("discard")
  /\ UNCHANGED <<readerVars, barriers, revision, wire>>

\* The flush ends on an empty channel, wherever it is; the listener takes over from
\* there, the session becomes active and the command answers.
FlushEnds ==
  /\ reader.by = "flush" /\ reader.at \in {"receive", "await"} /\ NothingHeld
  /\ reader' = [by |-> "listener", at |-> "receive", barrier |-> 0]
  /\ phase' = "answering"
  /\ result' = [result EXCEPT !.status = "sent"]
  /\ UNCHANGED <<runtime, changes, channel, barriers, revision, wire, ui>>

\* stop_document_session: the listener is cancelled with what it had queued, the
\* generation ends, and the window stops following the session.
StopDocumentSession ==
  /\ reader.by = "listener"
  /\ phase' = "stopped"
  /\ reader' = [reader EXCEPT !.by = "nobody"]
  /\ wire' = <<>>
  /\ result' = NotSent
  /\ UNCHANGED <<runtime, changes, channel, barriers, revision, ui>>

-----------------------------------------------------------------------------
(***************************************************************************)
(* The window.                                                             *)
(***************************************************************************)

Adopted(s) == [ui EXCEPT !.tree = s.tree, !.index = s.status]

AfterEvent(e) ==
  CASE e.type = "tree" -> [ui EXCEPT !.tree = e.tree]
    [] e.type = "status" -> [ui EXCEPT !.index = e.status]
    [] e.type = "failed" -> ui
    [] e.type = "resynced" -> Adopted(e.snapshot)

DocumentEventReceived ==
  /\ wire # <<>>
  /\ wire' = Tail(wire)
  /\ LET m == Head(wire)
     IN ui' = IF m.revision <= ui.latest THEN ui
              ELSE [AfterEvent(m.event) EXCEPT !.latest = m.revision]
  /\ UNCHANGED <<runtime, changes, phase, channel, barriers, reader, revision, result>>

SessionStarted_AlwaysAdopts ==
  /\ result.status = "sent"
  /\ result' = [result EXCEPT !.status = "received"]
  /\ ui' = [Adopted(result.snapshot) EXCEPT !.latest = 0, !.status = "ready"]
  /\ UNCHANGED <<runtime, changes, phase, channel, barriers, reader, revision, wire>>

\* The snapshot of a start has revision 0: it counts only before the first event.
SessionStarted ==
  /\ result.status = "sent"
  /\ result' = [result EXCEPT !.status = "received"]
  /\ ui' = IF 0 <= ui.latest THEN [ui EXCEPT !.status = "ready"]
           ELSE [Adopted(result.snapshot) EXCEPT !.latest = 0, !.status = "ready"]
  /\ UNCHANGED <<runtime, changes, phase, channel, barriers, reader, revision, wire>>

-----------------------------------------------------------------------------
StartSteps == PublishStart \/ TakeSnapshot
RuntimeSteps == Reconcile \/ ReconcileFails \/ MarkWatcherDegraded
ReaderSteps ==
  \/ ReceiveEvent \/ FindLag
  \/ DiscardRetained \/ RetainedDiscarded
  \/ PublishResyncBarrier \/ SkipToBarrier \/ BarrierReached \/ LagBeforeBarrier
  \/ FlushEnds

Next ==
  \/ StartSteps
  \/ RuntimeSteps
  \/ ReaderSteps
  \/ StopDocumentSession
  \/ DocumentEventReceived
  \/ SessionStarted

Spec == Init /\ [][Next]_vars

\* The start command and the listener task run on the async runtime and the window's
\* event loop takes what is addressed to it; nothing obliges the files to change.
FairSpec ==
  /\ Spec
  /\ WF_vars(StartSteps)
  /\ WF_vars(ReaderSteps)
  /\ WF_vars(DocumentEventReceived)
  /\ WF_vars(SessionStarted)

-----------------------------------------------------------------------------
(***************************************************************************)
(* Properties.                                                             *)
(***************************************************************************)

\* Every variable keeps its type; the channel never retains more than its capacity.
TypeOK ==
  /\ runtime \in Snapshots
  /\ changes \in 0..MaxChanges
  /\ phase \in {"prepared", "watching", "started", "answering", "stopped"}
  /\ channel \in [queue : Seq(Events), lagged : BOOLEAN] /\ Len(channel.queue) <= Capacity
  /\ barriers \in Nat
  /\ reader \in [by : {"nobody", "flush", "listener"},
                 at : {"receive", "discard", "publish", "await"}, barrier : Nat]
  /\ revision \in Nat
  /\ wire \in Seq([revision : Nat, event : Events])
  /\ result \in {NotSent} \cup [status : {"held", "sent", "received"}, snapshot : Snapshots]
  /\ ui \in [status : {"starting", "ready"}, latest : Int, tree : Nat, index : Statuses]

CaughtUp ==
  /\ reader.by = "listener" /\ reader.at = "receive"
  /\ NothingHeld
  /\ wire = <<>>

\* Once the listener has read all there is and the window has received all that was
\* emitted, the window shows the tree and the index status of the runtime: whatever
\* was overwritten in the channel, dropped behind a barrier, or overtaken by the
\* result of the start (recover_lagged_document_events, documentsReducer).
WindowAgreesWithRuntime ==
  CaughtUp => ui.tree = runtime.tree /\ ui.index = runtime.status

Feed == INSTANCE EventFeed WITH
  current <- runtime.tree, shown <- ui.tree, open <- phase # "stopped"

\* The stream implements EventFeed: the window never goes back to an earlier tree,
\* neither for a late start result nor for an event from before a resync, and it
\* gets the last tree as long as the session is open.
FeedSpec == Feed!FeedSpec

\* A lag is always recovered from: the reader returns to plain receiving, even when
\* its barrier is itself overwritten before it is read.
LagsEnd == reader.at # "receive" ~> reader.at = "receive" \/ phase = "stopped"
=============================================================================
