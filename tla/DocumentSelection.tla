-------------------------- MODULE DocumentSelection --------------------------
(***************************************************************************)
(* Which document the window shows: the selection of documents-reducer.ts, *)
(* the read effect of DocumentsProvider.tsx with the query cache under it, *)
(* read_document of commands/documents.rs, which also makes the runtime    *)
(* remember the document, and the runtime, which moves that memory along   *)
(* with a renamed file.                                                    *)
(*                                                                         *)
(* The event stream is the one DocumentEvents checks: in order, and now    *)
(* and then a tail of it is replaced by one resync.  Calls, their answers  *)
(* and the events travel independently.                                    *)
(***************************************************************************)
EXTENDS Naturals, Sequences

CONSTANTS
  Paths, NoPath,
  Ids, NoId,      \* document ids; each is carried by at most one file
  MaxEdits,       \* bound of the model on changes of the files
  MaxPicks,       \* bound of the model on the documents and homes the user asks for
  MaxLags         \* bound of the model on resyncs

SelectionAssumption ==
  /\ NoPath \notin Paths
  /\ NoId \notin Ids
  /\ {MaxEdits, MaxPicks, MaxLags} \subseteq Nat

VARIABLES
  files,      \* the repository on disk
  edits,      \* changes of the files so far; stamps the next version
  runtime,    \* catalog and remembered path of the session's snapshot
  wire,       \* events on their way to the window
  lags,       \* resyncs so far
  result,     \* the snapshot in the answer of start_document_session
  ui,         \* the selection part of DocumentsState
  picks,      \* what the user asked for so far
  query,      \* the query cache: the last content read at each path
  calls,      \* the read_document call for each path
  reads       \* DocumentReadOwnership: the last sequence number given out

vars == <<files, edits, runtime, wire, lags, result, ui, picks, query, calls, reads>>

-----------------------------------------------------------------------------
Contents == [id : Ids \cup {NoId}, ver : 0..(MaxEdits + 1)]
Absent == [id |-> NoId, ver |-> 0]
Catalogs == [Paths -> Contents]
EmptyCatalog == [p \in Paths |-> Absent]
Listed(catalog, p) == p \in Paths /\ catalog[p] # Absent
MaybePath == Paths \cup {NoPath}
Snapshots == [tree : Catalogs, open : MaybePath]

\* Where the runtime's memory goes when the files at old are found at new.
Renamed(open, old, new) ==
  {p \in Paths : old[open].id # NoId /\ new[p].id = old[open].id}

OpenAfter(open, old, new) ==
  IF open = NoPath \/ Listed(new, open) THEN open
  ELSE IF Listed(old, open) /\ Renamed(open, old, new) # {}
       THEN CHOOSE p \in Renamed(open, old, new) : TRUE
       ELSE NoPath

TreeChanged(t, flushed) == [type |-> "tree", tree |-> t, flushed |-> flushed]
OpenDocumentChanged(p) == [type |-> "open", path |-> p]
Resynced(s) == [type |-> "resynced", snapshot |-> s]

Files == {f \in [Paths -> {Absent} \cup [id : Ids, ver : {1}]] :
            \A p, q \in Paths : f[p].id = f[q].id => p = q \/ f[p] = Absent}

NoCall == [at |-> "none", seq |-> 0, got |-> Absent]

Init ==
  /\ files \in Files
  /\ edits = 0
  /\ \E p \in {q \in MaybePath : q # NoPath => Listed(files, q)} :
       runtime = [tree |-> files, open |-> p]
  /\ wire = <<TreeChanged(files, TRUE)>>
  /\ lags = 0
  /\ result = [status |-> "sent", snapshot |-> runtime]
  /\ ui = [ready |-> FALSE, heard |-> FALSE, tree |-> EmptyCatalog, last |-> NoPath,
           selected |-> NoPath, home |-> FALSE, removed |-> FALSE,
           read |-> "idle", shown |-> Absent]
  /\ picks = 0
  /\ query = [p \in Paths |-> [content |-> Absent, fresh |-> FALSE]]
  /\ calls = [p \in Paths |-> NoCall]
  /\ reads = 0

backendVars == <<runtime, reads>>
windowVars == <<ui, picks, query>>

-----------------------------------------------------------------------------
(***************************************************************************)
(* The files and the runtime that follows them.                            *)
(***************************************************************************)

ChangeFiles(f) ==
  /\ edits < MaxEdits
  /\ edits' = edits + 1
  /\ files' = f
  /\ UNCHANGED <<backendVars, wire, lags, result, windowVars, calls>>

EditFile(p) == Listed(files, p) /\ ChangeFiles([files EXCEPT ![p].ver = edits + 2])

RenameFile(p, q) ==
  /\ Listed(files, p) /\ ~Listed(files, q)
  /\ ChangeFiles([files EXCEPT ![p] = Absent, ![q] = files[p]])

DeleteFile(p) == Listed(files, p) /\ ChangeFiles([files EXCEPT ![p] = Absent])

Reconcile ==
  /\ runtime.tree # files
  /\ LET open == OpenAfter(runtime.open, runtime.tree, files)
     IN /\ runtime' = [tree |-> files, open |-> open]
        /\ wire' = wire \o <<TreeChanged(files, FALSE)>> \o
             (IF open \in {runtime.open, NoPath} THEN <<>> ELSE <<OpenDocumentChanged(open)>>)
  /\ UNCHANGED <<files, edits, reads, lags, result, windowVars, calls>>

\* The listener lagged: the events after the first k are lost and a resync with the
\* snapshot of now takes their place.  What the start command flushed is not lost.
Flushed(e) == e.type = "tree" /\ e.flushed

Resync ==
  /\ lags < MaxLags
  /\ lags' = lags + 1
  /\ \E k \in 0..(Len(wire) - 1) :
       /\ ~Flushed(wire[k + 1])
       /\ wire' = Append(SubSeq(wire, 1, k), Resynced(runtime))
  /\ UNCHANGED <<files, edits, backendVars, result, windowVars, calls>>

-----------------------------------------------------------------------------
(***************************************************************************)
(* read_document.  The two sections under the session lock and the read of *)
(* the file between them are steps of their own.                           *)
(***************************************************************************)

callVars == <<files, edits, lags, result, windowVars>>

RegisterDocumentRead(p) ==
  /\ calls[p].at = "sent"
  /\ reads' = reads + 1
  /\ calls' = [calls EXCEPT ![p] = [@ EXCEPT !.at = "reading", !.seq = reads + 1]]
  /\ UNCHANGED <<callVars, runtime, wire>>

ReadFile(p) ==
  /\ calls[p].at = "reading"
  /\ calls' = [calls EXCEPT ![p] = [@ EXCEPT !.at = "read", !.got = files[p]]]
  /\ UNCHANGED <<callVars, backendVars, wire>>

IsLatest(p) == calls[p].seq = reads

\* What the call does about the runtime's memory, and whether it fails over it.
MustRemember(p) == calls[p].got # Absent /\ IsLatest(p) /\ runtime.open # p

FinishRead(p) ==
  /\ calls[p].at = "read"
  /\ LET remembers == MustRemember(p) /\ Listed(runtime.tree, p)
         fails == MustRemember(p) /\ ~Listed(runtime.tree, p)
     IN /\ runtime' = IF remembers THEN [runtime EXCEPT !.open = p] ELSE runtime
        /\ wire' = IF remembers THEN Append(wire, OpenDocumentChanged(p)) ELSE wire
        /\ calls' = [calls EXCEPT ![p] =
             [@ EXCEPT !.at = "answered", !.got = IF fails THEN Absent ELSE calls[p].got]]
  /\ UNCHANGED <<callVars, reads>>

-----------------------------------------------------------------------------
(***************************************************************************)
(* The reducer.                                                            *)
(***************************************************************************)

ClearSelection(u) ==
  [u EXCEPT !.selected = NoPath, !.removed = FALSE, !.read = "idle", !.shown = Absent]

AlreadyOpen(u, p) == u.selected = p /\ (u.read # "idle" \/ u.shown # Absent)

Reopen(u, p) ==
  [u EXCEPT !.selected = p, !.removed = FALSE, !.read = "queued", !.shown = Absent]

OpenCurrentDocument(u, p) ==
  IF p = NoPath THEN ClearSelection(u)
  ELSE IF AlreadyOpen(u, p) THEN u
  ELSE Reopen(u, p)

ApplyAuthoritativeSnapshot(u, s) ==
  LET last == IF Listed(s.tree, s.open) THEN s.open ELSE NoPath
      adopted == [u EXCEPT !.heard = TRUE, !.tree = s.tree, !.last = last]
  IN IF u.home /\ ~u.removed THEN ClearSelection(adopted)
     ELSE OpenCurrentDocument([adopted EXCEPT !.home = (last = NoPath)], last)

AfterTree_KeepsSelection(u, t) == [u EXCEPT !.heard = TRUE, !.tree = t]

AfterTree(u, t) ==
  LET next == [u EXCEPT !.heard = TRUE, !.tree = t]
      p == u.selected
  IN IF p # NoPath /\ ~Listed(t, p)
     THEN [ClearSelection(next) EXCEPT !.home = TRUE, !.removed = TRUE, !.last = NoPath]
     ELSE IF Listed(u.tree, p) /\ u.tree[p] # t[p] THEN Reopen(next, p)
     ELSE next

AfterOpen_Navigates(u, p) ==
  IF p = u.selected THEN [u EXCEPT !.heard = TRUE, !.last = p]
  ELSE OpenCurrentDocument([u EXCEPT !.heard = TRUE, !.last = p, !.home = FALSE], p)

AfterOpen(u, p) ==
  IF p = u.selected THEN [u EXCEPT !.heard = TRUE, !.last = p]
  ELSE IF u.home /\ u.removed /\ Listed(u.tree, p)
       THEN OpenCurrentDocument([u EXCEPT !.heard = TRUE, !.last = p, !.home = FALSE], p)
       ELSE [u EXCEPT !.heard = TRUE]

-----------------------------------------------------------------------------
(***************************************************************************)
(* The window.                                                             *)
(***************************************************************************)

outsideVars == <<files, edits, backendVars, lags>>

\* Only a tree event invalidates the session's queries.
DocumentEventReceived ==
  /\ wire # <<>>
  /\ wire' = Tail(wire)
  /\ LET e == Head(wire)
     IN /\ ui' = CASE e.type = "tree" -> AfterTree(ui, e.tree)
                   [] e.type = "open" -> AfterOpen(ui, e.path)
                   [] e.type = "resynced" -> ApplyAuthoritativeSnapshot(ui, e.snapshot)
        /\ query' = IF e.type = "tree" THEN [p \in Paths |-> [query[p] EXCEPT !.fresh = FALSE]]
                    ELSE query
  /\ UNCHANGED <<outsideVars, result, picks, calls>>

SessionStarted ==
  /\ result.status = "sent"
  /\ result' = [result EXCEPT !.status = "received"]
  /\ ui' = [(IF ui.heard THEN ui ELSE ApplyAuthoritativeSnapshot(ui, result.snapshot))
              EXCEPT !.ready = TRUE]
  /\ UNCHANGED <<outsideVars, wire, picks, query, calls>>

Pick(u) ==
  /\ ui.ready /\ picks < MaxPicks
  /\ picks' = picks + 1
  /\ ui' = u
  /\ UNCHANGED <<outsideVars, wire, result, query, calls>>

SelectDocument(p) ==
  /\ Listed(ui.tree, p)
  /\ Pick(OpenCurrentDocument([ui EXCEPT !.home = FALSE, !.removed = FALSE], p))

ShowDocumentsHome == Pick([ClearSelection(ui) EXCEPT !.home = TRUE])

ShowsNow(content) == ui' = [ui EXCEPT !.read = "idle", !.shown = content]

\* The effect that follows a queued read: a fresh query answers at once, a call on
\* its way for the same path is shared, anything else is asked of read_document.
StartRead ==
  /\ ui.read = "queued"
  /\ LET p == ui.selected
     IN \/ /\ query[p].fresh
           /\ ShowsNow(query[p].content)
           /\ UNCHANGED calls
        \/ /\ ~query[p].fresh
           /\ ui' = [ui EXCEPT !.read = "loading"]
           /\ calls' = IF calls[p].at # "none" THEN calls
                       ELSE [calls EXCEPT ![p] = [@ EXCEPT !.at = "sent"]]
  /\ UNCHANGED <<outsideVars, wire, result, picks, query>>

Waiting(p) == ui.selected = p /\ ui.read = "loading"

ReadAnswered_LeavesSharers(p) ==
  /\ calls[p].at = "answered"
  /\ calls' = [calls EXCEPT ![p] = NoCall]
  /\ query' = [query EXCEPT ![p] = [content |-> calls[p].got, fresh |-> TRUE]]
  /\ UNCHANGED <<outsideVars, wire, result, picks, ui>>

ReadAnswered(p) ==
  /\ calls[p].at = "answered"
  /\ calls' = [calls EXCEPT ![p] = NoCall]
  /\ LET got == calls[p].got
     IN /\ query' = [query EXCEPT ![p] =
             IF got = Absent THEN [@ EXCEPT !.fresh = FALSE]
             ELSE [content |-> got, fresh |-> TRUE]]
        /\ IF Waiting(p) THEN ShowsNow(got) ELSE UNCHANGED ui
  /\ UNCHANGED <<outsideVars, wire, result, picks>>

\* Thirty seconds go by.
QueryGoesStale(p) ==
  /\ query[p].fresh
  /\ query' = [query EXCEPT ![p] = [@ EXCEPT !.fresh = FALSE]]
  /\ UNCHANGED <<outsideVars, wire, result, ui, picks, calls>>

-----------------------------------------------------------------------------
FileSteps ==
  \E p \in Paths : EditFile(p) \/ DeleteFile(p) \/ \E q \in Paths : RenameFile(p, q)
CallSteps == \E p \in Paths : RegisterDocumentRead(p) \/ ReadFile(p) \/ FinishRead(p)
UserSteps == ShowDocumentsHome \/ \E p \in Paths : SelectDocument(p)

Next ==
  \/ FileSteps
  \/ Reconcile
  \/ Resync
  \/ CallSteps
  \/ UserSteps
  \/ DocumentEventReceived
  \/ SessionStarted
  \/ StartRead
  \/ \E p \in Paths : ReadAnswered(p) \/ QueryGoesStale(p)

Spec == Init /\ [][Next]_vars

-----------------------------------------------------------------------------
(***************************************************************************)
(* Properties.                                                             *)
(***************************************************************************)

\* Every variable keeps its type.
Events ==
  [type : {"tree"}, tree : Catalogs, flushed : BOOLEAN]
    \cup [type : {"open"}, path : Paths]
    \cup [type : {"resynced"}, snapshot : Snapshots]
UiStates ==
  [ready : BOOLEAN, heard : BOOLEAN, tree : Catalogs, last : MaybePath,
   selected : MaybePath, home : BOOLEAN, removed : BOOLEAN,
   read : {"idle", "queued", "loading"}, shown : Contents]
CallStates ==
  [at : {"none", "sent", "reading", "read", "answered"}, seq : Nat, got : Contents]

TypeOK ==
  /\ files \in Catalogs
  /\ edits \in 0..MaxEdits
  /\ runtime \in Snapshots
  /\ wire \in Seq(Events)
  /\ lags \in 0..MaxLags
  /\ result \in [status : {"sent", "received"}, snapshot : Snapshots]
  /\ ui \in UiStates
  /\ picks \in 0..MaxPicks
  /\ query \in [Paths -> [content : Contents, fresh : BOOLEAN]]
  /\ calls \in [Paths -> CallStates]
  /\ reads \in Nat

\* The selected document is one of the tree on screen, whatever event moved the
\* selection or took its document away (documentsReducer).
SelectionIsListed == ui.selected # NoPath => Listed(ui.tree, ui.selected)

AtHome == ui.home /\ ~ui.removed

\* Once at the Documents home, the window leaves it only for a document the user
\* picks: no late answer, remembered path or resync opens one by itself.
KeepsHome == AtHome /\ picks' = picks => ui'.selected = NoPath
HomeIsKept == [][KeepsHome]_vars

\* A read that is loading has a call on its way that will answer it, whether it made
\* the call itself or shares the one of an earlier request: no document stays
\* "loading" for ever (the read effect of DocumentsProvider).
LoadingHasCall == ui.read = "loading" => calls[ui.selected].at # "none"

\* Everything that was under way has arrived.
Quiet ==
  /\ wire = <<>>
  /\ result.status = "received"
  /\ runtime.tree = files
  /\ ui.read = "idle"
  /\ \A p \in Paths : calls[p].at = "none"

\* A user who has done nothing yet sees the document the runtime remembers.
RestoredDocumentShown == Quiet /\ picks = 0 => ui.selected = runtime.open

\* The document on screen has the content of its file.
ShownIsCurrent == Quiet /\ ui.shown # Absent => ui.shown = files[ui.selected]
=============================================================================
