---------------------------- MODULE DocumentDrafts ----------------------------
(***************************************************************************)
(* Local drafts: the files DraftManager (documents/drafts.rs) keeps for a  *)
(* workspace, the draft commands of commands/documents.rs that write them  *)
(* one after the other under the session lock, and the editor of the       *)
(* window (document-authoring-reducer.ts and the effects of                *)
(* DocumentsProvider.tsx) that sends those commands and reads their        *)
(* answers.  Other programs write the files of a worktree; a write may     *)
(* fail; the application may stop between any two of its writes.           *)
(*                                                                         *)
(* A text stands for its content hash.  Branch, author, title and times of *)
(* a change, the check of paths, and the files of team templates are left  *)
(* out: nothing here reads them.                                           *)
(***************************************************************************)
EXTENDS Naturals, Sequences, FiniteSets

CONSTANTS
  Changes, Docs, NoDoc,
  Tracked,        \* the documents of the commit a change starts from
  Absent, Torn,   \* no such file; a file whose first write did not finish
  MaxTyped,       \* bound of the model on what the user types
  MaxForeign,     \* bound of the model on the writes of other programs
  MaxAsks,        \* bound of the model on what else the user asks for
  MaxFaults,      \* bound of the model on failing operations
  MaxEnds      \* bound of the model on how often the application ends

ASSUME DraftsAssumption ==
  /\ Changes # {} /\ Tracked \subseteq Docs /\ NoDoc \notin Docs
  /\ {Absent, Torn} \cap (Changes \cup Docs) = {}
  /\ {MaxTyped, MaxForeign, MaxAsks, MaxFaults, MaxEnds} \subseteq Nat

VARIABLES
  active,     \* active.json
  records,    \* metadata/<change>.json
  trees,      \* worktrees/<change>
  journals,   \* journals/<change>/<document>.json
  queue,      \* commands waiting for the session lock, in order
  job,        \* the command that holds it, and how far it is
  answers,    \* answers on their way to the window
  editor,     \* DocumentAuthoringState.editor
  requests,   \* how far the window's creation, edit, copy and switch are
  intent,     \* what waits for flushCurrentEditor
  load,       \* the session of the window and its load of the recovery
  typed, foreign, asks, faults, ends,  \* counters of the bounds
  late,       \* a failed write had taken effect
  accepted,   \* the last text of a document a save went on with
  shown       \* texts of other programs the window has shown

diskVars == <<active, records, trees, journals>>
jobVars == <<queue, job, answers>>
windowVars == <<editor, requests, intent, load, shown>>
boundVars == <<typed, foreign, asks, faults, ends, late>>
vars == <<diskVars, jobVars, windowVars, boundVars, accepted>>

-----------------------------------------------------------------------------
Text(by, n) == [by |-> by, n |-> n]
NoText == Text("none", 0)
Empty == Text("empty", 0)
Base == Text("base", 0)             \* a tracked document without an identity
Identified == Text("identified", 0) \* the same with its okf_hub_id
New == Text("new", 0)               \* a document rendered from a template
Merged == Text("merged", 0)         \* both sides of a conflict between markers
ForeignTexts == {Text("foreign", n) : n \in 1..MaxForeign}
Texts == {Empty, Base, Identified, New, Merged} \cup ForeignTexts
           \cup {Text("user", n) : n \in 1..MaxTyped}
Kept == Texts \cup {Torn}           \* what a file that is there holds
Contents == Kept \cup {Absent}

Records == [docs : SUBSET Docs, last : Docs \cup {NoDoc}]
Entries == [base : Kept, text : Kept]
Worktrees == [Docs -> Contents]

\* The values for no file are none of the files.
ASSUME FilesAssumption ==
  /\ Torn # Absent
  /\ {Absent, Torn} \cap (Texts \cup {NoText} \cup Records \cup Entries) = {}
  /\ Absent \notin Worktrees

Readable(file) == file \notin {Absent, Torn}
Usable(c) == c \in Changes /\ Readable(records[c]) /\ trees[c] # Absent
Lists(c, d) == c \in Changes /\ Readable(records[c]) /\ d \in records[c].docs
Holds(c, d) == IF trees[c] = Absent THEN Absent ELSE trees[c][d]

\* What a failing write of a file leaves: write_json_atomic replaces a file that
\* exists by a rename, which may be followed by a failing sync, and writes in place
\* one that does not.
LeftBy(old, new) == IF old = Absent THEN {Absent, Torn} ELSE {old, new}

Kinds == {"create", "edit", "copy", "switch"}
NoCommand == [kind |-> "none", change |-> Absent, doc |-> NoDoc, separate |-> FALSE,
              base |-> NoText, text |-> NoText, stale |-> FALSE, mine |-> FALSE]
Command(kind) == [NoCommand EXCEPT !.kind = kind, !.stale = (load.at = "starting")]
NoJob == [at |-> "none", cmd |-> NoCommand, change |-> Absent, doc |-> NoDoc,
          made |-> FALSE, seen |-> NoText, before |-> Absent]

NoEditor == [change |-> Absent, doc |-> NoDoc, text |-> NoText, saved |-> NoText,
             base |-> NoText, status |-> "none", snap |-> NoText, conflict |-> NoText,
             closing |-> FALSE]
Opened(c, d, text) == [NoEditor EXCEPT !.change = c, !.doc = d, !.text = text,
                       !.saved = text, !.base = text, !.status = "saved"]
NoLoad == [at |-> "starting", change |-> Absent, doc |-> NoDoc, journal |-> FALSE,
           found |-> NoEditor]
NoRequests == [k \in Kinds |-> "none"]

Worktree == [d \in Docs |-> IF d \in Tracked THEN Base ELSE Absent]

\* A workspace without drafts, or with one whose only document is new.
Init ==
  /\ \E drafted \in {{}, {CHOOSE c \in Changes : TRUE}}, d \in Docs \ Tracked :
       /\ records = [c \in Changes |-> IF c \in drafted THEN [docs |-> {d}, last |-> d]
                                       ELSE Absent]
       /\ trees = [c \in Changes |-> IF c \in drafted THEN [Worktree EXCEPT ![d] = New]
                                     ELSE Absent]
       /\ active \in drafted \cup {Absent}
  /\ journals = [c \in Changes |-> [d \in Docs |-> Absent]]
  /\ queue = <<>> /\ job = NoJob /\ answers = {}
  /\ editor = NoEditor /\ requests = NoRequests /\ intent = "none" /\ load = NoLoad
  /\ shown = {}
  /\ typed = 0 /\ foreign = 0 /\ asks = 0 /\ faults = 0 /\ ends = 0 /\ late = FALSE
  /\ accepted = [c \in Changes |-> [d \in Docs |-> NoText]]

-----------------------------------------------------------------------------
(***************************************************************************)
(* The commands.  One at a time holds the session lock; each of its writes *)
(* is a step.                                                              *)
(***************************************************************************)

Fault(after) ==
  /\ faults < MaxFaults
  /\ faults' = faults + 1
  /\ late' = (late \/ after)

NoFault == UNCHANGED <<faults, late>>

JobFrame == UNCHANGED <<windowVars, typed, foreign, asks, ends>>

Reply(cmd, change, doc, result, text) ==
  [kind |-> cmd.kind, mine |-> cmd.mine, change |-> change, doc |-> doc,
   result |-> result, text |-> text]

Answer(result, text) ==
  /\ answers' = answers \cup {Reply(job.cmd, job.change, job.doc, result, text)}
  /\ job' = NoJob

\* ensure_active_context after the work: the answer of a session that has ended is
\* an error, although the work is done.  The switch of drafts does not check it.
Finish(result, text) ==
  \/ Answer(result, text)
  \/ job.cmd.stale /\ job.cmd.kind # "switch" /\ Answer("failed", NoText)

Goto(at) == job' = [job EXCEPT !.at = at] /\ UNCHANGED answers

\* The command ends with an error; the change it has created, if no document got
\* listed in it, is discarded, and active.json with it.
FailWith(recs) ==
  /\ Answer("failed", NoText)
  /\ LET c == job.change
     IN IF job.made /\ Readable(recs[c]) /\ recs[c].docs = {}
        THEN /\ records' = [recs EXCEPT ![c] = Absent]
             /\ trees' = [trees EXCEPT ![c] = Absent]
             /\ active' = Absent
        ELSE records' = recs /\ UNCHANGED <<trees, active>>

\* active_change, or the change a save or a switch names, must be usable.
FirstStep(cmd) ==
  CASE cmd.kind = "save" /\ active = cmd.change /\ Lists(cmd.change, cmd.doc) -> "touch"
    [] cmd.kind = "switch" /\ cmd.change = Absent -> "close"
    [] cmd.kind = "switch" /\ Usable(cmd.change) -> "touch"
    [] cmd.kind \in {"create", "copy", "edit"} /\ active = Absent -> "worktree"
    [] cmd.kind \in {"create", "copy", "edit"} /\ Usable(active) ->
         IF cmd.separate THEN "worktree" ELSE "add"
    [] OTHER -> "refused"

Begin ==
  /\ job = NoJob /\ queue # <<>>
  /\ queue' = Tail(queue)
  /\ LET cmd == Head(queue)
         refused == answers \cup {Reply(cmd, cmd.change, cmd.doc, "failed", NoText)}
     IN \/ /\ FirstStep(cmd) # "refused" /\ NoFault
           /\ job' = [NoJob EXCEPT !.at = FirstStep(cmd), !.cmd = cmd, !.doc = cmd.doc,
                        !.change = IF FirstStep(cmd) = "add" THEN active ELSE cmd.change]
           /\ UNCHANGED answers
        \/ /\ (FirstStep(cmd) = "refused" \/ cmd.stale) /\ NoFault
           /\ answers' = refused /\ UNCHANGED job
        \/ Fault(FALSE) /\ answers' = refused /\ UNCHANGED job
  /\ UNCHANGED <<diskVars, accepted>> /\ JobFrame

\* create_change: the branch and its worktree, the record, active.json.  A failure
\* takes back what the earlier steps made.
MakeWorktree ==
  /\ job.at = "worktree"
  /\ LET unused == {c \in Changes : records[c] = Absent /\ trees[c] = Absent}
         fresh == CHOOSE c \in unused : TRUE
     IN \/ /\ unused # {}
           /\ trees' = [trees EXCEPT ![fresh] = Worktree]
           /\ job' = [job EXCEPT !.at = "record", !.change = fresh, !.made = TRUE]
           /\ NoFault /\ UNCHANGED answers
        \/ (IF unused = {} THEN NoFault ELSE Fault(FALSE))
           /\ Answer("failed", NoText) /\ UNCHANGED trees
  /\ UNCHANGED <<active, records, journals, queue, accepted>> /\ JobFrame

RolledBack ==
  /\ records' = [records EXCEPT ![job.change] = Absent]
  /\ trees' = [trees EXCEPT ![job.change] = Absent]

RecordChange ==
  /\ job.at = "record"
  /\ \/ /\ records' = [records EXCEPT ![job.change] = [docs |-> {}, last |-> NoDoc]]
        /\ NoFault /\ Goto("activate") /\ UNCHANGED trees
     \/ Fault(FALSE) /\ RolledBack /\ Answer("failed", NoText)
  /\ UNCHANGED <<active, journals, queue, accepted>> /\ JobFrame

SetActive ==
  /\ job.at = "activate"
  /\ \/ /\ active' = job.change
        /\ NoFault /\ UNCHANGED <<records, trees>>
        /\ IF job.made THEN Goto("add") ELSE Finish("done", NoText)
     \/ /\ active' \in LeftBy(active, job.change)
        /\ Fault(active' = job.change) /\ Answer("failed", NoText)
        /\ IF job.made THEN RolledBack ELSE UNCHANGED <<records, trees>>
  /\ UNCHANGED <<journals, queue, accepted>> /\ JobFrame

\* add_document and add_existing_document list the document in the record before
\* they write its file.  A document that has an identity already is not written.
ListDocument(d) ==
  LET c == job.change
      text == Holds(c, d)
      listed == [docs |-> records[c].docs \cup {d}, last |-> d]
  IN \/ /\ records' = [records EXCEPT ![c] = listed]
        /\ NoFault /\ UNCHANGED <<active, trees>>
        /\ IF text \in {Absent, Base}
           THEN /\ job' = [job EXCEPT !.at = IF text = Absent THEN "file" ELSE "compare",
                             !.doc = d, !.seen = text, !.before = records[c]]
                /\ UNCHANGED answers
           ELSE Finish("done", text)
     \/ \E left \in LeftBy(records[c], listed) :
          /\ Fault(left = listed)
          /\ FailWith([records EXCEPT ![c] = left])

AddNewDocument ==
  /\ job.at = "add" /\ job.cmd.kind = "create"
  /\ LET free == {d \in Docs : Holds(job.change, d) = Absent}
     IN \/ \E d \in free : ListDocument(d)
        \/ free = {} /\ NoFault /\ FailWith(records)
  /\ UNCHANGED <<journals, queue, accepted>> /\ JobFrame

\* A document that is listed already is opened as it is.
AddExistingDocument ==
  /\ job.at = "add" /\ job.cmd.kind = "edit"
  /\ LET c == job.change
         d == job.cmd.doc
         text == Holds(c, d)
     IN \/ text \in Texts /\ ~Lists(c, d) /\ ListDocument(d)
        \/ /\ text # Absent /\ Lists(c, d) /\ NoFault
           /\ Finish("done", text) /\ UNCHANGED <<active, records, trees>>
        \/ (text = Absent \/ (text = Torn /\ ~Lists(c, d))) /\ NoFault /\ FailWith(records)
  /\ UNCHANGED <<journals, queue, accepted>> /\ JobFrame

\* add_team_template, which fails where a template has that name.
AddTemplate ==
  /\ job.at = "add" /\ job.cmd.kind = "copy"
  /\ NoFault
  /\ \/ Finish("done", NoText) /\ UNCHANGED <<active, records, trees>>
     \/ FailWith(records)
  /\ UNCHANGED <<journals, queue, accepted>> /\ JobFrame

CreateFile ==
  /\ job.at = "file"
  /\ LET After(text) == [trees EXCEPT ![job.change][job.doc] = text]
     IN \/ trees' = After(New) /\ NoFault /\ Finish("done", New)
        \/ \E left \in {Absent, Torn} :
             trees' = After(left) /\ Fault(FALSE) /\ Goto("unlist")
  /\ UNCHANGED <<active, records, journals, queue, accepted>> /\ JobFrame

Restored_Not(c) == records[c]
Restored(c) == job.before

Unlist ==
  /\ job.at = "unlist"
  /\ LET c == job.change
         After(rec) == [records EXCEPT ![c] = rec]
     IN \/ NoFault /\ FailWith(After(Restored(c)))
        \/ \E left \in {records[c], Restored(c)} :
             Fault(left = Restored(c)) /\ FailWith(After(left))
  /\ UNCHANGED <<journals, queue, accepted>> /\ JobFrame

\* A save and a switch first write the record: the document, or the change, is the
\* last one opened.
TouchRecord ==
  /\ job.at = "touch"
  /\ LET c == job.change
         touched == IF job.cmd.kind = "save"
                    THEN [records[c] EXCEPT !.last = job.doc] ELSE records[c]
     IN \/ /\ records' = [records EXCEPT ![c] = touched]
           /\ NoFault
           /\ Goto(IF job.cmd.kind = "save" THEN "journal" ELSE "activate")
        \/ \E left \in LeftBy(records[c], touched) :
             /\ records' = [records EXCEPT ![c] = left]
             /\ Fault(left = touched) /\ Answer("failed", NoText)
  /\ UNCHANGED <<active, trees, journals, queue, accepted>> /\ JobFrame

Entry(cmd) == [base |-> cmd.base, text |-> cmd.text]

JournalAfter_IfUnchanged(cmd, disk) ==
  IF disk = cmd.base THEN Entry(cmd) ELSE journals[cmd.change][cmd.doc]

\* The text goes to the journal before the file is compared.
JournalAfter(cmd, disk) == Entry(cmd)

WriteJournal ==
  /\ job.at = "journal"
  /\ LET cmd == job.cmd
         disk == Holds(job.change, job.doc)
         After(entry) == [journals EXCEPT ![job.change][job.doc] = entry]
         Accepted == [accepted EXCEPT ![job.change][job.doc] = cmd.text]
     IN \/ /\ disk = Absent /\ NoFault /\ Answer("failed", NoText)
           /\ UNCHANGED <<journals, accepted>>
        \/ /\ disk # Absent /\ NoFault
           /\ journals' = After(JournalAfter(cmd, disk))
           /\ accepted' = Accepted
           /\ IF disk = cmd.base
              THEN job' = [job EXCEPT !.at = "compare", !.seen = disk] /\ UNCHANGED answers
              ELSE Finish("conflict", disk)
        \/ \E left \in LeftBy(journals[job.change][job.doc], Entry(cmd)) :
             /\ disk # Absent /\ Fault(left = Entry(cmd))
             /\ journals' = After(left)
             /\ accepted' = IF left = Entry(cmd) THEN Accepted ELSE accepted
             /\ Answer("failed", NoText)
  /\ UNCHANGED <<active, records, trees, queue>> /\ JobFrame

\* atomic_replace_if_hash: a temporary file, the comparison, the rename.
NotReplaced == IF job.cmd.kind = "save" THEN Answer("failed", NoText) ELSE Goto("unlist")

\* job.seen is the text of the file when the command last looked.
MayReplace_Always(disk) == TRUE
MayReplace(disk) == disk = job.seen

CompareFile ==
  /\ job.at = "compare"
  /\ LET disk == Holds(job.change, job.doc)
     IN \/ /\ MayReplace(disk) /\ NoFault
           /\ job' = [job EXCEPT !.at = "rename", !.seen = disk] /\ UNCHANGED answers
        \/ /\ ~MayReplace(disk) /\ NoFault
           /\ IF job.cmd.kind = "save" THEN Finish("conflict", disk) ELSE Goto("unlist")
        \/ Fault(FALSE) /\ NotReplaced
  /\ UNCHANGED <<diskVars, queue, accepted>> /\ JobFrame

RenameFile ==
  /\ job.at = "rename"
  /\ LET text == IF job.cmd.kind = "save" THEN job.cmd.text ELSE Identified
         After(left) == [trees EXCEPT ![job.change][job.doc] = left]
     IN \/ /\ trees' = After(text) /\ NoFault
           /\ IF job.cmd.kind = "save" THEN Goto("unjournal") ELSE Finish("done", text)
        \/ \E left \in {Holds(job.change, job.doc), text} :
             trees' = After(left) /\ Fault(left = text) /\ NotReplaced
  /\ UNCHANGED <<active, records, journals, queue, accepted>> /\ JobFrame

RemoveJournal ==
  /\ job.at = "unjournal"
  /\ \/ /\ journals' = [journals EXCEPT ![job.change][job.doc] = Absent]
        /\ NoFault /\ Finish("done", job.cmd.text)
     \/ Fault(FALSE) /\ Answer("failed", NoText) /\ UNCHANGED journals
  /\ UNCHANGED <<active, records, trees, queue, accepted>> /\ JobFrame

CloseActive ==
  /\ job.at = "close"
  /\ \/ active' = Absent /\ NoFault /\ Finish("done", NoText)
     \/ Fault(FALSE) /\ Answer("failed", NoText) /\ UNCHANGED active
  /\ UNCHANGED <<records, trees, journals, queue, accepted>> /\ JobFrame

JobStep ==
  \/ MakeWorktree \/ RecordChange \/ SetActive
  \/ AddNewDocument \/ AddExistingDocument \/ AddTemplate
  \/ CreateFile \/ Unlist
  \/ TouchRecord \/ WriteJournal \/ CompareFile \/ RenameFile \/ RemoveJournal
  \/ CloseActive

-----------------------------------------------------------------------------
(***************************************************************************)
(* Other programs, and the end of the application between two writes or in *)
(* the first write of a file.                                              *)
(***************************************************************************)

\* A text of the application that another program replaces is no longer its to keep.
ForeignWrite(c, d) ==
  /\ foreign < MaxForeign /\ Holds(c, d) \in Texts
  /\ foreign' = foreign + 1
  /\ trees' = [trees EXCEPT ![c][d] = Text("foreign", foreign + 1)]
  /\ accepted' = IF Holds(c, d) = accepted[c][d]
                 THEN [accepted EXCEPT ![c][d] = NoText] ELSE accepted
  /\ UNCHANGED <<active, records, journals, jobVars, windowVars,
                 typed, asks, faults, ends, late>>

TornWrite(c, d) ==
  \/ /\ job.at = "record" /\ records' = [records EXCEPT ![c] = Torn]
     /\ UNCHANGED <<active, trees, journals>>
  \/ /\ job.at = "activate" /\ active = Absent /\ active' = Torn
     /\ UNCHANGED <<records, trees, journals>>
  \/ /\ job.at = "file" /\ trees' = [trees EXCEPT ![c][d] = Torn]
     /\ UNCHANGED <<active, records, journals>>
  \/ /\ job.at = "journal" /\ journals[c][d] = Absent
     /\ journals' = [journals EXCEPT ![c][d] = Torn]
     /\ UNCHANGED <<active, records, trees>>

AppStarts ==
  /\ queue' = <<>> /\ job' = NoJob /\ answers' = {}
  /\ editor' = NoEditor /\ requests' = NoRequests /\ intent' = "none" /\ load' = NoLoad
  /\ UNCHANGED <<shown, accepted>>

Crash ==
  /\ ends < MaxEnds
  /\ ends' = ends + 1
  /\ UNCHANGED diskVars \/ TornWrite(job.change, job.doc)
  /\ AppStarts
  /\ UNCHANGED <<typed, foreign, asks, faults, late>>

-----------------------------------------------------------------------------
(***************************************************************************)
(* The window's editor and its saves.                                      *)
(***************************************************************************)

\* What the window has on the screen.
SetEditor(e) ==
  /\ editor' = e
  /\ shown' = shown \cup ({e.text, e.conflict} \cap ForeignTexts)

WindowFrame == UNCHANGED <<diskVars, foreign, faults, ends, late, accepted>>

EditorOpen == editor # NoEditor
Busy == editor.status \in {"queued", "saving"}

\* The user types a new text or gets back to the saved one (which after a recovery is
\* the empty text).
Type ==
  /\ EditorOpen /\ typed < MaxTyped
  /\ typed' = typed + 1
  /\ \E t \in {Text("user", typed + 1), editor.saved} \ {editor.text} :
       SetEditor([editor EXCEPT
         !.text = t,
         !.status = IF Busy THEN @ ELSE IF t = editor.saved THEN "saved" ELSE "dirty",
         !.conflict = IF Busy THEN @ ELSE NoText])
  /\ UNCHANGED <<jobVars, requests, intent, load, asks>> /\ WindowFrame

SaveQueued(e) == [e EXCEPT !.status = "queued", !.snap = e.text]

\* The autosave timer.
QueueSave ==
  /\ editor.status = "dirty"
  /\ SetEditor(SaveQueued(editor))
  /\ UNCHANGED <<jobVars, requests, intent, load, asks, typed>> /\ WindowFrame

SendSave ==
  /\ editor.status = "queued"
  /\ SetEditor([editor EXCEPT !.status = "saving"])
  /\ queue' = Append(queue, [Command("save") EXCEPT
                 !.change = editor.change, !.doc = editor.doc, !.base = editor.base,
                 !.text = editor.snap, !.mine = TRUE])
  /\ UNCHANGED <<job, answers, requests, intent, load, asks, typed>> /\ WindowFrame

ChangedDuringSave_Never(e) == FALSE
ChangedDuringSave(e) == e.text # e.snap

StatusAfterSave_StillSaving(e) == IF ChangedDuringSave(e) THEN "saving" ELSE "saved"
StatusAfterSave(e) == IF ChangedDuringSave(e) THEN "dirty" ELSE "saved"

Saved(e) ==
  IF e.closing /\ ~ChangedDuringSave(e) THEN NoEditor
  ELSE [e EXCEPT !.saved = e.snap, !.base = e.snap, !.status = StatusAfterSave(e),
                 !.snap = NoText, !.conflict = NoText]

\* Only the answer to the editor's own request is looked at.
Heard(a) == a.mine /\ (editor.status = "saving" \/ (EditorOpen /\ a.result = "failed"))

AnswerSave(a) ==
  /\ a.kind = "save"
  /\ answers' = answers \ {a}
  /\ \/ ~Heard(a) /\ UNCHANGED <<editor, shown>>
     \/ Heard(a) /\ a.result = "done" /\ SetEditor(Saved(editor))
     \/ Heard(a) /\ a.result = "failed" /\ SetEditor([editor EXCEPT !.status = "error"])
     \/ /\ Heard(a) /\ a.result = "conflict"
        /\ SetEditor([editor EXCEPT !.status = "conflict", !.conflict = a.text])
  /\ UNCHANGED <<queue, job, requests, intent, load, asks, typed>> /\ WindowFrame

ResolveFrame == UNCHANGED <<jobVars, requests, intent, load, asks, typed>> /\ WindowFrame

AcceptDisk ==
  /\ editor.conflict # NoText
  /\ SetEditor([editor EXCEPT !.text = editor.conflict, !.saved = editor.conflict,
                  !.base = editor.conflict, !.status = "dirty", !.snap = NoText,
                  !.conflict = NoText])
  /\ ResolveFrame

AcceptHub ==
  /\ editor.conflict # NoText
  /\ SetEditor([editor EXCEPT !.base = editor.conflict, !.status = "dirty",
                  !.snap = NoText, !.conflict = NoText])
  /\ ResolveFrame

StartMerge ==
  /\ editor.conflict # NoText /\ editor.text # Merged
  /\ SetEditor([editor EXCEPT !.base = editor.conflict, !.text = Merged])
  /\ ResolveFrame

CloseRequested(e) ==
  IF e.status = "saved" THEN NoEditor
  ELSE IF e.status \in {"dirty", "queued", "saving"} THEN [e EXCEPT !.closing = TRUE]
       ELSE e

Ask == asks < MaxAsks /\ asks' = asks + 1

\* closeDraftEditor saves what is dirty and closes after it.
CloseEditor ==
  /\ EditorOpen /\ Ask
  /\ SetEditor(CloseRequested(IF editor.status = "dirty" THEN SaveQueued(editor)
                              ELSE editor))
  /\ UNCHANGED <<jobVars, requests, intent, load, typed>> /\ WindowFrame

-----------------------------------------------------------------------------
(***************************************************************************)
(* Creating, editing, copying, switching and leaving.  All but the edit of *)
(* an existing document first wait for flushCurrentEditor.                 *)
(***************************************************************************)

Flushed == editor.status \in {"none", "saved"}

\* Once the editor is flushed.
Proceed(what) ==
  \/ /\ what = "create" /\ requests["create"] = "none"
     /\ requests' = [requests EXCEPT !["create"] = "checking"]
     /\ UNCHANGED <<diskVars, jobVars, editor, shown, load>>
  \/ /\ what = "copy" /\ requests["copy"] = "none"
     /\ requests' = [requests EXCEPT !["copy"] = "sent"]
     /\ \E separate \in BOOLEAN :
          queue' = Append(queue, [Command("copy") EXCEPT !.separate = separate])
     /\ UNCHANGED <<diskVars, job, answers, editor, shown, load>>
  \/ /\ what = "switch" /\ requests["switch"] = "none"
     /\ requests' = [requests EXCEPT !["switch"] = "sent"]
     /\ \E c \in {d \in Changes : records[d] # Absent} \cup {Absent} :
          queue' = Append(queue, [Command("switch") EXCEPT !.change = c])
     /\ UNCHANGED <<diskVars, job, answers, editor, shown, load>>
  \/ /\ what = "leave"
     /\ SetEditor(CloseRequested(editor))
     /\ UNCHANGED <<diskVars, jobVars, requests, load>>

Wishes == {"create", "copy", "switch", "leave"}

AskNow(what) ==
  /\ Flushed /\ intent = "none" /\ Ask
  /\ what \in {"switch", "leave"} => EditorOpen
  /\ Proceed(what)
  /\ UNCHANGED <<intent, typed, foreign, faults, ends, late, accepted>>

AskAndFlush ==
  /\ ~Flushed /\ intent = "none" /\ Ask
  /\ intent' = "flush"
  /\ SetEditor(IF editor.status = "dirty" THEN SaveQueued(editor) ELSE editor)
  /\ UNCHANGED <<jobVars, requests, load, typed>> /\ WindowFrame

FlushEnds(what) ==
  /\ intent = "flush" /\ Flushed
  /\ intent' = "none"
  /\ Proceed(what)
  /\ UNCHANGED <<asks, typed, foreign, faults, ends, late, accepted>>

\* An error, a conflict, or ten seconds.
FlushFails ==
  /\ intent = "flush"
  /\ intent' = "none"
  /\ UNCHANGED <<jobVars, editor, shown, requests, load, asks, typed>> /\ WindowFrame

\* Closing the application's window waits for the flush, not for other commands.
Quit ==
  /\ Flushed /\ ends < MaxEnds
  /\ ends' = ends + 1
  /\ AppStarts
  /\ UNCHANGED <<diskVars, asks, typed, foreign, faults, late>>

\* validate_document_creation, then create_document_draft.
CreationChecked ==
  /\ requests["create"] = "checking"
  /\ \/ /\ requests' = [requests EXCEPT !["create"] = "sent"]
        /\ \E separate \in BOOLEAN :
             queue' = Append(queue, [Command("create") EXCEPT !.separate = separate])
     \/ requests' = [requests EXCEPT !["create"] = "none"] /\ UNCHANGED queue
  /\ UNCHANGED <<job, answers, editor, shown, intent, load, asks, typed>> /\ WindowFrame

\* The reader, where the edit is asked for, is on the screen while no editor is.
EditExisting(d) ==
  /\ ~EditorOpen /\ requests["edit"] = "none" /\ Ask
  /\ IF Usable(active) THEN Holds(active, d) # Absent ELSE d \in Tracked
  /\ requests' = [requests EXCEPT !["edit"] = "sent"]
  /\ queue' = Append(queue, [Command("edit") EXCEPT !.doc = d])
  /\ UNCHANGED <<job, answers, editor, shown, intent, load, typed>> /\ WindowFrame

\* The window starts its session again.  What it asked for under the old one may find
\* that session gone, and where the editor is replaced nobody waits for its save.
Restarted(replaced) ==
  LET Old(cmd) == [cmd EXCEPT !.stale = TRUE, !.mine = @ /\ ~replaced]
  IN /\ load' = NoLoad
     /\ queue' = [i \in DOMAIN queue |-> Old(queue[i])]
     /\ job' = IF job = NoJob THEN job ELSE [job EXCEPT !.cmd = Old(@)]

Remaining(a, replaced) ==
  {[b EXCEPT !.mine = @ /\ ~replaced] : b \in answers \ {a}}

AnswerRequest(a) ==
  /\ a.kind \in Kinds
  /\ requests' = [requests EXCEPT ![a.kind] = "none"]
  /\ \/ /\ a.result = "failed"
        /\ answers' = answers \ {a}
        /\ UNCHANGED <<queue, job, editor, shown, load>>
     \/ /\ a.result = "done"
        /\ answers' = Remaining(a, a.kind # "copy")
        /\ Restarted(a.kind # "copy")
        /\ CASE a.kind \in {"create", "edit"} -> SetEditor(Opened(a.change, a.doc, a.text))
             [] a.kind = "switch" -> SetEditor(NoEditor)
             [] OTHER -> UNCHANGED <<editor, shown>>
  /\ UNCHANGED <<intent, asks, typed>> /\ WindowFrame

-----------------------------------------------------------------------------
(***************************************************************************)
(* active_recovery, which takes no lock, and templatesLoaded.              *)
(***************************************************************************)

LoadFrame == UNCHANGED <<jobVars, requests, intent, asks, typed>> /\ WindowFrame

Ended == [NoLoad EXCEPT !.at = "ended"]

\* The session is ready.  The journal to recover from, or else the last document of the record.
LookForRecovery ==
  /\ load.at = "starting"
  /\ LET journaled == {d \in Docs : journals[active][d] # Absent}
         last == records[active].last
         Reading(d) == [load EXCEPT !.at = "reading", !.change = active, !.doc = d,
                                    !.journal = (journaled # {})]
         nothing == active = Absent \/ (Usable(active) /\ journaled = {} /\ last = NoDoc)
     IN \/ nothing /\ load' = [load EXCEPT !.at = "arriving"]
        \/ active # Absent /\ ~Usable(active) /\ load' = Ended
        \/ Usable(active) /\ \E d \in journaled : load' = Reading(d)
        \/ Usable(active) /\ journaled = {} /\ last # NoDoc /\ load' = Reading(last)
  /\ UNCHANGED <<editor, shown>> /\ LoadFrame

Recovered(c, d) ==
  LET disk == Holds(c, d)
      entry == journals[c][d]
  IN IF ~load.journal THEN Opened(c, d, disk)
     ELSE [Opened(c, d, disk) EXCEPT
             !.text = entry.text, !.saved = Empty,
             !.status = IF disk = entry.base THEN "dirty" ELSE "conflict",
             !.conflict = IF disk = entry.base THEN NoText ELSE disk]

Recoverable(c, d) ==
  Lists(c, d) /\ Holds(c, d) # Absent /\ (load.journal => Readable(journals[c][d]))

\* A file that cannot be read ends the load, and the window hears nothing.
ReadRecovery ==
  /\ load.at = "reading"
  /\ LET c == load.change
         d == load.doc
     IN load' = IF Recoverable(c, d)
                THEN [load EXCEPT !.at = "arriving", !.found = Recovered(c, d)]
                ELSE Ended
  /\ UNCHANGED <<editor, shown>> /\ LoadFrame

\* The recovery is taken only where no editor is open.
RecoveryArrives ==
  /\ load.at = "arriving"
  /\ load' = Ended
  /\ IF EditorOpen THEN UNCHANGED <<editor, shown>> ELSE SetEditor(load.found)
  /\ LoadFrame

-----------------------------------------------------------------------------
Next ==
  \/ Begin \/ JobStep \/ Crash
  \/ \E c \in Changes, d \in Docs : ForeignWrite(c, d)
  \/ Type \/ QueueSave \/ SendSave
  \/ \E a \in answers : AnswerSave(a) \/ AnswerRequest(a)
  \/ AcceptDisk \/ AcceptHub \/ StartMerge \/ CloseEditor
  \/ \E what \in Wishes : AskNow(what) \/ FlushEnds(what)
  \/ AskAndFlush \/ FlushFails \/ Quit \/ CreationChecked
  \/ \E d \in Docs : EditExisting(d)
  \/ LookForRecovery \/ ReadRecovery \/ RecoveryArrives

Spec == Init /\ [][Next]_vars

-----------------------------------------------------------------------------
(***************************************************************************)
(* Properties.                                                             *)
(***************************************************************************)

Places == {"none", "worktree", "record", "activate", "add", "file", "unlist", "touch",
           "journal", "compare", "rename", "unjournal", "close"}

Commands ==
  {cmd \in [kind : Kinds \cup {"none", "save"}, change : Changes \cup {Absent},
            doc : Docs \cup {NoDoc}, separate : BOOLEAN, base : Kept \cup {NoText},
            text : Kept \cup {NoText}, stale : BOOLEAN, mine : BOOLEAN] :
     /\ cmd.kind \in {"edit", "save"} => cmd.doc \in Docs
     /\ cmd.kind = "save" => cmd.change \in Changes /\ {cmd.base, cmd.text} \subseteq Kept}

Jobs == [at : Places, cmd : Commands, change : Changes \cup {Absent},
         doc : Docs \cup {NoDoc}, made : BOOLEAN, seen : Contents \cup {NoText},
         before : Records \cup {Absent, Torn}]

Answers ==
  {a \in [kind : Kinds \cup {"none", "save"}, mine : BOOLEAN, change : Changes \cup {Absent},
          doc : Docs \cup {NoDoc}, result : {"done", "failed", "conflict"},
          text : Kept \cup {NoText}] :
     /\ a.result = "conflict" => a.text \in Kept
     /\ a.result = "done" /\ a.kind \in {"create", "edit"} =>
          a.change \in Changes /\ a.doc \in Docs /\ a.text \in Kept}

\* An open editor shows a text of a document of a change.
Editors ==
  {NoEditor} \cup
  {e \in [change : Changes, doc : Docs, text : Kept, saved : Kept, base : Kept,
          status : {"saved", "dirty", "queued", "saving", "conflict", "error"},
          snap : Kept \cup {NoText}, conflict : Kept \cup {NoText}, closing : BOOLEAN] :
     e.status \in {"queued", "saving"} => e.snap \in Kept}

Loads == [at : {"starting", "reading", "arriving", "ended"}, change : Changes \cup {Absent},
          doc : Docs \cup {NoDoc}, journal : BOOLEAN, found : Editors]

DiskTypeOK ==
  /\ active \in Changes \cup {Absent, Torn}
  /\ records \in [Changes -> Records \cup {Absent, Torn}]
  /\ trees \in [Changes -> Worktrees \cup {Absent}]
  /\ journals \in [Changes -> [Docs -> Entries \cup {Absent, Torn}]]
  /\ accepted \in [Changes -> [Docs -> Kept \cup {NoText}]]

JobTypeOK ==
  /\ queue \in Seq(Commands)
  /\ job \in Jobs /\ (job.at = "none" <=> job = NoJob)
  /\ answers \subseteq Answers

WindowTypeOK ==
  /\ editor \in Editors
  /\ requests \in [Kinds -> {"none", "checking", "sent"}]
  /\ intent \in {"none", "flush"}
  /\ load \in Loads
  /\ shown \subseteq ForeignTexts

BoundsTypeOK ==
  /\ typed \in 0..MaxTyped /\ foreign \in 0..MaxForeign
  /\ asks \in Nat /\ faults \in Nat /\ ends \in Nat /\ late \in BOOLEAN

TypeOK == DiskTypeOK /\ JobTypeOK /\ WindowTypeOK /\ BoundsTypeOK

\* A text a save went on with (save_document writes the journal first) is in the
\* journal or in the file until another program replaces it there: through conflicts,
\* failing writes, later commands and ends.
AcceptedTextKept ==
  \A c \in Changes, d \in Docs : accepted[c][d] # NoText =>
    \/ Readable(journals[c][d]) /\ journals[c][d].text = accepted[c][d]
    \/ Holds(c, d) = accepted[c][d]

\* What another program wrote into a document is replaced only after the window has
\* shown it, as a text or as the other side of a conflict; except for a write between
\* the comparison and the rename of atomic_replace_if_hash.
ForeignTextShown ==
  [][\A c \in Changes, d \in Docs :
       LET old == Holds(c, d)
       IN /\ old \in ForeignTexts
          /\ trees'[c] # Absent /\ trees'[c][d] # old
          /\ foreign' = foreign
          => old \in shown \/ (job.at = "rename" /\ job.seen # old)]_vars

\* A save the window hears is done has its text in the file, unless another program
\* has written there, and an editor that closes on it has no later text.
SaveAnswerIsTrue ==
  [][\A a \in answers : AnswerSave(a) /\ Heard(a) /\ a.result = "done" =>
       /\ Holds(editor.change, editor.doc) \in {editor.snap} \cup ForeignTexts
       /\ editor'.status = "none" => editor.text = editor.snap]_vars

\* Where the application has not ended, one failing write alone does not leave a record that lists a
\* document without a file (previous_record of add_document), unless that write was
\* reported failed after it had taken effect.
NoDanglingRecord ==
  \A c \in Changes, d \in Docs :
    Lists(c, d) /\ Holds(c, d) = Absent =>
      \/ job.change = c /\ job.at \in {"file", "unlist"}
      \/ ends > 0 \/ faults > 1 \/ late

\* The window waits for an answer exactly where one is owed to it: its editor is
\* "saving", and a request of it is under way, as long as one command of theirs waits
\* for the lock, holds it or has answered.  An answer that is lost, given twice or
\* credited to a later editor leaves the editor saving for ever, or not saving at all.
Owed(kind) ==
  LET Own(x) == x.kind = kind /\ (kind = "save" => x.mine)
  IN Cardinality({i \in DOMAIN queue : Own(queue[i])})
       + Cardinality({a \in answers : Own(a)}) + (IF Own(job.cmd) THEN 1 ELSE 0)

AnswersOwed ==
  /\ Owed("save") = IF editor.status = "saving" THEN 1 ELSE 0
  /\ \A k \in Kinds : Owed(k) = IF requests[k] = "sent" THEN 1 ELSE 0
=============================================================================
