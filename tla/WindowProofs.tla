---------------------------- MODULE WindowProofs ----------------------------
(***************************************************************************)
(* The drafts, for every number of changes, documents, texts, faults and   *)
(* ends: the types, that accepted texts are kept, that what other programs *)
(* wrote is replaced only once the window has shown it, that a record      *)
(* without its file is cleaned up, that the window waits only for what is  *)
(* under way, and that an answered save is done.  Then the promises of the *)
(* drafts and of the connection wizard where both live in one window.      *)
(***************************************************************************)
EXTENDS MCWindow, SequenceTheorems, FiniteSetTheorems, TLAPS

(***************************************************************************)
(* What a command that holds the lock may rely on at each of its places.   *)
(***************************************************************************)
NoDocuments == [docs |-> {}, last |-> NoDoc]
IsSave == job.cmd.kind = "save"

\* The document is being added: it is in the record, and nobody has saved it.
Placing == job.at \in {"file", "unlist"} \/ (job.at \in {"compare", "rename"} /\ ~IsSave)

\* The document is being saved.
Saving == job.at \in {"journal", "unjournal"}
            \/ (job.at \in {"touch", "compare", "rename"} /\ IsSave)

MadeOK ==
  /\ job.at \in {"record", "activate", "add", "touch"} => job.change \in Changes
  /\ job.at = "record" => job.made /\ records[job.change] = Absent
  /\ job.at = "activate" /\ job.made => records[job.change] = NoDocuments
  /\ job.at = "add" => records[job.change] \in Records
  /\ job.at \in {"record", "add", "file", "unlist"} \/ (job.at = "activate" /\ job.made) =>
       trees[job.change] # Absent
  /\ job.at = "touch" => Readable(records[job.change]) /\ ~job.made
  /\ job.at \in {"touch", "close"} \/ (job.at = "activate" /\ ~job.made) =>
       job.cmd.kind \in {"save", "switch"}

PlacingOK ==
  /\ job.cmd.kind = "edit" => job.doc = job.cmd.doc
  /\ Placing =>
       /\ job.change \in Changes /\ job.doc \in Docs /\ job.before \in Records
       /\ records[job.change] = [docs |-> job.before.docs \cup {job.doc}, last |-> job.doc]
       /\ accepted[job.change][job.doc] = NoText

SavingOK ==
  /\ Saving => /\ IsSave /\ job.change = job.cmd.change /\ job.doc = job.cmd.doc
               /\ Lists(job.change, job.doc)
  /\ job.at \in {"compare", "rename"} => Holds(job.change, job.doc) # Absent
  /\ job.at \in {"compare", "rename"} /\ IsSave =>
       /\ journals[job.change][job.doc] = Entry(job.cmd)
       /\ accepted[job.change][job.doc] \in {NoText, job.cmd.text}
  /\ job.at = "unjournal" =>
       accepted[job.change][job.doc] \in {NoText, Holds(job.change, job.doc)}

JobOK == MadeOK /\ PlacingOK /\ SavingOK

\* A text is accepted for a document that the record lists and that has a file.
AcceptedListed ==
  \A c \in Changes, d \in Docs :
    accepted[c][d] # NoText => Lists(c, d) /\ Holds(c, d) # Absent

DraftsInv == TypeOK /\ JobOK /\ AcceptedListed /\ AcceptedTextKept

-----------------------------------------------------------------------------
(***************************************************************************)
(* Values.                                                                 *)
(***************************************************************************)

\* The texts of the program are texts, and a file that is there has something.
LEMMA TextsTyped ==
  /\ {Empty, Base, Identified, New, Merged} \subseteq Texts
  /\ ForeignTexts \subseteq Texts /\ Texts \subseteq Kept
  /\ Absent \notin Kept /\ NoText # Absent /\ Torn \in Kept
  /\ Merged # NoText
  BY FilesAssumption
  DEF Texts, ForeignTexts, Kept, Empty, Base, Identified, New, Merged, NoText, Text

\* The values for nothing, and those a change starts with, are of their types.
LEMMA NothingTyped ==
  /\ NoCommand \in Commands /\ NoJob \in Jobs /\ NoJob.at = "none"
  /\ NoEditor \in Editors /\ NoLoad \in Loads /\ Ended \in Loads
  /\ NoDocuments \in Records /\ Worktree \in Worktrees
  <1>1. NoCommand \in Commands
    BY DEF NoCommand, Commands, Kinds
  <1>2. NoJob \in Jobs /\ NoJob.at = "none"
    BY <1>1 DEF NoJob, Jobs, Places
  <1>3. NoEditor \in Editors
    BY DEF Editors
  <1>4. NoLoad \in Loads /\ Ended \in Loads
    BY <1>3 DEF NoLoad, Loads, Ended
  <1>5. NoDocuments \in Records
    BY DEF NoDocuments, Records
  <1>6. Worktree \in Worktrees
    BY TextsTyped DEF Worktree, Worktrees, Contents
  <1>. QED BY <1>1, <1>2, <1>3, <1>4, <1>5, <1>6

\* Records and entries are readable.
LEMMA ReadableFiles ==
  /\ \A rec \in Records : Readable(rec)
  /\ \A entry \in Entries : Readable(entry)
  /\ \A rec \in Records \cup {Absent, Torn} : Readable(rec) => rec \in Records
  /\ \A tree \in Worktrees : tree # Absent
  BY FilesAssumption DEF Readable

\* The bounds are natural numbers.
LEMMA BoundsNatural ==
  {MaxTyped, MaxForeign, MaxAsks, MaxFaults, MaxEnds} \subseteq Nat
  BY DraftsAssumption

\* The first state has the types, and nothing has been accepted.
LEMMA InitTyped == Init => DraftsInv
  <1>. SUFFICES ASSUME Init PROVE DraftsInv
    OBVIOUS
  <1>. USE DEF Init
  <1>. PICK drafted \in {{}, {CHOOSE c \in Changes : TRUE}}, d \in Docs \ Tracked :
         /\ records = [c \in Changes |-> IF c \in drafted THEN [docs |-> {d}, last |-> d]
                                         ELSE Absent]
         /\ trees = [c \in Changes |-> IF c \in drafted THEN [Worktree EXCEPT ![d] = New]
                                       ELSE Absent]
         /\ active \in drafted \cup {Absent}
    OBVIOUS
  <1>1. DiskTypeOK
    <2>1. active \in Changes \cup {Absent, Torn}
      BY DraftsAssumption
    <2>2. records \in [Changes -> Records \cup {Absent, Torn}]
      BY DEF Records
    <2>3. [Worktree EXCEPT ![d] = New] \in Worktrees
      BY NothingTyped, TextsTyped DEF Worktrees, Contents
    <2>. QED BY <2>1, <2>2, <2>3 DEF DiskTypeOK
  <1>2. JobTypeOK /\ WindowTypeOK /\ BoundsTypeOK
    <2>1. JobTypeOK
      BY NothingTyped DEF JobTypeOK
    <2>2. WindowTypeOK
      BY NothingTyped DEF WindowTypeOK, NoRequests
    <2>3. BoundsTypeOK
      <3>1. MaxTyped \in Nat /\ MaxForeign \in Nat
        BY BoundsNatural
      <3>2. typed = 0 /\ foreign = 0 /\ asks = 0 /\ faults = 0 /\ ends = 0
        OBVIOUS
      <3>3. late \in BOOLEAN
        OBVIOUS
      <3>. HIDE DEF Init
      <3>4. /\ typed \in 0..MaxTyped /\ foreign \in 0..MaxForeign
            /\ asks \in Nat /\ faults \in Nat /\ ends \in Nat
        BY <3>1, <3>2
      <3>. QED BY <3>3, <3>4 DEF BoundsTypeOK
    <2>. QED BY <2>1, <2>2, <2>3
  <1>3. JobOK
    BY DEF JobOK, MadeOK, PlacingOK, SavingOK, Placing, Saving, IsSave, NoJob, NoCommand
  <1>4. AcceptedListed /\ AcceptedTextKept
    BY DEF AcceptedListed, AcceptedTextKept
  <1>. QED BY <1>1, <1>2, <1>3, <1>4 DEF DraftsInv, TypeOK

-----------------------------------------------------------------------------
(***************************************************************************)
(* The steps of the window leave the files and the command alone.          *)
(***************************************************************************)

\* An editor with a status is an open one.
LEMMA OpenEditors ==
  ASSUME NEW e \in Editors
  PROVE  e.status = "none" <=> e = NoEditor
  BY DEF Editors, NoEditor

\* What the reducer makes of an editor is an editor.
LEMMA EditorsTyped ==
  ASSUME NEW e \in Editors
  PROVE  /\ e # NoEditor => SaveQueued(e) \in Editors /\ SaveQueued(e) # NoEditor
         /\ CloseRequested(e) \in Editors
         /\ e.status = "saving" => Saved(e) \in Editors
  <1>1. CASE e = NoEditor
    BY <1>1 DEF CloseRequested, NoEditor
  <1>2. CASE e # NoEditor
    <2>1. SaveQueued(e) \in Editors /\ SaveQueued(e) # NoEditor
      BY <1>2 DEF SaveQueued, Editors, NoEditor
    <2>2. CloseRequested(e) \in Editors
      BY <1>2, NothingTyped DEF CloseRequested, Editors
    <2>3. ASSUME e.status = "saving" PROVE Saved(e) \in Editors
      BY <1>2, <2>3, NothingTyped
      DEF Saved, StatusAfterSave, ChangedDuringSave, Editors
    <2>. QED BY <2>1, <2>2, <2>3
  <1>. QED BY <1>1, <1>2

\* A newly opened editor is an editor.
LEMMA OpenedTyped ==
  ASSUME NEW c \in Changes, NEW d \in Docs, NEW t \in Kept
  PROVE  Opened(c, d, t) \in Editors
  BY DEF Opened, NoEditor, Editors

\* Setting the editor keeps the types of the window.
LEMMA SetEditorTyped ==
  ASSUME NEW e \in Editors, SetEditor(e)
  PROVE  editor' \in Editors /\ (shown \subseteq ForeignTexts => shown' \subseteq ForeignTexts)
  BY DEF SetEditor

\* The command that holds the lock, up to what the window's restart marks on it.
JobSame ==
  \/ job' = job
  \/ \E mine \in BOOLEAN :
       job # NoJob /\ job' = [job EXCEPT !.cmd = [@ EXCEPT !.stale = TRUE, !.mine = mine]]

\* Where the files are left alone, what was right about them stays right.
LEMMA FilesSame ==
  ASSUME DraftsInv, TypeOK', UNCHANGED <<diskVars, accepted>>, JobSame
  PROVE  DraftsInv'
  <1>. USE DEF DraftsInv, diskVars
  <1>1. /\ job'.at = job.at /\ job'.change = job.change /\ job'.doc = job.doc
        /\ job'.made = job.made /\ job'.before = job.before
        /\ job'.cmd.kind = job.cmd.kind /\ job'.cmd.doc = job.cmd.doc
        /\ job'.cmd.change = job.cmd.change /\ job'.cmd.text = job.cmd.text
        /\ job'.cmd.base = job.cmd.base
    <2>1. job \in Jobs
      BY DEF TypeOK, JobTypeOK
    <2>2. ASSUME NEW mine \in BOOLEAN,
                 job' = [job EXCEPT !.cmd = [@ EXCEPT !.stale = TRUE, !.mine = mine]]
          PROVE  /\ job' = [job EXCEPT !.cmd = job'.cmd]
                 /\ job'.cmd = [job.cmd EXCEPT !.stale = TRUE, !.mine = mine]
      BY <2>1, <2>2 DEF Jobs
    <2>3. job.cmd \in Commands
      BY <2>1 DEF Jobs
    <2>. QED BY ZenonT(60), <2>1, <2>2, <2>3 DEF JobSame, Jobs, Commands
  <1>2. \A c \in Changes : \A d : Lists(c, d)' = Lists(c, d) /\ Holds(c, d)' = Holds(c, d)
    BY DEF Lists, Holds, Readable
  <1>3. MadeOK'
    BY <1>1 DEF JobOK, MadeOK, Readable
  <1>4. PlacingOK'
    BY <1>1 DEF JobOK, PlacingOK, Placing, IsSave
  <1>5. SavingOK'
    BY <1>1 DEF JobOK, SavingOK, Saving, IsSave, Entry, Lists, Holds, Readable
  <1>6. AcceptedListed' /\ AcceptedTextKept'
    BY <1>2 DEF AcceptedListed, AcceptedTextKept, Readable
  <1>. QED BY <1>3, <1>4, <1>5, <1>6 DEF JobOK

\* What the window sends is a command.
LEMMA CommandsTyped ==
  /\ \A separate \in BOOLEAN :
       /\ [Command("create") EXCEPT !.separate = separate] \in Commands
       /\ [Command("copy") EXCEPT !.separate = separate] \in Commands
  /\ \A c \in Changes \cup {Absent} : [Command("switch") EXCEPT !.change = c] \in Commands
  /\ \A d \in Docs : [Command("edit") EXCEPT !.doc = d] \in Commands
  /\ \A c \in Changes, d \in Docs, base \in Kept, text \in Kept :
       [Command("save") EXCEPT !.change = c, !.doc = d, !.base = base, !.text = text,
          !.mine = TRUE] \in Commands
  <1>1. ASSUME NEW kind \in {"create", "copy"}, NEW separate \in BOOLEAN
        PROVE  [Command(kind) EXCEPT !.separate = separate] \in Commands
    BY DEF Command, NoCommand, Commands, Kinds
  <1>2. ASSUME NEW c \in Changes \cup {Absent}
        PROVE  [Command("switch") EXCEPT !.change = c] \in Commands
    BY DEF Command, NoCommand, Commands, Kinds
  <1>3. ASSUME NEW d \in Docs
        PROVE  [Command("edit") EXCEPT !.doc = d] \in Commands
    BY DEF Command, NoCommand, Commands, Kinds
  <1>4. ASSUME NEW c \in Changes, NEW d \in Docs, NEW base \in Kept, NEW text \in Kept
        PROVE  [Command("save") EXCEPT !.change = c, !.doc = d, !.base = base, !.text = text,
                  !.mine = TRUE] \in Commands
    BY DEF Command, NoCommand, Commands, Kinds
  <1>. QED BY <1>1, <1>2, <1>3, <1>4

\* Typing and asking keep the bounds.
LEMMA BoundsKept ==
  ASSUME BoundsTypeOK, UNCHANGED <<foreign, faults, ends, late>>,
         typed' = typed \/ (typed < MaxTyped /\ typed' = typed + 1),
         asks' = asks \/ Ask
  PROVE  BoundsTypeOK'
  <1>1. MaxTyped \in Nat
    BY BoundsNatural
  <1>2. typed' \in 0..MaxTyped /\ asks' \in Nat
    BY <1>1 DEF BoundsTypeOK, Ask
  <1>. QED BY <1>2 DEF BoundsTypeOK

\* The editor's own steps keep the types.
LEMMA EditorStepsTyped ==
  ASSUME TypeOK,
         \/ Type \/ QueueSave \/ SendSave \/ AcceptDisk \/ AcceptHub \/ StartMerge
         \/ CloseEditor \/ AskAndFlush \/ FlushFails
         \/ \E a \in answers : AnswerSave(a)
  PROVE  TypeOK' /\ UNCHANGED <<diskVars, accepted, job>>
  <1>1. UNCHANGED <<diskVars, accepted, job>> /\ DiskTypeOK'
    <2>1. UNCHANGED <<diskVars, accepted, job>>
      BY DEF Type, QueueSave, SendSave, AcceptDisk, AcceptHub, StartMerge, CloseEditor,
             AskAndFlush, FlushFails, AnswerSave, ResolveFrame, WindowFrame, jobVars
    <2>. QED BY <2>1 DEF TypeOK, DiskTypeOK, diskVars
  <1>2. BoundsTypeOK'
    BY BoundsKept
    DEF TypeOK, Type, QueueSave, SendSave, AcceptDisk, AcceptHub, StartMerge, CloseEditor,
        AskAndFlush, FlushFails, AnswerSave, ResolveFrame, WindowFrame, Ask
  <1>3. JobTypeOK'
    <2>1. CASE SendSave
      <3>1. editor \in Editors /\ editor.status = "queued" /\ editor # NoEditor
        BY <2>1, OpenEditors DEF SendSave, TypeOK, WindowTypeOK, NoEditor
      <3>2. /\ editor.change \in Changes /\ editor.doc \in Docs /\ editor.base \in Kept
            /\ editor.snap \in Kept
        BY <3>1 DEF Editors
      <3>. DEFINE cmd == [Command("save") EXCEPT
                            !.change = editor.change, !.doc = editor.doc,
                            !.base = editor.base, !.text = editor.snap, !.mine = TRUE]
      <3>3. cmd \in Commands
        BY <3>2, CommandsTyped
      <3>4. queue' = Append(queue, cmd) /\ UNCHANGED answers
        BY <2>1 DEF SendSave
      <3>. HIDE DEF cmd
      <3>. QED BY <1>1, <3>3, <3>4 DEF TypeOK, JobTypeOK
    <2>2. CASE queue' = queue /\ answers' \subseteq answers
      BY <1>1, <2>2 DEF TypeOK, JobTypeOK
    <2>3. ~SendSave => queue' = queue /\ answers' \subseteq answers
      BY DEF Type, QueueSave, AcceptDisk, AcceptHub, StartMerge, CloseEditor, AskAndFlush,
             FlushFails, AnswerSave, ResolveFrame, jobVars
    <2>. QED BY <2>1, <2>2, <2>3
  <1>4. WindowTypeOK'
    <2>. DEFINE Set(e) == e \in Editors /\ SetEditor(e)
    <2>1. ASSUME NEW e, Set(e) \/ UNCHANGED <<editor, shown>>,
                 UNCHANGED <<requests, load>>, intent' \in {"none", "flush"}
          PROVE  WindowTypeOK'
      BY <2>1, SetEditorTyped DEF TypeOK, WindowTypeOK
    <2>2. editor \in Editors /\ intent \in {"none", "flush"}
      BY DEF TypeOK, WindowTypeOK
    <2>3. CASE Type
      <3>1. editor # NoEditor /\ editor.saved \in Kept
        BY <2>2, <2>3 DEF Type, EditorOpen, Editors
      <3>2. PICK t \in {Text("user", typed + 1), editor.saved} :
              SetEditor([editor EXCEPT
                !.text = t,
                !.status = IF Busy THEN @ ELSE IF t = editor.saved THEN "saved" ELSE "dirty",
                !.conflict = IF Busy THEN @ ELSE NoText])
        BY <2>3 DEF Type
      <3>3. t \in Kept
        <4>1. typed + 1 \in 1..MaxTyped
          <5>1. MaxTyped \in Nat /\ typed \in 0..MaxTyped /\ typed < MaxTyped
            BY <2>3, BoundsNatural DEF Type, TypeOK, BoundsTypeOK
          <5>. QED BY <5>1
        <4>2. Text("user", typed + 1) \in Kept
          BY <4>1 DEF Texts, Kept
        <4>. QED BY <3>1, <3>2, <4>2
      <3>4. [editor EXCEPT
                !.text = t,
                !.status = IF Busy THEN @ ELSE IF t = editor.saved THEN "saved" ELSE "dirty",
                !.conflict = IF Busy THEN @ ELSE NoText] \in Editors
        BY <2>2, <3>1, <3>3 DEF Editors, Busy
      <3>. QED BY <2>1, <2>2, <2>3, <3>2, <3>4 DEF Type
    <2>4. CASE QueueSave \/ CloseEditor \/ AskAndFlush
      <3>1. editor # NoEditor
        BY <2>4 DEF QueueSave, CloseEditor, AskAndFlush, EditorOpen, Flushed, NoEditor
      <3>2. /\ SaveQueued(editor) \in Editors /\ CloseRequested(editor) \in Editors
            /\ CloseRequested(SaveQueued(editor)) \in Editors
        BY <2>2, <3>1, EditorsTyped
      <3>. QED BY <2>1, <2>2, <2>4, <3>2 DEF QueueSave, CloseEditor, AskAndFlush
    <2>5. CASE SendSave
      <3>1. editor # NoEditor
        BY <2>5 DEF SendSave, NoEditor
      <3>2. [editor EXCEPT !.status = "saving"] \in Editors
        BY <2>2, <2>5, <3>1 DEF SendSave, Editors
      <3>. QED BY <2>1, <2>2, <2>5, <3>2 DEF SendSave
    <2>6. CASE AcceptDisk \/ AcceptHub \/ StartMerge
      <3>1. editor # NoEditor
        BY <2>6 DEF AcceptDisk, AcceptHub, StartMerge, NoEditor
      <3>2. editor.conflict \in Kept
        BY <2>2, <2>6, <3>1 DEF AcceptDisk, AcceptHub, StartMerge, Editors
      <3>3. /\ [editor EXCEPT !.text = editor.conflict, !.saved = editor.conflict,
                  !.base = editor.conflict, !.status = "dirty", !.snap = NoText,
                  !.conflict = NoText] \in Editors
            /\ [editor EXCEPT !.base = editor.conflict, !.status = "dirty",
                  !.snap = NoText, !.conflict = NoText] \in Editors
            /\ [editor EXCEPT !.base = editor.conflict, !.text = Merged] \in Editors
        BY <2>2, <3>1, <3>2, TextsTyped DEF Editors
      <3>. QED BY <2>1, <2>2, <2>6, <3>3 DEF AcceptDisk, AcceptHub, StartMerge, ResolveFrame
    <2>7. CASE FlushFails
      BY <2>1, <2>7 DEF FlushFails
    <2>8. ASSUME NEW a \in answers, AnswerSave(a) PROVE WindowTypeOK'
      <3>1. a \in Answers
        BY DEF TypeOK, JobTypeOK
      <3>2. CASE ~Heard(a) /\ UNCHANGED <<editor, shown>>
        BY <2>1, <2>2, <2>8, <3>2 DEF AnswerSave
      <3>3. CASE Heard(a)
        <4>1. editor # NoEditor
          BY <3>3 DEF Heard, EditorOpen, NoEditor
        <4>2. a.result # "failed" => Saved(editor) \in Editors
          BY <2>2, <3>3, EditorsTyped DEF Heard
        <4>3. [editor EXCEPT !.status = "error"] \in Editors
          BY <2>2, <4>1 DEF Editors
        <4>4. a.result = "conflict" =>
                [editor EXCEPT !.status = "conflict", !.conflict = a.text] \in Editors
          BY <2>2, <3>1, <4>1 DEF Editors, Answers
        <4>. QED BY <2>1, <2>2, <2>8, <3>3, <4>2, <4>3, <4>4 DEF AnswerSave
      <3>. QED BY <2>8, <3>2, <3>3 DEF AnswerSave
    <2>. QED BY <2>3, <2>4, <2>5, <2>6, <2>7, <2>8
  <1>. QED BY <1>1, <1>2, <1>3, <1>4 DEF TypeOK

\* What the window asks for keeps the types.
LEMMA ProceedTyped ==
  ASSUME TypeOK, NEW what \in Wishes, Proceed(what)
  PROVE  /\ UNCHANGED <<diskVars, job>> /\ JobTypeOK'
         /\ (intent' \in {"none", "flush"} => WindowTypeOK')
  <1>1. UNCHANGED <<diskVars, job>>
    BY DEF Proceed, jobVars
  <1>2. JobTypeOK'
    <2>1. ASSUME NEW cmd \in Commands, queue' = Append(queue, cmd), UNCHANGED <<job, answers>>
          PROVE  JobTypeOK'
      BY <2>1 DEF TypeOK, JobTypeOK
    <2>2. CASE what = "copy"
      <3>1. PICK separate \in BOOLEAN :
              queue' = Append(queue, [Command("copy") EXCEPT !.separate = separate])
        BY <2>2 DEF Proceed
      <3>. HIDE DEF Proceed
      <3>2. UNCHANGED <<job, answers>>
        BY <2>2 DEF Proceed
      <3>. QED BY <2>1, <3>1, <3>2, CommandsTyped
    <2>3. CASE what = "switch"
      <3>1. PICK c \in Changes \cup {Absent} :
              queue' = Append(queue, [Command("switch") EXCEPT !.change = c])
        BY <2>3 DEF Proceed
      <3>2. UNCHANGED <<job, answers>>
        BY <2>3 DEF Proceed
      <3>. QED BY <2>1, <3>1, <3>2, CommandsTyped
    <2>4. CASE what \in {"create", "leave"}
      <3>1. UNCHANGED jobVars
        BY <2>4 DEF Proceed
      <3>. QED BY <3>1 DEF TypeOK, JobTypeOK, jobVars
    <2>. QED BY <2>2, <2>3, <2>4 DEF Wishes
  <1>3. ASSUME intent' \in {"none", "flush"} PROVE WindowTypeOK'
    <2>1. editor' \in Editors /\ shown' \subseteq ForeignTexts
      BY SetEditorTyped, EditorsTyped DEF Proceed, TypeOK, WindowTypeOK
    <2>2. requests' \in [Kinds -> {"none", "checking", "sent"}] /\ load' = load
      BY DEF Proceed, TypeOK, WindowTypeOK
    <2>. QED BY <1>3, <2>1, <2>2 DEF TypeOK, WindowTypeOK
  <1>. QED BY <1>1, <1>2, <1>3

\* So do the wishes of the user, at once or after the flush.
LEMMA WishesTyped ==
  ASSUME TypeOK,
         \/ \E what \in Wishes : AskNow(what) \/ FlushEnds(what)
         \/ CreationChecked
         \/ \E d \in Docs : EditExisting(d)
  PROVE  TypeOK' /\ UNCHANGED <<diskVars, accepted, job>>
  <1>1. BoundsTypeOK'
    BY BoundsKept DEF TypeOK, AskNow, FlushEnds, CreationChecked, EditExisting, WindowFrame, Ask
  <1>2. ASSUME NEW what \in Wishes, AskNow(what) \/ FlushEnds(what)
        PROVE  TypeOK' /\ UNCHANGED <<diskVars, accepted, job>>
    <2>1. Proceed(what) /\ intent' \in {"none", "flush"} /\ UNCHANGED accepted
      BY <1>2 DEF AskNow, FlushEnds, TypeOK, WindowTypeOK
    <2>2. UNCHANGED <<diskVars, job>> /\ JobTypeOK' /\ WindowTypeOK'
      BY <2>1, ProceedTyped
    <2>3. DiskTypeOK'
      BY <2>1, <2>2 DEF TypeOK, DiskTypeOK, diskVars
    <2>. QED BY <1>1, <2>1, <2>2, <2>3 DEF TypeOK
  <1>3. ASSUME CreationChecked \/ \E d \in Docs : EditExisting(d)
        PROVE  TypeOK' /\ UNCHANGED <<diskVars, accepted, job>>
    <2>1. UNCHANGED <<diskVars, accepted, job, answers, editor, shown, intent, load>>
      BY <1>3 DEF CreationChecked, EditExisting, WindowFrame
    <2>2. WindowTypeOK'
      BY <1>3, <2>1 DEF CreationChecked, EditExisting, TypeOK, WindowTypeOK
    <2>3. queue' = queue \/ \E cmd \in Commands : queue' = Append(queue, cmd)
      BY <1>3, CommandsTyped DEF CreationChecked, EditExisting
    <2>4. JobTypeOK'
      BY <2>1, <2>3 DEF TypeOK, JobTypeOK
    <2>5. DiskTypeOK'
      BY <2>1 DEF TypeOK, DiskTypeOK, diskVars
    <2>. QED BY <1>1, <2>1, <2>2, <2>4, <2>5 DEF TypeOK
  <1>. QED BY <1>2, <1>3

\* And the answers, which may start the session of the window again.
LEMMA AnswersTyped ==
  ASSUME TypeOK, NEW a \in answers, AnswerRequest(a)
  PROVE  TypeOK' /\ UNCHANGED <<diskVars, accepted>> /\ JobSame
  <1>. DEFINE replaced == a.kind # "copy"
  <1>1. UNCHANGED <<diskVars, accepted>> /\ DiskTypeOK' /\ BoundsTypeOK'
    <2>1. UNCHANGED <<diskVars, accepted>>
      BY DEF AnswerRequest, WindowFrame
    <2>2. BoundsTypeOK'
      BY BoundsKept DEF AnswerRequest, WindowFrame, TypeOK
    <2>. QED BY <2>1, <2>2 DEF TypeOK, DiskTypeOK, diskVars
  <1>2. a \in Answers /\ a.kind \in Kinds
    BY DEF AnswerRequest, TypeOK, JobTypeOK
  <1>3. CASE a.result = "failed"
    <2>1. UNCHANGED <<queue, job, editor, shown, load, intent>> /\ answers' \subseteq answers
      BY <1>3 DEF AnswerRequest
    <2>2. JobTypeOK'
      BY <2>1 DEF TypeOK, JobTypeOK
    <2>3. WindowTypeOK'
      BY <2>1 DEF AnswerRequest, TypeOK, WindowTypeOK
    <2>. QED BY <1>1, <2>1, <2>2, <2>3 DEF TypeOK, JobSame
  <1>4. CASE a.result = "done"
    <2>1. Restarted(replaced) /\ answers' = Remaining(a, replaced)
      BY <1>4 DEF AnswerRequest
    <2>2. answers' \subseteq Answers
      <3>1. ASSUME NEW b \in Answers
            PROVE  [b EXCEPT !.mine = @ /\ ~replaced] \in Answers
        BY DEF Answers
      <3>. QED BY <2>1, <3>1 DEF Remaining, TypeOK, JobTypeOK
    <2>3. queue' \in Seq(Commands)
      <3>. DEFINE Old(cmd) == [cmd EXCEPT !.stale = TRUE, !.mine = @ /\ ~replaced]
      <3>1. ASSUME NEW cmd \in Commands PROVE Old(cmd) \in Commands
        BY DEF Commands
      <3>2. queue' = [i \in DOMAIN queue |-> Old(queue[i])]
        BY <2>1 DEF Restarted
      <3>. HIDE DEF Old
      <3>3. queue \in Seq(Commands)
        BY DEF TypeOK, JobTypeOK
      <3>4. PICK n \in Nat : queue \in [1..n -> Commands]
        BY <3>3, SeqDef
      <3>5. queue' \in [1..n -> Commands]
        BY <3>1, <3>2, <3>4
      <3>. QED BY <3>5, SeqDef
    <2>4. job' \in Jobs /\ (job'.at = "none" <=> job' = NoJob) /\ JobSame
      <3>1. job \in Jobs /\ job.cmd \in Commands /\ (job.at = "none" <=> job = NoJob)
        BY DEF TypeOK, JobTypeOK, Jobs
      <3>2. CASE job = NoJob
        BY <2>1, <3>1, <3>2 DEF Restarted, JobSame
      <3>3. CASE job # NoJob
        <4>1. PICK mine \in BOOLEAN : mine = (job.cmd.mine /\ ~replaced)
          OBVIOUS
        <4>2. job' = [job EXCEPT !.cmd = [@ EXCEPT !.stale = TRUE, !.mine = mine]]
          BY <2>1, <3>1, <3>3, <4>1 DEF Restarted
        <4>3. [job.cmd EXCEPT !.stale = TRUE, !.mine = mine] \in Commands
          BY <3>1 DEF Commands
        <4>4. job' \in Jobs /\ job'.at # "none"
          BY <3>1, <3>3, <4>2, <4>3 DEF Jobs
        <4>. QED BY <3>3, <4>2, <4>4, NothingTyped DEF JobSame
      <3>. QED BY <3>2, <3>3
    <2>5. WindowTypeOK'
      <3>1. editor' \in Editors /\ shown' \subseteq ForeignTexts
        <4>1. CASE a.kind \in {"create", "edit"}
          <5>1. Opened(a.change, a.doc, a.text) \in Editors
            BY <1>2, <1>4, <4>1, OpenedTyped DEF Answers
          <5>2. SetEditor(Opened(a.change, a.doc, a.text))
            BY <1>4, <4>1 DEF AnswerRequest
          <5>. QED BY <5>1, <5>2, SetEditorTyped DEF TypeOK, WindowTypeOK
        <4>2. CASE a.kind = "switch"
          BY <1>4, <4>2, NothingTyped, SetEditorTyped DEF AnswerRequest, TypeOK, WindowTypeOK
        <4>3. CASE a.kind = "copy"
          BY <1>4, <4>3 DEF AnswerRequest, TypeOK, WindowTypeOK
        <4>. QED BY <1>2, <4>1, <4>2, <4>3 DEF Kinds
      <3>2. load' = NoLoad
        BY <2>1 DEF Restarted
      <3>. QED BY <3>1, <3>2, NothingTyped DEF AnswerRequest, TypeOK, WindowTypeOK
    <2>. QED BY <1>1, <2>2, <2>3, <2>4, <2>5 DEF TypeOK, JobTypeOK
  <1>. QED BY <1>3, <1>4 DEF AnswerRequest

\* What is recovered is an editor: its document is listed and its file is there.
LEMMA RecoveredTyped ==
  ASSUME TypeOK, NEW c, NEW d, Recoverable(c, d)
  PROVE  Recovered(c, d) \in Editors
  <1>1. c \in Changes /\ d \in Docs
    BY ReadableFiles DEF Recoverable, Lists, TypeOK, DiskTypeOK, Records
  <1>2. Holds(c, d) \in Kept
    BY <1>1 DEF Recoverable, Holds, TypeOK, DiskTypeOK, Worktrees, Contents
  <1>3. load.journal => journals[c][d] \in Entries
    BY <1>1 DEF Recoverable, TypeOK, DiskTypeOK, Readable
  <1>4. CASE ~load.journal
    BY <1>1, <1>2, <1>4, OpenedTyped DEF Recovered
  <1>5. CASE load.journal
    <2>1. journals[c][d].text \in Kept
      BY <1>3, <1>5 DEF Entries
    <2>2. Opened(c, d, Holds(c, d)) = [NoEditor EXCEPT
             !.change = c, !.doc = d, !.text = Holds(c, d), !.saved = Holds(c, d),
             !.base = Holds(c, d), !.status = "saved"]
      BY DEF Opened
    <2>. QED BY <1>1, <1>2, <1>5, <2>1, <2>2, TextsTyped DEF Recovered, Editors, NoEditor
  <1>. QED BY <1>4, <1>5

\* The load of the recovery keeps the types.
LEMMA RecoveryTyped ==
  ASSUME TypeOK, LookForRecovery \/ ReadRecovery \/ RecoveryArrives
  PROVE  TypeOK' /\ UNCHANGED <<diskVars, accepted, job>>
  <1>1. /\ UNCHANGED <<diskVars, accepted, jobVars, requests, intent>>
        /\ UNCHANGED <<typed, asks, foreign, faults, ends, late>>
    BY DEF LookForRecovery, ReadRecovery, RecoveryArrives, LoadFrame, WindowFrame
  <1>2. DiskTypeOK' /\ JobTypeOK' /\ UNCHANGED job
    BY <1>1 DEF TypeOK, DiskTypeOK, JobTypeOK, diskVars, jobVars
  <1>3. BoundsTypeOK'
    BY <1>1, BoundsKept DEF TypeOK
  <1>4. load \in Loads /\ load.found \in Editors /\ editor \in Editors
    BY DEF TypeOK, WindowTypeOK, Loads
  <1>5. load' \in Loads
    <2>1. CASE LookForRecovery
      <3>. DEFINE journaled == {d \in Docs : journals[active][d] # Absent}
      <3>1. ASSUME NEW d \in Docs \cup {NoDoc}, active \in Changes
            PROVE  [load EXCEPT !.at = "reading", !.change = active, !.doc = d,
                                !.journal = (journaled # {})] \in Loads
        BY <1>4, <3>1 DEF Loads
      <3>2. Usable(active) => active \in Changes /\ records[active].last \in Docs \cup {NoDoc}
        BY DEF Usable, Readable, TypeOK, DiskTypeOK, Records
      <3>3. [load EXCEPT !.at = "arriving"] \in Loads
        BY <1>4 DEF Loads
      <3>. DEFINE Reading(d) == [load EXCEPT !.at = "reading", !.change = active, !.doc = d,
                                             !.journal = (journaled # {})]
      <3>4. \/ load' = [load EXCEPT !.at = "arriving"] \/ load' = Ended
            \/ Usable(active) /\ \E d \in journaled : load' = Reading(d)
            \/ Usable(active) /\ load' = Reading(records[active].last)
        BY <2>1 DEF LookForRecovery
      <3>5. \A d \in journaled : d \in Docs
        OBVIOUS
      <3>6. \A d \in Docs \cup {NoDoc} : active \in Changes => Reading(d) \in Loads
        BY <3>1
      <3>. HIDE DEF Reading, journaled
      <3>. QED BY <3>2, <3>3, <3>4, <3>5, <3>6, NothingTyped
    <2>2. CASE ReadRecovery
      <3>1. ASSUME NEW e \in Editors
            PROVE  [load EXCEPT !.at = "arriving", !.found = e] \in Loads
        BY <1>4 DEF Loads
      <3>. QED BY <2>2, <3>1, RecoveredTyped, NothingTyped DEF ReadRecovery
    <2>3. CASE RecoveryArrives
      BY <2>3, NothingTyped DEF RecoveryArrives
    <2>. QED BY <2>1, <2>2, <2>3
  <1>6. editor' \in Editors /\ shown' \subseteq ForeignTexts
    BY <1>4, SetEditorTyped DEF LookForRecovery, ReadRecovery, RecoveryArrives, TypeOK,
                                WindowTypeOK
  <1>. QED BY <1>1, <1>2, <1>3, <1>5, <1>6 DEF TypeOK, WindowTypeOK

\* No step of the window touches what is right about the files.
LEMMA WindowSteps ==
  ASSUME DraftsInv,
         \/ Type \/ QueueSave \/ SendSave \/ AcceptDisk \/ AcceptHub \/ StartMerge
         \/ CloseEditor \/ AskAndFlush \/ FlushFails \/ CreationChecked
         \/ \E a \in answers : AnswerSave(a) \/ AnswerRequest(a)
         \/ \E what \in Wishes : AskNow(what) \/ FlushEnds(what)
         \/ \E d \in Docs : EditExisting(d)
         \/ LookForRecovery \/ ReadRecovery \/ RecoveryArrives
  PROVE  DraftsInv'
  <1>1. TypeOK
    BY DEF DraftsInv
  <1>2. TypeOK' /\ UNCHANGED <<diskVars, accepted>> /\ JobSame
    <2>1. ASSUME TypeOK' /\ UNCHANGED <<diskVars, accepted, job>>
          PROVE  TypeOK' /\ UNCHANGED <<diskVars, accepted>> /\ JobSame
      BY <2>1 DEF JobSame
    <2>. QED BY <1>1, <2>1, EditorStepsTyped, WishesTyped, AnswersTyped, RecoveryTyped
  <1>. QED BY <1>2, FilesSame

-----------------------------------------------------------------------------
(***************************************************************************)
(* The steps of the commands.                                              *)
(***************************************************************************)

\* Nothing is asked of a lock that is free.
LEMMA IdleOK ==
  ASSUME job' = NoJob
  PROVE  JobOK'
  BY DEF JobOK, MadeOK, PlacingOK, SavingOK, Placing, Saving, IsSave, NoJob, NoCommand

\* A step of a command keeps the types of the window and of the bounds.
StepFrame == JobFrame /\ (NoFault \/ \E after \in BOOLEAN : Fault(after))

LEMMA FrameTyped ==
  ASSUME TypeOK, StepFrame
  PROVE  WindowTypeOK' /\ BoundsTypeOK'
  <1>1. WindowTypeOK'
    BY DEF StepFrame, JobFrame, windowVars, TypeOK, WindowTypeOK
  <1>2. typed' \in 0..MaxTyped /\ foreign' \in 0..MaxForeign /\ asks' \in Nat /\ ends' \in Nat
    BY DEF StepFrame, JobFrame, TypeOK, BoundsTypeOK
  <1>3. faults' \in Nat
    BY DEF StepFrame, NoFault, Fault, TypeOK, BoundsTypeOK
  <1>4. late' \in BOOLEAN
    BY DEF StepFrame, NoFault, Fault, TypeOK, BoundsTypeOK
  <1>. QED BY <1>1, <1>2, <1>3, <1>4 DEF BoundsTypeOK

\* An answer is of its type and ends the command.
Answerable(result, text) ==
  /\ text \in Kept \cup {NoText}
  /\ result = "conflict" => text \in Kept
  /\ result = "done" /\ job.cmd.kind \in {"create", "edit"} =>
       job.change \in Changes /\ job.doc \in Docs /\ text \in Kept

LEMMA AnswerTyped ==
  ASSUME TypeOK, UNCHANGED queue, NEW result \in {"done", "failed", "conflict"}, NEW text,
         Answerable(result, text), Answer(result, text) \/ Finish(result, text)
  PROVE  JobTypeOK' /\ JobOK'
  <1>1. job \in Jobs /\ job.cmd \in Commands
    BY DEF TypeOK, JobTypeOK, Jobs
  <1>2. ASSUME NEW r \in {"done", "failed", "conflict"}, NEW t, Answerable(r, t)
        PROVE  Reply(job.cmd, job.change, job.doc, r, t) \in Answers
    BY <1>1, <1>2 DEF Answerable, Reply, Answers, Jobs, Commands
  <1>3. Answerable("failed", NoText)
    BY DEF Answerable
  <1>4. job' = NoJob /\ answers' \subseteq Answers
    BY <1>2, <1>3 DEF Answer, Finish, TypeOK, JobTypeOK
  <1>5. JobTypeOK'
    BY <1>4, NothingTyped DEF TypeOK, JobTypeOK
  <1>. QED BY <1>4, <1>5, IdleOK

\* A failure can always be answered.
LEMMA FailureTyped ==
  ASSUME TypeOK, UNCHANGED queue, Answer("failed", NoText)
  PROVE  JobTypeOK' /\ JobOK'
  BY AnswerTyped DEF Answerable

\* A command that goes on keeps its type.
LEMMA GotoTyped ==
  ASSUME TypeOK, UNCHANGED queue, job.at # "none", NEW at \in Places \ {"none"}, Goto(at)
  PROVE  JobTypeOK' /\ job' = [job EXCEPT !.at = at]
  BY NothingTyped DEF Goto, TypeOK, JobTypeOK, Jobs

\* What is accepted stays right where it stays listed and its file or journal is left.
LEMMA AcceptedStays ==
  ASSUME AcceptedListed, AcceptedTextKept, UNCHANGED accepted,
         \A c \in Changes, d \in Docs : accepted[c][d] # NoText =>
           /\ Lists(c, d)'
           /\ Holds(c, d)' = Holds(c, d) /\ journals'[c][d] = journals[c][d]
  PROVE  AcceptedListed' /\ AcceptedTextKept'
  BY DEF AcceptedListed, AcceptedTextKept, Readable

\* A command begins at a place it is ready for.
LEMMA BeginStep == DraftsInv /\ Begin => DraftsInv'
  <1>. SUFFICES ASSUME DraftsInv, Begin PROVE DraftsInv'
    OBVIOUS
  <1>. DEFINE cmd == Head(queue)
              first == FirstStep(cmd)
              new == [NoJob EXCEPT !.at = first, !.cmd = cmd, !.doc = cmd.doc,
                        !.change = IF first = "add" THEN active ELSE cmd.change]
  <1>1. TypeOK /\ UNCHANGED <<diskVars, accepted>> /\ StepFrame
    BY DEF DraftsInv, Begin, StepFrame
  <1>2. cmd \in Commands /\ queue' \in Seq(Commands)
    <2>1. queue \in Seq(Commands) /\ queue # <<>> /\ queue' = Tail(queue)
      BY <1>1 DEF Begin, TypeOK, JobTypeOK
    <2>. QED BY <2>1
  <1>3. DiskTypeOK' /\ WindowTypeOK' /\ BoundsTypeOK'
    BY <1>1, FrameTyped DEF TypeOK, DiskTypeOK, diskVars
  <1>4. \/ job' = new /\ first # "refused" /\ UNCHANGED answers
        \/ /\ job' = NoJob
           /\ answers' = answers \cup {Reply(cmd, cmd.change, cmd.doc, "failed", NoText)}
    BY DEF Begin
  <1>5. AcceptedListed' /\ AcceptedTextKept'
    BY <1>1 DEF DraftsInv, AcceptedListed, AcceptedTextKept, Lists, Holds, Readable, diskVars
  <1>. HIDE DEF new, first, cmd
  <1>6. CASE job' = NoJob /\ answers' = answers \cup {Reply(cmd, cmd.change, cmd.doc,
                                                             "failed", NoText)}
    <2>1. Reply(cmd, cmd.change, cmd.doc, "failed", NoText) \in Answers
      BY <1>2 DEF Reply, Answers, Commands
    <2>2. JobTypeOK'
      BY <1>1, <1>2, <1>6, <2>1, NothingTyped DEF TypeOK, JobTypeOK
    <2>. QED BY <1>3, <1>5, <1>6, <2>2, IdleOK DEF DraftsInv, TypeOK
  <1>7. CASE job' = new /\ first # "refused" /\ UNCHANGED answers
    <2>1. /\ first \in {"touch", "close", "worktree", "add"}
          /\ first = "add" => Usable(active) /\ cmd.kind # "save"
          /\ first = "touch" /\ cmd.kind = "save" => Lists(cmd.change, cmd.doc)
          /\ first = "touch" /\ cmd.kind # "save" => Usable(cmd.change)
          /\ first \in {"close", "worktree"} => cmd.kind # "save"
          /\ first \in {"touch", "close"} => cmd.kind \in {"save", "switch"}
      BY <1>7 DEF first, FirstStep
    <2>2. /\ new.at = first /\ new.cmd = cmd /\ new.doc = cmd.doc /\ new.made = FALSE
          /\ new.change = IF first = "add" THEN active ELSE cmd.change
      BY DEF new, NoJob
    <2>3. new \in Jobs
      <3>1. (IF first = "add" THEN active ELSE cmd.change) \in Changes \cup {Absent}
        BY <1>2, <2>1 DEF Usable, Commands
      <3>2. cmd.doc \in Docs \cup {NoDoc}
        BY <1>2 DEF Commands
      <3>3. NoJob \in Jobs /\ first \in Places
        BY <2>1, NothingTyped DEF Places
      <3>. QED BY <1>2, <3>1, <3>2, <3>3 DEF new, Jobs
    <2>4. JobTypeOK'
      BY <1>1, <1>2, <1>7, <2>1, <2>2, <2>3, NothingTyped DEF TypeOK, JobTypeOK
    <2>5. JobOK'
      <3>1. MadeOK'
        BY <1>1, <1>7, <2>1, <2>2, ReadableFiles
        DEF MadeOK, Usable, Lists, diskVars, TypeOK, DiskTypeOK, Readable
      <3>2. PlacingOK'
        BY <1>7, <2>1, <2>2 DEF PlacingOK, Placing, IsSave
      <3>3. SavingOK'
        BY <1>1, <1>7, <2>1, <2>2 DEF SavingOK, Saving, IsSave, Lists, Readable, diskVars
      <3>. QED BY <3>1, <3>2, <3>3 DEF JobOK
    <2>. QED BY <1>3, <1>5, <2>4, <2>5 DEF DraftsInv, TypeOK
  <1>. QED BY <1>4, <1>6, <1>7

\* A record without documents has no accepted texts.
LEMMA NothingAccepted ==
  ASSUME AcceptedListed, NEW c \in Changes,
         ~Readable(records[c]) \/ records[c].docs = {}
  PROVE  \A d \in Docs : accepted[c][d] = NoText
  BY DEF AcceptedListed, Lists

\* A new worktree is of a change nothing was accepted for.
LEMMA MakeWorktreeStep == DraftsInv /\ MakeWorktree => DraftsInv'
  <1>. SUFFICES ASSUME DraftsInv, MakeWorktree PROVE DraftsInv'
    OBVIOUS
  <1>. DEFINE unused == {c \in Changes : records[c] = Absent /\ trees[c] = Absent}
              fresh == CHOOSE c \in unused : TRUE
  <1>1. /\ TypeOK /\ job.at = "worktree" /\ StepFrame
        /\ UNCHANGED <<active, records, journals, queue, accepted>>
    BY DEF DraftsInv, MakeWorktree, StepFrame
  <1>2. WindowTypeOK' /\ BoundsTypeOK'
    BY <1>1, FrameTyped
  <1>3. CASE Answer("failed", NoText) /\ UNCHANGED trees
    <2>1. JobTypeOK' /\ JobOK'
      BY <1>1, <1>3, FailureTyped
    <2>2. DiskTypeOK'
      BY <1>1, <1>3 DEF TypeOK, DiskTypeOK
    <2>3. AcceptedListed' /\ AcceptedTextKept'
      BY <1>1, <1>3 DEF DraftsInv, AcceptedListed, AcceptedTextKept, Lists, Holds, Readable
    <2>. QED BY <1>2, <2>1, <2>2, <2>3 DEF DraftsInv, TypeOK
  <1>4. CASE /\ unused # {} /\ trees' = [trees EXCEPT ![fresh] = Worktree]
             /\ job' = [job EXCEPT !.at = "record", !.change = fresh, !.made = TRUE]
             /\ UNCHANGED answers
    <2>1. fresh \in Changes /\ records[fresh] = Absent
      BY <1>4
    <2>. HIDE DEF fresh, unused
    <2>2. DiskTypeOK' /\ trees'[fresh] # Absent
      BY <1>1, <1>4, <2>1, NothingTyped, ReadableFiles DEF TypeOK, DiskTypeOK
    <2>3. job \in Jobs /\ job' \in Jobs
      BY <1>1, <1>4, <2>1 DEF TypeOK, JobTypeOK, Jobs, Places
    <2>4. /\ job'.at = "record" /\ job'.change = fresh /\ job'.made
          /\ job'.cmd = job.cmd /\ job'.doc = job.doc
      BY <1>4, <2>3 DEF Jobs
    <2>5. JobTypeOK'
      BY <1>1, <1>4, <2>3, <2>4, NothingTyped DEF TypeOK, JobTypeOK
    <2>6. MadeOK'
      BY <1>1, <2>1, <2>2, <2>4 DEF MadeOK
    <2>7. PlacingOK' /\ SavingOK'
      BY <2>4 DEF DraftsInv, JobOK, PlacingOK, SavingOK, Placing, Saving, IsSave
    <2>8. AcceptedListed' /\ AcceptedTextKept'
      <3>1. \A d \in Docs : accepted[fresh][d] = NoText
        BY <2>1, NothingAccepted DEF DraftsInv, Readable
      <3>2. \A c \in Changes \ {fresh} : trees'[c] = trees[c]
        BY <1>1, <1>4 DEF TypeOK, DiskTypeOK
      <3>3. \A c \in Changes, d \in Docs : accepted[c][d] # NoText =>
              /\ Lists(c, d)'
              /\ Holds(c, d)' = Holds(c, d) /\ journals'[c][d] = journals[c][d]
        BY <1>1, <3>1, <3>2 DEF DraftsInv, AcceptedListed, Lists, Holds, Readable
      <3>. QED BY <1>1, <3>3, AcceptedStays DEF DraftsInv
    <2>. QED BY <1>2, <2>2, <2>5, <2>6, <2>7, <2>8 DEF DraftsInv, TypeOK, JobOK
  <1>. QED BY <1>3, <1>4 DEF MakeWorktree

\* A rollback takes back a change nothing was accepted for.
LEMMA RollbackKept ==
  ASSUME DraftsInv, job.change \in Changes, RolledBack,
         ~Readable(records[job.change]) \/ records[job.change].docs = {},
         UNCHANGED <<journals, accepted>>, active' \in Changes \cup {Absent, Torn}
  PROVE  DiskTypeOK' /\ AcceptedListed' /\ AcceptedTextKept'
  <1>1. DiskTypeOK'
    BY DEF RolledBack, DraftsInv, TypeOK, DiskTypeOK
  <1>2. \A d \in Docs : accepted[job.change][d] = NoText
    BY NothingAccepted DEF DraftsInv
  <1>3. \A c \in Changes \ {job.change} : trees'[c] = trees[c] /\ records'[c] = records[c]
    BY DEF RolledBack, DraftsInv, TypeOK, DiskTypeOK
  <1>4. \A c \in Changes, d \in Docs : accepted[c][d] # NoText =>
          /\ Lists(c, d)'
          /\ Holds(c, d)' = Holds(c, d) /\ journals'[c][d] = journals[c][d]
    BY <1>2, <1>3 DEF DraftsInv, AcceptedListed, Lists, Holds, Readable
  <1>. QED BY <1>1, <1>4, AcceptedStays DEF DraftsInv

\* So the record of a new change, and active.json, may be written or taken back.
LEMMA RecordChangeStep == DraftsInv /\ RecordChange => DraftsInv'
  <1>. SUFFICES ASSUME DraftsInv, RecordChange PROVE DraftsInv'
    OBVIOUS
  <1>1. /\ TypeOK /\ job.at = "record" /\ StepFrame
        /\ UNCHANGED <<active, journals, queue, accepted>>
    BY DEF DraftsInv, RecordChange, StepFrame
  <1>2. /\ job.change \in Changes /\ job.made /\ records[job.change] = Absent
        /\ trees[job.change] # Absent
    BY <1>1 DEF DraftsInv, JobOK, MadeOK
  <1>3. WindowTypeOK' /\ BoundsTypeOK'
    BY <1>1, FrameTyped
  <1>4. CASE RolledBack /\ Answer("failed", NoText)
    <2>1. DiskTypeOK' /\ AcceptedListed' /\ AcceptedTextKept'
      BY <1>1, <1>2, <1>4, RollbackKept DEF Readable, TypeOK, DiskTypeOK
    <2>. QED BY <1>1, <1>3, <1>4, <2>1, FailureTyped DEF DraftsInv, TypeOK
  <1>5. CASE /\ records' = [records EXCEPT ![job.change] = NoDocuments]
             /\ Goto("activate") /\ UNCHANGED trees
    <2>1. JobTypeOK' /\ job' = [job EXCEPT !.at = "activate"]
      BY <1>1, <1>5, GotoTyped DEF Places
    <2>2. /\ job'.at = "activate" /\ job'.change = job.change /\ job'.made
          /\ job'.cmd = job.cmd /\ job'.doc = job.doc
      BY <1>1, <1>2, <2>1 DEF TypeOK, JobTypeOK, Jobs
    <2>3. DiskTypeOK' /\ records'[job.change] = NoDocuments
      BY <1>1, <1>2, <1>5, NothingTyped DEF TypeOK, DiskTypeOK
    <2>4. MadeOK'
      BY <1>2, <1>5, <2>2, <2>3 DEF MadeOK
    <2>5. PlacingOK' /\ SavingOK'
      BY <2>2 DEF DraftsInv, JobOK, PlacingOK, SavingOK, Placing, Saving, IsSave
    <2>6. AcceptedListed' /\ AcceptedTextKept'
      <3>1. \A d \in Docs : accepted[job.change][d] = NoText
        BY <1>2, NothingAccepted DEF DraftsInv, Readable
      <3>2. \A c \in Changes \ {job.change} : records'[c] = records[c]
        BY <1>1, <1>5 DEF TypeOK, DiskTypeOK
      <3>3. \A c \in Changes, d \in Docs : accepted[c][d] # NoText =>
              /\ Lists(c, d)'
              /\ Holds(c, d)' = Holds(c, d) /\ journals'[c][d] = journals[c][d]
        BY <1>1, <1>5, <3>1, <3>2 DEF DraftsInv, AcceptedListed, Lists, Holds, Readable
      <3>. QED BY <1>1, <3>3, AcceptedStays DEF DraftsInv
    <2>. QED BY <1>3, <2>1, <2>3, <2>4, <2>5, <2>6 DEF DraftsInv, TypeOK, JobOK
  <1>. QED BY <1>4, <1>5 DEF RecordChange, NoDocuments

\* Where only active.json changes, what is accepted stays.
LEMMA ActiveOnly ==
  ASSUME DraftsInv, UNCHANGED <<records, trees, journals, accepted>>,
         active' \in Changes \cup {Absent, Torn}
  PROVE  DiskTypeOK' /\ AcceptedListed' /\ AcceptedTextKept'
  BY DEF DraftsInv, TypeOK, DiskTypeOK, AcceptedListed, AcceptedTextKept, Lists, Holds, Readable

LEMMA SetActiveStep == DraftsInv /\ SetActive => DraftsInv'
  <1>. SUFFICES ASSUME DraftsInv, SetActive PROVE DraftsInv'
    OBVIOUS
  <1>1. /\ TypeOK /\ job.at = "activate" /\ StepFrame
        /\ UNCHANGED <<journals, queue, accepted>>
    <2>1. StepFrame
      BY DEF SetActive, StepFrame
    <2>. QED BY <2>1 DEF DraftsInv, SetActive
  <1>2. /\ job.change \in Changes
        /\ job.made => records[job.change] = NoDocuments /\ trees[job.change] # Absent
        /\ ~job.made => job.cmd.kind \in {"save", "switch"}
    BY <1>1 DEF DraftsInv, JobOK, MadeOK
  <1>3. WindowTypeOK' /\ BoundsTypeOK'
    BY <1>1, FrameTyped
  <1>4. CASE active' = job.change /\ UNCHANGED <<records, trees>>
             /\ IF job.made THEN Goto("add") ELSE Finish("done", NoText)
    <2>1. DiskTypeOK' /\ AcceptedListed' /\ AcceptedTextKept'
      BY <1>1, <1>2, <1>4, ActiveOnly
    <2>2. CASE ~job.made
      BY <1>1, <1>2, <1>3, <1>4, <2>1, <2>2, AnswerTyped DEF Answerable, DraftsInv, TypeOK
    <2>3. CASE job.made
      <3>1. JobTypeOK' /\ job' = [job EXCEPT !.at = "add"]
        BY <1>1, <1>4, <2>3, GotoTyped DEF Places
      <3>2. /\ job'.at = "add" /\ job'.change = job.change
            /\ job'.cmd = job.cmd /\ job'.doc = job.doc
        BY <1>1, <3>1 DEF TypeOK, JobTypeOK, Jobs
      <3>3. MadeOK'
        BY <1>2, <1>4, <2>3, <3>2, NothingTyped DEF MadeOK
      <3>4. PlacingOK' /\ SavingOK'
        BY <3>2 DEF DraftsInv, JobOK, PlacingOK, SavingOK, Placing, Saving, IsSave
      <3>. QED BY <1>3, <2>1, <3>1, <3>3, <3>4 DEF DraftsInv, TypeOK, JobOK
    <2>. QED BY <2>2, <2>3
  <1>5. CASE /\ active' \in LeftBy(active, job.change) /\ Answer("failed", NoText)
             /\ IF job.made THEN RolledBack ELSE UNCHANGED <<records, trees>>
    <2>1. active' \in Changes \cup {Absent, Torn}
      BY <1>1, <1>2, <1>5 DEF LeftBy, TypeOK, DiskTypeOK
    <2>2. DiskTypeOK' /\ AcceptedListed' /\ AcceptedTextKept'
      BY <1>1, <1>2, <1>5, <2>1, RollbackKept, ActiveOnly DEF NoDocuments
    <2>. QED BY <1>1, <1>3, <1>5, <2>2, FailureTyped DEF DraftsInv, TypeOK
  <1>. QED BY <1>4, <1>5 DEF SetActive

LEMMA CloseActiveStep == DraftsInv /\ CloseActive => DraftsInv'
  <1>. SUFFICES ASSUME DraftsInv, CloseActive PROVE DraftsInv'
    OBVIOUS
  <1>1. /\ TypeOK /\ job.at = "close" /\ StepFrame
        /\ UNCHANGED <<records, trees, journals, queue, accepted>>
    BY DEF DraftsInv, CloseActive, StepFrame
  <1>2. active' \in Changes \cup {Absent, Torn}
    BY <1>1 DEF CloseActive, TypeOK, DiskTypeOK
  <1>3. JobTypeOK' /\ JobOK'
    <2>1. job.cmd.kind \in {"save", "switch"}
      BY <1>1 DEF DraftsInv, JobOK, MadeOK
    <2>2. Answerable("done", NoText)
      BY <2>1 DEF Answerable
    <2>. QED BY <1>1, <2>2, AnswerTyped, FailureTyped DEF CloseActive
  <1>. QED BY <1>1, <1>2, <1>3, FrameTyped, ActiveOnly DEF DraftsInv, TypeOK

\* A failing command takes its change back where the record, as it is left, has no
\* documents, and there nothing was accepted.
LEMMA FailWithKept ==
  ASSUME DraftsInv, UNCHANGED <<queue, journals, accepted>>,
         job.change \in Changes,
         NEW recs \in [Changes -> Records \cup {Absent, Torn}], FailWith(recs),
         \A c \in Changes, d \in Docs : accepted[c][d] # NoText =>
           Readable(recs[c]) /\ d \in recs[c].docs
  PROVE  DiskTypeOK' /\ JobTypeOK' /\ JobOK' /\ AcceptedListed' /\ AcceptedTextKept'
  <1>. DEFINE c == job.change
              discards == job.made /\ Readable(recs[c]) /\ recs[c].docs = {}
  <1>1. TypeOK /\ Answer("failed", NoText)
    BY DEF DraftsInv, FailWith
  <1>2. JobTypeOK' /\ JobOK'
    BY <1>1, FailureTyped
  <1>3. IF discards
        THEN /\ records' = [recs EXCEPT ![c] = Absent]
             /\ trees' = [trees EXCEPT ![c] = Absent] /\ active' = Absent
        ELSE records' = recs /\ UNCHANGED <<trees, active>>
    BY DEF FailWith
  <1>4. discards => \A d \in Docs : accepted[c][d] = NoText
    OBVIOUS
  <1>. HIDE DEF discards
  <1>5. DiskTypeOK'
    BY <1>1, <1>3 DEF TypeOK, DiskTypeOK
  <1>6. \A x \in Changes, d \in Docs : accepted[x][d] # NoText =>
          records'[x] = recs[x] /\ trees'[x] = trees[x]
    BY <1>1, <1>3, <1>4 DEF TypeOK, DiskTypeOK
  <1>7. \A x \in Changes, d \in Docs : accepted[x][d] # NoText =>
          /\ Lists(x, d)'
          /\ Holds(x, d)' = Holds(x, d) /\ journals'[x][d] = journals[x][d]
    BY <1>6 DEF Lists, Holds, Readable
  <1>. QED BY <1>2, <1>5, <1>7, AcceptedStays DEF DraftsInv

\* The records as they are list what is accepted.
LEMMA RecordsList ==
  ASSUME DraftsInv
  PROVE  /\ records \in [Changes -> Records \cup {Absent, Torn}]
         /\ \A c \in Changes, d \in Docs : accepted[c][d] # NoText =>
              Readable(records[c]) /\ d \in records[c].docs
  BY DEF DraftsInv, TypeOK, DiskTypeOK, AcceptedListed, Lists

\* A document is listed while nobody has saved it.
LEMMA ListDocumentStep ==
  ASSUME DraftsInv, StepFrame, UNCHANGED <<journals, queue, accepted>>,
         job.at = "add", NEW d \in Docs, ListDocument(d),
         \/ job.cmd.kind = "create" /\ Holds(job.change, d) = Absent
         \/ job.cmd.kind = "edit" /\ d = job.cmd.doc,
         accepted[job.change][d] = NoText
  PROVE  DraftsInv'
  <1>. DEFINE c == job.change
              text == Holds(c, d)
              listed == [docs |-> records[c].docs \cup {d}, last |-> d]
              at == IF text = Absent THEN "file" ELSE "compare"
  <1>1. TypeOK /\ c \in Changes /\ records[c] \in Records /\ trees[c] # Absent
    BY DEF DraftsInv, JobOK, MadeOK
  <1>2. WindowTypeOK' /\ BoundsTypeOK'
    BY <1>1, FrameTyped
  <1>3. listed \in Records /\ records \in [Changes -> Records \cup {Absent, Torn}]
    BY <1>1 DEF Records, TypeOK, DiskTypeOK
  <1>4. ASSUME NEW left \in {records[c], listed}
        PROVE  /\ [records EXCEPT ![c] = left] \in [Changes -> Records \cup {Absent, Torn}]
               /\ \A x \in Changes, e \in Docs : accepted[x][e] # NoText =>
                    /\ Readable([records EXCEPT ![c] = left][x])
                    /\ e \in [records EXCEPT ![c] = left][x].docs
    <2>1. left \in Records /\ records[c].docs \subseteq left.docs /\ Readable(left)
      BY <1>1, <1>3, ReadableFiles
    <2>. QED BY <1>3, <2>1, RecordsList
  <1>5. text \in Contents
    BY <1>1 DEF Holds, TypeOK, DiskTypeOK, Worktrees, Contents
  <1>6. \/ /\ records' = [records EXCEPT ![c] = listed] /\ UNCHANGED <<active, trees>>
           /\ \/ /\ text \in {Absent, Base} /\ UNCHANGED answers
                 /\ job' = [job EXCEPT !.at = at, !.doc = d, !.seen = text,
                                       !.before = records[c]]
              \/ text \notin {Absent, Base} /\ Finish("done", text)
        \/ \E left \in LeftBy(records[c], listed) : FailWith([records EXCEPT ![c] = left])
    BY DEF ListDocument
  <1>7. CASE \E left \in LeftBy(records[c], listed) : FailWith([records EXCEPT ![c] = left])
    <2>1. LeftBy(records[c], listed) = {records[c], listed}
      BY <1>1, ReadableFiles DEF LeftBy, Readable
    <2>2. PICK left \in {records[c], listed} : FailWith([records EXCEPT ![c] = left])
      BY <1>7, <2>1
    <2>. DEFINE recs == [records EXCEPT ![c] = left]
    <2>3. /\ recs \in [Changes -> Records \cup {Absent, Torn}] /\ FailWith(recs)
          /\ \A x \in Changes, e \in Docs : accepted[x][e] # NoText =>
               Readable(recs[x]) /\ e \in recs[x].docs
      BY <1>4, <2>2
    <2>. HIDE DEF recs
    <2>. QED BY <1>1, <1>2, <2>3, FailWithKept DEF DraftsInv, TypeOK
  <1>8. CASE records' = [records EXCEPT ![c] = listed] /\ UNCHANGED <<active, trees>>
    <2>1. DiskTypeOK'
      BY <1>1, <1>3, <1>8 DEF TypeOK, DiskTypeOK
    <2>2. AcceptedListed' /\ AcceptedTextKept'
      <3>1. \A x \in Changes, e \in Docs : accepted[x][e] # NoText =>
              /\ Lists(x, e)'
              /\ Holds(x, e)' = Holds(x, e) /\ journals'[x][e] = journals[x][e]
        BY <1>4, <1>8 DEF Lists, Holds, Readable
      <3>. QED BY <3>1, AcceptedStays DEF DraftsInv
    <2>3. CASE text \notin {Absent, Base} /\ Finish("done", text)
      <3>1. Answerable("done", text)
        <4>1. job.cmd.kind = "edit" /\ job.doc = d
          BY <2>3 DEF DraftsInv, JobOK, PlacingOK
        <4>2. text \in Kept
          BY <1>5, <2>3 DEF Contents
        <4>. QED BY <1>1, <4>1, <4>2 DEF Answerable
      <3>2. JobTypeOK' /\ JobOK'
        BY <1>1, <2>3, <3>1, AnswerTyped
      <3>. QED BY <1>2, <2>1, <2>2, <3>2 DEF DraftsInv, TypeOK
    <2>4. CASE /\ text \in {Absent, Base} /\ UNCHANGED answers
               /\ job' = [job EXCEPT !.at = at, !.doc = d, !.seen = text,
                                     !.before = records[c]]
      <3>1. at \in {"file", "compare"} /\ (at = "compare" <=> text # Absent)
        OBVIOUS
      <3>2. job \in Jobs /\ job.cmd \in Commands
        BY <1>1 DEF TypeOK, JobTypeOK, Jobs
      <3>. HIDE DEF at
      <3>3. /\ job'.at = at /\ job'.doc = d /\ job'.before = records[c]
            /\ job'.change = c /\ job'.cmd = job.cmd
        BY <2>4, <3>2 DEF Jobs
      <3>4. job' \in Jobs
        BY <1>1, <1>5, <2>4, <3>1, <3>2 DEF Jobs, Places
      <3>5. JobTypeOK'
        BY <1>1, <2>4, <3>1, <3>3, <3>4, NothingTyped DEF TypeOK, JobTypeOK
      <3>6. MadeOK'
        BY <1>1, <1>8, <3>1, <3>3 DEF MadeOK
      <3>7. records'[c] = listed
        BY <1>1, <1>3, <1>8
      <3>8. PlacingOK'
        BY <1>1, <3>1, <3>3, <3>7 DEF PlacingOK, Placing, IsSave
      <3>9. SavingOK'
        BY <1>8, <2>4, <3>1, <3>3 DEF SavingOK, Saving, IsSave, Holds
      <3>. QED BY <1>2, <2>1, <2>2, <3>5, <3>6, <3>8, <3>9 DEF DraftsInv, TypeOK, JobOK
    <2>. QED BY <1>6, <1>7, <1>8, <2>3, <2>4
  <1>. QED BY <1>6, <1>7, <1>8

\* A new document gets a place where no file is, so nobody has saved it.
LEMMA AddNewDocumentStep == DraftsInv /\ AddNewDocument => DraftsInv'
  <1>. SUFFICES ASSUME DraftsInv, AddNewDocument PROVE DraftsInv'
    OBVIOUS
  <1>1. /\ TypeOK /\ job.at = "add" /\ job.cmd.kind = "create"
        /\ UNCHANGED <<journals, queue, accepted>>
    BY DEF DraftsInv, AddNewDocument
  <1>2. job.change \in Changes
    BY <1>1 DEF DraftsInv, JobOK, MadeOK
  <1>3. CASE \E d \in Docs : Holds(job.change, d) = Absent /\ ListDocument(d)
    <2>1. PICK d \in Docs : Holds(job.change, d) = Absent /\ ListDocument(d)
      BY <1>3
    <2>2. StepFrame
      BY <2>1 DEF AddNewDocument, ListDocument, StepFrame
    <2>3. accepted[job.change][d] = NoText
      BY <1>2, <2>1 DEF DraftsInv, AcceptedListed
    <2>. QED BY <1>1, <2>1, <2>2, <2>3, ListDocumentStep
  <1>4. CASE NoFault /\ FailWith(records)
    <2>1. StepFrame
      BY <1>4 DEF AddNewDocument, StepFrame
    <2>. QED BY <1>1, <1>2, <1>4, <2>1, FrameTyped, FailWithKept, RecordsList
         DEF DraftsInv, TypeOK
  <1>. QED BY <1>3, <1>4 DEF AddNewDocument

\* An existing document that is not listed has not been saved either.
LEMMA AddExistingDocumentStep == DraftsInv /\ AddExistingDocument => DraftsInv'
  <1>. SUFFICES ASSUME DraftsInv, AddExistingDocument PROVE DraftsInv'
    OBVIOUS
  <1>. DEFINE c == job.change
              d == job.cmd.doc
              text == Holds(c, d)
  <1>1. /\ TypeOK /\ job.at = "add" /\ job.cmd.kind = "edit"
        /\ UNCHANGED <<journals, queue, accepted>>
    BY DEF DraftsInv, AddExistingDocument
  <1>2. c \in Changes /\ d \in Docs /\ job.doc = d
    BY <1>1 DEF DraftsInv, JobOK, MadeOK, PlacingOK, TypeOK, JobTypeOK, Jobs, Commands
  <1>3. CASE ~Lists(c, d) /\ ListDocument(d)
    <2>1. StepFrame
      BY <1>3 DEF AddExistingDocument, ListDocument, StepFrame
    <2>2. accepted[c][d] = NoText
      BY <1>2, <1>3 DEF DraftsInv, AcceptedListed
    <2>. QED BY <1>1, <1>2, <1>3, <2>1, <2>2, ListDocumentStep
  <1>4. CASE /\ text # Absent /\ NoFault
             /\ Finish("done", text) /\ UNCHANGED <<active, records, trees>>
    <2>1. StepFrame
      BY <1>4 DEF AddExistingDocument, StepFrame
    <2>2. text \in Kept
      BY <1>1, <1>2, <1>4 DEF Holds, TypeOK, DiskTypeOK, Worktrees, Contents
    <2>3. Answerable("done", text)
      BY <1>2, <2>2 DEF Answerable
    <2>4. JobTypeOK' /\ JobOK'
      BY <1>1, <1>4, <2>3, AnswerTyped
    <2>5. active' \in Changes \cup {Absent, Torn}
      BY <1>1, <1>4 DEF TypeOK, DiskTypeOK
    <2>. QED BY <1>1, <1>4, <2>1, <2>4, <2>5, FrameTyped, ActiveOnly DEF DraftsInv, TypeOK
  <1>5. CASE NoFault /\ FailWith(records)
    <2>1. StepFrame
      BY <1>5 DEF AddExistingDocument, StepFrame
    <2>. QED BY <1>1, <1>2, <1>5, <2>1, FrameTyped, FailWithKept, RecordsList
         DEF DraftsInv, TypeOK
  <1>. QED BY <1>3, <1>4, <1>5 DEF AddExistingDocument

LEMMA AddTemplateStep == DraftsInv /\ AddTemplate => DraftsInv'
  <1>. SUFFICES ASSUME DraftsInv, AddTemplate PROVE DraftsInv'
    OBVIOUS
  <1>1. /\ TypeOK /\ job.at = "add" /\ job.cmd.kind = "copy" /\ StepFrame
        /\ UNCHANGED <<journals, queue, accepted>>
    BY DEF DraftsInv, AddTemplate, StepFrame
  <1>2. job.change \in Changes
    BY <1>1 DEF DraftsInv, JobOK, MadeOK
  <1>3. CASE FailWith(records)
    BY <1>1, <1>2, <1>3, FrameTyped, FailWithKept, RecordsList DEF DraftsInv, TypeOK
  <1>4. CASE Finish("done", NoText) /\ UNCHANGED <<active, records, trees>>
    <2>1. Answerable("done", NoText)
      BY <1>1 DEF Answerable
    <2>2. active' \in Changes \cup {Absent, Torn}
      BY <1>1, <1>4 DEF TypeOK, DiskTypeOK
    <2>. QED BY <1>1, <1>4, <2>1, <2>2, AnswerTyped, FrameTyped, ActiveOnly
         DEF DraftsInv, TypeOK
  <1>. QED BY <1>3, <1>4 DEF AddTemplate

\* Where only the file of a document nobody has saved is written, the rest stays.
LEMMA FileKept ==
  ASSUME DraftsInv, UNCHANGED <<active, records, journals, accepted>>,
         job.change \in Changes, job.doc \in Docs,
         accepted[job.change][job.doc] = NoText, NEW text \in Contents,
         trees' = [trees EXCEPT ![job.change][job.doc] = text],
         trees[job.change] # Absent
  PROVE  DiskTypeOK' /\ AcceptedListed' /\ AcceptedTextKept'
  <1>1. DiskTypeOK'
    BY DEF DraftsInv, TypeOK, DiskTypeOK, Worktrees
  <1>2. \A c \in Changes, d \in Docs : accepted[c][d] # NoText =>
          /\ Lists(c, d)'
          /\ Holds(c, d)' = Holds(c, d) /\ journals'[c][d] = journals[c][d]
    BY FilesAssumption
    DEF DraftsInv, TypeOK, DiskTypeOK, Worktrees, AcceptedListed, Lists, Holds, Readable
  <1>. QED BY <1>1, <1>2, AcceptedStays DEF DraftsInv

\* A file that could not be written is taken out of the record again.
LEMMA CreateFileStep == DraftsInv /\ CreateFile => DraftsInv'
  <1>. SUFFICES ASSUME DraftsInv, CreateFile PROVE DraftsInv'
    OBVIOUS
  <1>1. /\ TypeOK /\ job.at = "file" /\ StepFrame
        /\ UNCHANGED <<active, records, journals, queue, accepted>>
    <2>1. StepFrame
      BY DEF CreateFile, StepFrame
    <2>. QED BY <2>1 DEF DraftsInv, CreateFile
  <1>2. /\ job.change \in Changes /\ job.doc \in Docs /\ trees[job.change] # Absent
        /\ accepted[job.change][job.doc] = NoText
    BY <1>1 DEF DraftsInv, JobOK, MadeOK, PlacingOK, Placing
  <1>3. PICK text \in Contents : trees' = [trees EXCEPT ![job.change][job.doc] = text]
    BY TextsTyped DEF CreateFile, Contents, Kept
  <1>4. DiskTypeOK' /\ AcceptedListed' /\ AcceptedTextKept'
    BY <1>1, <1>2, <1>3, FileKept
  <1>5. WindowTypeOK' /\ BoundsTypeOK'
    BY <1>1, FrameTyped
  <1>6. CASE Finish("done", New)
    <2>1. Answerable("done", New)
      BY <1>2, TextsTyped DEF Answerable
    <2>. QED BY <1>1, <1>4, <1>5, <1>6, <2>1, AnswerTyped DEF DraftsInv, TypeOK
  <1>7. CASE Goto("unlist")
    <2>1. JobTypeOK' /\ job' = [job EXCEPT !.at = "unlist"]
      BY <1>1, <1>7, GotoTyped DEF Places
    <2>2. /\ job'.at = "unlist" /\ job'.change = job.change /\ job'.doc = job.doc
          /\ job'.cmd = job.cmd /\ job'.before = job.before
      BY <1>1, <2>1 DEF TypeOK, JobTypeOK, Jobs
    <2>3. trees'[job.change] # Absent
      <3>1. /\ trees[job.change] \in [Docs -> Contents]
            /\ trees'[job.change] = [trees[job.change] EXCEPT ![job.doc] = text]
        BY <1>1, <1>2, <1>3 DEF TypeOK, DiskTypeOK, Worktrees
      <3>2. trees'[job.change] \in Worktrees
        BY <1>3, <3>1 DEF Worktrees
      <3>. QED BY <3>2, ReadableFiles
    <2>4. MadeOK'
      BY <2>2, <2>3 DEF MadeOK
    <2>5. PlacingOK'
      BY <1>1, <2>2 DEF DraftsInv, JobOK, PlacingOK, Placing, IsSave
    <2>6. SavingOK'
      BY <2>2 DEF SavingOK, Saving
    <2>. QED BY <1>4, <1>5, <2>1, <2>4, <2>5, <2>6 DEF DraftsInv, TypeOK, JobOK
  <1>. QED BY <1>6, <1>7 DEF CreateFile

LEMMA UnlistStep == DraftsInv /\ Unlist => DraftsInv'
  <1>. SUFFICES ASSUME DraftsInv, Unlist PROVE DraftsInv'
    OBVIOUS
  <1>. DEFINE c == job.change
  <1>1. /\ TypeOK /\ job.at = "unlist" /\ UNCHANGED <<journals, queue, accepted>>
    BY DEF DraftsInv, Unlist
  <1>2. StepFrame
    BY DEF Unlist, StepFrame
  <1>3. /\ c \in Changes /\ job.before \in Records
        /\ records[c] = [docs |-> job.before.docs \cup {job.doc}, last |-> job.doc]
        /\ accepted[c][job.doc] = NoText
    BY <1>1 DEF DraftsInv, JobOK, PlacingOK, Placing
  <1>4. PICK left \in {records[c], job.before} : FailWith([records EXCEPT ![c] = left])
    BY DEF Unlist, Restored
  <1>. DEFINE recs == [records EXCEPT ![c] = left]
  <1>5. recs \in [Changes -> Records \cup {Absent, Torn}]
    BY <1>3, RecordsList
  <1>6. \A x \in Changes, e \in Docs : accepted[x][e] # NoText =>
          Readable(recs[x]) /\ e \in recs[x].docs
    <2>1. Readable(job.before)
      BY <1>3, ReadableFiles
    <2>2. records[c].docs = job.before.docs \cup {job.doc}
      BY <1>3
    <2>3. recs[c] = left /\ \A x \in Changes \ {c} : recs[x] = records[x]
      BY <1>3, RecordsList
    <2>. HIDE DEF recs
    <2>. QED BY <1>3, <2>1, <2>2, <2>3, RecordsList
  <1>7. FailWith(recs)
    BY <1>4
  <1>. HIDE DEF recs
  <1>. QED BY <1>1, <1>2, <1>3, <1>5, <1>6, <1>7, FrameTyped, FailWithKept DEF DraftsInv, TypeOK

\* The record a save or a switch writes lists the same documents.
LEMMA TouchRecordStep == DraftsInv /\ TouchRecord => DraftsInv'
  <1>. SUFFICES ASSUME DraftsInv, TouchRecord PROVE DraftsInv'
    OBVIOUS
  <1>. DEFINE c == job.change
              touched == IF IsSave THEN [records[c] EXCEPT !.last = job.doc] ELSE records[c]
              at == IF IsSave THEN "journal" ELSE "activate"
  <1>1. /\ TypeOK /\ job.at = "touch" /\ UNCHANGED <<active, trees, journals, queue, accepted>>
    BY DEF DraftsInv, TouchRecord
  <1>2. StepFrame
    BY DEF TouchRecord, StepFrame
  <1>3. /\ c \in Changes /\ records[c] \in Records /\ ~job.made
        /\ job.cmd.kind \in {"save", "switch"}
    BY <1>1, ReadableFiles DEF DraftsInv, JobOK, MadeOK, TypeOK, DiskTypeOK
  <1>4. job \in Jobs
    BY <1>1 DEF TypeOK, JobTypeOK
  <1>5. touched \in Records /\ touched.docs = records[c].docs /\ Readable(touched)
    <2>1. touched \in Records /\ touched.docs = records[c].docs
      BY <1>3, <1>4 DEF Records, Jobs
    <2>. QED BY <2>1, ReadableFiles
  <1>6. LeftBy(records[c], touched) = {records[c], touched}
    BY <1>3, ReadableFiles DEF LeftBy, Readable
  <1>7. \/ records' = [records EXCEPT ![c] = touched] /\ Goto(at)
        \/ \E left \in {records[c], touched} :
             records' = [records EXCEPT ![c] = left] /\ Answer("failed", NoText)
    BY <1>6 DEF TouchRecord, IsSave
  <1>. HIDE DEF touched, at
  <1>8. PICK left \in {records[c], touched} : records' = [records EXCEPT ![c] = left]
    BY <1>7
  <1>9. /\ left \in Records /\ left.docs = records[c].docs /\ Readable(left)
    BY <1>3, <1>5, ReadableFiles
  <1>10. records' \in [Changes -> Records \cup {Absent, Torn}] /\ records'[c] = left
         /\ \A x \in Changes \ {c} : records'[x] = records[x]
    BY <1>3, <1>8, <1>9, RecordsList
  <1>11. DiskTypeOK'
    BY <1>1, <1>10 DEF TypeOK, DiskTypeOK
  <1>12. \A x \in Changes, d \in Docs : Lists(x, d) => Lists(x, d)'
    BY <1>9, <1>10 DEF Lists
  <1>13. AcceptedListed' /\ AcceptedTextKept'
    <2>1. \A x \in Changes, e \in Docs : accepted[x][e] # NoText =>
            /\ Lists(x, e)'
            /\ Holds(x, e)' = Holds(x, e) /\ journals'[x][e] = journals[x][e]
      BY <1>1, <1>12 DEF DraftsInv, AcceptedListed, Holds
    <2>. QED BY <1>1, <2>1, AcceptedStays DEF DraftsInv
  <1>14. CASE Answer("failed", NoText)
    BY <1>1, <1>2, <1>11, <1>13, <1>14, FailureTyped, FrameTyped DEF DraftsInv, TypeOK
  <1>15. CASE Goto(at)
    <2>1. at \in Places \ {"none"} /\ (at = "journal" <=> IsSave) /\ at \in {"journal", "activate"}
      BY DEF at, Places
    <2>2. JobTypeOK' /\ job' = [job EXCEPT !.at = at]
      BY <1>1, <1>15, <2>1, GotoTyped
    <2>3. /\ job'.at = at /\ job'.change = c /\ job'.doc = job.doc /\ job'.cmd = job.cmd
          /\ job'.made = job.made
      BY <1>4, <2>2 DEF Jobs
    <2>4. MadeOK'
      BY <1>3, <2>1, <2>3 DEF MadeOK
    <2>5. PlacingOK'
      BY <1>3, <2>1, <2>3 DEF PlacingOK, Placing, IsSave
    <2>6. IsSave => job.change = job.cmd.change /\ job.doc = job.cmd.doc /\ Lists(c, job.doc)
      BY <1>1 DEF DraftsInv, JobOK, SavingOK, Saving
    <2>7. SavingOK'
      <3>1. IsSave => Lists(c, job.doc)'
        <4>1. IsSave => job.doc \in Docs
          BY <1>4, <2>6 DEF IsSave, Jobs, Commands
        <4>. QED BY <1>3, <1>12, <2>3, <2>6, <4>1
      <3>2. IsSave' = IsSave
        BY <2>3 DEF IsSave
      <3>3. Lists(job.change, job.doc)' <=> Lists(c, job.doc)'
        BY <2>3 DEF Lists
      <3>. QED BY <2>1, <2>3, <2>6, <3>1, <3>2, <3>3 DEF SavingOK, Saving
    <2>. QED BY <1>2, <1>1, <1>11, <1>13, <2>2, <2>4, <2>5, <2>7, FrameTyped
         DEF DraftsInv, TypeOK, JobOK
  <1>. QED BY <1>7, <1>14, <1>15

\* The text is accepted with its journal, or not at all; a conflict leaves it there.
LEMMA WriteJournalStep == DraftsInv /\ WriteJournal => DraftsInv'
  <1>. SUFFICES ASSUME DraftsInv, WriteJournal PROVE DraftsInv'
    OBVIOUS
  <1>. DEFINE c == job.change
              d == job.doc
              disk == Holds(c, d)
              entry == Entry(job.cmd)
              Wrote == /\ journals' = [journals EXCEPT ![c][d] = entry]
                       /\ accepted' = [accepted EXCEPT ![c][d] = job.cmd.text]
              Left(left) == /\ journals' = [journals EXCEPT ![c][d] = left]
                            /\ UNCHANGED accepted
  <1>1. /\ TypeOK /\ job.at = "journal" /\ UNCHANGED <<active, records, trees, queue>>
    BY DEF DraftsInv, WriteJournal
  <1>2. StepFrame
    BY DEF WriteJournal, StepFrame
  <1>3. /\ job \in Jobs /\ job.cmd \in Commands
        /\ journals \in [Changes -> [Docs -> Entries \cup {Absent, Torn}]]
        /\ accepted \in [Changes -> [Docs -> Kept \cup {NoText}]]
    BY <1>1 DEF TypeOK, JobTypeOK, DiskTypeOK, Jobs
  <1>4. IsSave /\ c = job.cmd.change /\ d = job.cmd.doc /\ Lists(c, d)
    BY <1>1 DEF DraftsInv, JobOK, SavingOK, Saving
  <1>5. c \in Changes /\ d \in Docs /\ entry \in Entries /\ job.cmd.text \in Kept
    BY <1>3, <1>4 DEF IsSave, Commands, Entry, Entries
  <1>6. Readable(entry) /\ entry.text = job.cmd.text
    BY <1>5, ReadableFiles DEF Entry
  <1>7. disk \in Contents
    BY <1>1, <1>5 DEF Holds, TypeOK, DiskTypeOK, Worktrees, Contents
  <1>8. \/ UNCHANGED <<journals, accepted>> /\ Answer("failed", NoText)
        \/ /\ disk # Absent /\ Wrote
           /\ \/ job' = [job EXCEPT !.at = "compare", !.seen = disk] /\ UNCHANGED answers
              \/ Finish("conflict", disk)
              \/ Answer("failed", NoText)
        \/ /\ journals[c][d] = Absent /\ Left(Torn) /\ Answer("failed", NoText)
    <2>1. ASSUME NEW left \in LeftBy(journals[c][d], entry), disk # Absent,
                 journals' = [journals EXCEPT ![c][d] = left],
                 accepted' = IF left = entry
                             THEN [accepted EXCEPT ![c][d] = job.cmd.text] ELSE accepted
          PROVE  \/ UNCHANGED <<journals, accepted>> \/ Wrote
                 \/ journals[c][d] = Absent /\ Left(Torn)
      <3>. HIDE DEF entry
      <3>1. CASE left = entry
        BY <2>1, <3>1
      <3>2. CASE left # entry /\ left = journals[c][d]
        BY <1>3, <1>5, <2>1, <3>2
      <3>3. CASE left # entry /\ left # journals[c][d]
        BY <2>1, <3>3 DEF LeftBy
      <3>. QED BY <3>1, <3>2, <3>3
    <2>2. \/ UNCHANGED <<journals, accepted>> /\ Answer("failed", NoText)
          \/ /\ disk # Absent /\ Wrote
             /\ \/ job' = [job EXCEPT !.at = "compare", !.seen = disk] /\ UNCHANGED answers
                \/ Finish("conflict", disk)
          \/ /\ disk # Absent /\ Answer("failed", NoText)
             /\ \E left \in LeftBy(journals[c][d], entry) :
                  /\ journals' = [journals EXCEPT ![c][d] = left]
                  /\ accepted' = IF left = entry
                                 THEN [accepted EXCEPT ![c][d] = job.cmd.text] ELSE accepted
      BY DEF WriteJournal, JournalAfter
    <2>. QED BY <2>1, <2>2
  <1>. HIDE DEF entry
  <1>9. CASE UNCHANGED <<journals, accepted>> /\ Answer("failed", NoText)
    BY <1>1, <1>2, <1>9, FailureTyped, FrameTyped, ActiveOnly
    DEF DraftsInv, TypeOK, DiskTypeOK
  <1>10. CASE disk # Absent /\ Wrote
    <2>1. /\ journals'[c][d] = entry /\ accepted'[c][d] = job.cmd.text
          /\ \A x \in Changes, e \in Docs :
               <<x, e>> # <<c, d>> => /\ journals'[x][e] = journals[x][e]
                                      /\ accepted'[x][e] = accepted[x][e]
      BY <1>3, <1>5, <1>10
    <2>2. DiskTypeOK'
      BY <1>1, <1>3, <1>5, <1>10 DEF TypeOK, DiskTypeOK
    <2>3. \A x \in Changes, e \in Docs : Lists(x, e)' = Lists(x, e) /\ Holds(x, e)' = Holds(x, e)
      BY <1>1 DEF Lists, Holds
    <2>4. AcceptedListed' /\ AcceptedTextKept'
      <3>1. ASSUME NEW x \in Changes, NEW e \in Docs, accepted'[x][e] # NoText
            PROVE  /\ Lists(x, e) /\ Holds(x, e) # Absent
                   /\ \/ /\ Readable(journals'[x][e])
                         /\ journals'[x][e].text = accepted'[x][e]
                      \/ Holds(x, e) = accepted'[x][e]
        <4>1. CASE x = c /\ e = d
          BY <1>4, <1>6, <1>10, <2>1, <4>1
        <4>2. CASE ~(x = c /\ e = d)
          <5>1. accepted'[x][e] = accepted[x][e] /\ journals'[x][e] = journals[x][e]
            BY <2>1, <4>2
          <5>. QED BY <3>1, <5>1 DEF DraftsInv, AcceptedListed, AcceptedTextKept
        <4>. QED BY <4>1, <4>2
      <3>. QED BY <2>3, <3>1 DEF AcceptedListed, AcceptedTextKept, Readable
    <2>5. CASE Finish("conflict", disk) \/ Answer("failed", NoText)
      <3>1. Answerable("conflict", disk)
        BY <1>7, <1>10 DEF Answerable, Contents
      <3>. QED BY <1>1, <1>2, <2>2, <2>4, <2>5, <3>1, AnswerTyped, FailureTyped, FrameTyped
           DEF DraftsInv, TypeOK
    <2>6. CASE job' = [job EXCEPT !.at = "compare", !.seen = disk] /\ UNCHANGED answers
      <3>1. /\ job'.at = "compare" /\ job'.change = c /\ job'.doc = d /\ job'.cmd = job.cmd
            /\ job' \in Jobs
        BY <1>3, <1>7, <2>6 DEF Jobs, Places
      <3>2. JobTypeOK'
        BY <1>1, <2>6, <3>1, NothingTyped DEF TypeOK, JobTypeOK
      <3>3. MadeOK'
        BY <3>1 DEF MadeOK
      <3>4. PlacingOK'
        BY <1>4, <3>1 DEF PlacingOK, Placing, IsSave
      <3>5. SavingOK'
        <4>1. Lists(job.change, job.doc)' /\ Holds(job.change, job.doc)' # Absent
          BY <1>4, <1>5, <1>10, <2>3, <3>1
        <4>2. journals'[c][d] = Entry(job'.cmd)
          BY <2>1, <3>1 DEF entry
        <4>. QED BY <1>4, <2>1, <3>1, <4>1, <4>2 DEF SavingOK, Saving, IsSave
      <3>. QED BY <1>1, <1>2, <2>2, <2>4, <3>2, <3>3, <3>4, <3>5, FrameTyped
           DEF DraftsInv, TypeOK, JobOK
    <2>. QED BY <1>8, <1>9, <2>5, <2>6, <1>10
  <1>11. CASE journals[c][d] = Absent /\ Left(Torn) /\ Answer("failed", NoText)
    <2>1. DiskTypeOK'
      BY <1>1, <1>3, <1>5, <1>11 DEF TypeOK, DiskTypeOK
    <2>2. \A x \in Changes, e \in Docs :
            \/ journals'[x][e] = journals[x][e]
            \/ ~Readable(journals[x][e])
      BY <1>3, <1>5, <1>11 DEF Readable
    <2>3. AcceptedListed' /\ AcceptedTextKept'
      BY <1>1, <1>11, <2>2
      DEF DraftsInv, AcceptedListed, AcceptedTextKept, Lists, Holds, Readable
    <2>. QED BY <1>1, <1>2, <1>11, <2>1, <2>3, FailureTyped, FrameTyped DEF DraftsInv, TypeOK
  <1>. QED BY <1>8, <1>9, <1>10, <1>11

\* A file that is not replaced leaves a listed document: a save has failed, and an
\* addition takes the document out of the record.
LEMMA NotReplacedStep ==
  ASSUME DraftsInv, job.at \in {"compare", "rename"}, UNCHANGED <<records, queue, accepted>>,
         Answer("failed", NoText) \/ (~IsSave /\ Goto("unlist")),
         trees'[job.change] # Absent
  PROVE  JobTypeOK' /\ JobOK'
  <1>1. TypeOK /\ job \in Jobs
    BY DEF DraftsInv, TypeOK, JobTypeOK
  <1>2. CASE Answer("failed", NoText)
    BY <1>1, <1>2, FailureTyped
  <1>3. CASE ~IsSave /\ Goto("unlist")
    <2>1. JobTypeOK' /\ job' = [job EXCEPT !.at = "unlist"]
      BY <1>1, <1>3, GotoTyped DEF Places
    <2>2. /\ job'.at = "unlist" /\ job'.change = job.change /\ job'.doc = job.doc
          /\ job'.cmd = job.cmd /\ job'.before = job.before
      BY <1>1, <2>1 DEF Jobs
    <2>3. MadeOK'
      BY <2>2 DEF MadeOK
    <2>4. PlacingOK'
      BY <1>3, <2>2 DEF DraftsInv, JobOK, PlacingOK, Placing, IsSave
    <2>5. SavingOK'
      BY <2>2 DEF SavingOK, Saving
    <2>. QED BY <2>1, <2>3, <2>4, <2>5 DEF JobOK
  <1>. QED BY <1>2, <1>3

LEMMA CompareFileStep == DraftsInv /\ CompareFile => DraftsInv'
  <1>. SUFFICES ASSUME DraftsInv, CompareFile PROVE DraftsInv'
    OBVIOUS
  <1>. DEFINE disk == Holds(job.change, job.doc)
  <1>1. /\ TypeOK /\ job.at = "compare" /\ StepFrame
        /\ UNCHANGED <<active, records, trees, journals, queue, accepted>>
    <2>1. StepFrame
      BY DEF CompareFile, StepFrame
    <2>. QED BY <2>1 DEF DraftsInv, CompareFile, diskVars
  <1>2. job \in Jobs
    BY <1>1 DEF TypeOK, JobTypeOK
  <1>3. disk # Absent /\ trees[job.change] # Absent
    BY <1>1 DEF DraftsInv, JobOK, SavingOK, Holds
  <1>4. job.change \in Changes /\ job.doc \in Docs
    BY <1>1, <1>2 DEF DraftsInv, JobOK, PlacingOK, SavingOK, Placing, Saving, IsSave, Jobs, Commands
  <1>5. disk \in Kept
    BY <1>1, <1>3, <1>4 DEF Holds, TypeOK, DiskTypeOK, Worktrees, Contents
  <1>6. DiskTypeOK' /\ AcceptedListed' /\ AcceptedTextKept' /\ WindowTypeOK' /\ BoundsTypeOK'
    <2>1. active' \in Changes \cup {Absent, Torn}
      BY <1>1 DEF TypeOK, DiskTypeOK
    <2>. QED BY <1>1, <2>1, ActiveOnly, FrameTyped
  <1>7. \/ job' = [job EXCEPT !.at = "rename", !.seen = disk] /\ UNCHANGED answers
        \/ Finish("conflict", disk)
        \/ Answer("failed", NoText) \/ (~IsSave /\ Goto("unlist"))
    BY DEF CompareFile, NotReplaced, IsSave
  <1>8. CASE job' = [job EXCEPT !.at = "rename", !.seen = disk] /\ UNCHANGED answers
    <2>1. /\ job'.at = "rename" /\ job'.change = job.change /\ job'.doc = job.doc
          /\ job'.cmd = job.cmd /\ job'.before = job.before /\ job' \in Jobs
      BY <1>2, <1>5, <1>8 DEF Jobs, Places, Contents
    <2>2. JobTypeOK'
      BY <1>1, <1>8, <2>1, NothingTyped DEF TypeOK, JobTypeOK
    <2>3. MadeOK'
      BY <2>1 DEF MadeOK
    <2>4. PlacingOK'
      BY <1>1, <2>1 DEF DraftsInv, JobOK, PlacingOK, Placing, IsSave
    <2>5. SavingOK'
      BY <1>1, <2>1 DEF DraftsInv, JobOK, SavingOK, Saving, IsSave, Lists, Holds
    <2>. QED BY <1>6, <2>2, <2>3, <2>4, <2>5 DEF DraftsInv, TypeOK, JobOK
  <1>9. CASE Finish("conflict", disk)
    <2>1. Answerable("conflict", disk)
      BY <1>5 DEF Answerable
    <2>. QED BY <1>1, <1>6, <1>9, <2>1, AnswerTyped DEF DraftsInv, TypeOK
  <1>10. CASE Answer("failed", NoText) \/ (~IsSave /\ Goto("unlist"))
    BY <1>1, <1>3, <1>6, <1>10, NotReplacedStep DEF DraftsInv, TypeOK
  <1>. QED BY <1>7, <1>8, <1>9, <1>10

\* The file of a saved document may be replaced: the text is in the journal.
LEMMA RenameFileStep == DraftsInv /\ RenameFile => DraftsInv'
  <1>. SUFFICES ASSUME DraftsInv, RenameFile PROVE DraftsInv'
    OBVIOUS
  <1>. DEFINE c == job.change
              d == job.doc
              text == IF IsSave THEN job.cmd.text ELSE Identified
              Wrote(left) == trees' = [trees EXCEPT ![c][d] = left]
  <1>1. /\ TypeOK /\ job.at = "rename"
        /\ UNCHANGED <<active, records, journals, queue, accepted>>
    BY DEF DraftsInv, RenameFile
  <1>2. StepFrame
    BY DEF RenameFile, StepFrame
  <1>3. job \in Jobs /\ job.cmd \in Commands
    BY <1>1 DEF TypeOK, JobTypeOK, Jobs
  <1>4. Holds(c, d) # Absent /\ trees[c] # Absent
    BY <1>1 DEF DraftsInv, JobOK, SavingOK, Holds
  <1>5. c \in Changes /\ d \in Docs
    BY <1>1, <1>3 DEF DraftsInv, JobOK, PlacingOK, SavingOK, Placing, Saving, IsSave, Jobs, Commands
  <1>6. Holds(c, d) \in Kept /\ text \in Kept
    <2>1. Holds(c, d) \in Kept
      BY <1>1, <1>4, <1>5 DEF Holds, TypeOK, DiskTypeOK, Worktrees, Contents
    <2>2. text \in Kept
      BY <1>3, TextsTyped DEF IsSave, Commands
    <2>. QED BY <2>1, <2>2
  <1>7. \/ /\ Wrote(text)
           /\ IF IsSave THEN Goto("unjournal") ELSE Finish("done", text)
        \/ \E left \in {Holds(c, d), text} :
             /\ Wrote(left)
             /\ Answer("failed", NoText) \/ (~IsSave /\ Goto("unlist"))
    BY DEF RenameFile, NotReplaced, IsSave
  <1>. HIDE DEF text
  <1>8. PICK left \in {Holds(c, d), text} : Wrote(left)
    BY <1>7
  <1>9. left \in Kept /\ left \in Contents
    BY <1>6 DEF Contents
  <1>10. /\ trees'[c] \in Worktrees /\ trees'[c] = [trees[c] EXCEPT ![d] = left]
         /\ \A x \in Changes \ {c} : trees'[x] = trees[x]
    <2>1. trees[c] \in [Docs -> Contents] /\ trees'[c] = [trees[c] EXCEPT ![d] = left]
      BY <1>1, <1>4, <1>5, <1>8 DEF TypeOK, DiskTypeOK, Worktrees
    <2>2. \A x \in Changes \ {c} : trees'[x] = trees[x]
      BY <1>1, <1>5, <1>8 DEF TypeOK, DiskTypeOK
    <2>. QED BY <1>5, <1>9, <2>1, <2>2 DEF Worktrees
  <1>11. /\ trees'[c] # Absent /\ trees'[c][d] = left
         /\ \A e \in Docs \ {d} : trees'[c][e] = trees[c][e]
    BY <1>5, <1>10, <1>1, <1>4, ReadableFiles DEF Worktrees, TypeOK, DiskTypeOK
  <1>12. DiskTypeOK'
    BY <1>1, <1>5, <1>8, <1>10 DEF TypeOK, DiskTypeOK
  <1>13. IsSave => /\ journals[c][d] = Entry(job.cmd)
                   /\ accepted[c][d] \in {NoText, job.cmd.text}
    BY <1>1 DEF DraftsInv, JobOK, SavingOK
  <1>14. ~IsSave => accepted[c][d] = NoText
    BY <1>1 DEF DraftsInv, JobOK, PlacingOK, Placing
  <1>15. AcceptedListed' /\ AcceptedTextKept'
    <2>1. CASE ~IsSave
      BY <1>1, <1>4, <1>5, <1>8, <1>9, <1>14, <2>1, FileKept
    <2>2. CASE IsSave
      <3>1. Readable(Entry(job.cmd)) /\ Entry(job.cmd).text = job.cmd.text
        <4>1. Entry(job.cmd) \in Entries
          BY <1>3, <2>2 DEF IsSave, Commands, Entry, Entries
        <4>. QED BY <4>1, ReadableFiles DEF Entry
      <3>2. ASSUME NEW x \in Changes, NEW e \in Docs, accepted[x][e] # NoText
            PROVE  /\ Lists(x, e)' /\ Holds(x, e)' # Absent
                   /\ \/ Readable(journals[x][e]) /\ journals[x][e].text = accepted[x][e]
                      \/ Holds(x, e)' = accepted[x][e]
        <4>1. Lists(x, e)'
          BY <1>1, <3>2 DEF DraftsInv, AcceptedListed, Lists
        <4>2. CASE x = c /\ e = d
          BY <1>9, <1>11, <1>13, <2>2, <3>1, <3>2, <4>1, <4>2, TextsTyped DEF Holds
        <4>3. CASE ~(x = c /\ e = d)
          <5>1. Holds(x, e)' = Holds(x, e)
            BY <1>4, <1>10, <1>11, <4>3 DEF Holds
          <5>. QED BY <3>2, <4>1, <5>1 DEF DraftsInv, AcceptedListed, AcceptedTextKept
        <4>. QED BY <4>2, <4>3
      <3>. QED BY <1>1, <3>2 DEF AcceptedListed, AcceptedTextKept, Readable
    <2>. QED BY <2>1, <2>2
  <1>16. WindowTypeOK' /\ BoundsTypeOK'
    BY <1>1, <1>2, FrameTyped
  <1>17. CASE ~IsSave /\ Finish("done", text)
    <2>1. Answerable("done", text)
      BY <1>5, <1>6 DEF Answerable
    <2>. QED BY <1>1, <1>12, <1>15, <1>16, <1>17, <2>1, AnswerTyped DEF DraftsInv, TypeOK
  <1>18. CASE Answer("failed", NoText) \/ (~IsSave /\ Goto("unlist"))
    BY <1>1, <1>11, <1>12, <1>15, <1>16, <1>18, NotReplacedStep DEF DraftsInv, TypeOK
  <1>19. CASE IsSave /\ Wrote(text) /\ Goto("unjournal")
    <2>1. JobTypeOK' /\ job' = [job EXCEPT !.at = "unjournal"]
      BY <1>1, <1>19, GotoTyped DEF Places
    <2>2. /\ job'.at = "unjournal" /\ job'.change = c /\ job'.doc = d /\ job'.cmd = job.cmd
      BY <1>3, <2>1 DEF Jobs
    <2>3. MadeOK'
      BY <2>2 DEF MadeOK
    <2>4. PlacingOK'
      BY <1>19, <2>2 DEF PlacingOK, Placing, IsSave
    <2>5. trees'[c] = [trees[c] EXCEPT ![d] = text]
      BY <1>1, <1>5, <1>19 DEF TypeOK, DiskTypeOK
    <2>6. Holds(job.change, job.doc)' = job.cmd.text
      BY <1>1, <1>4, <1>5, <1>11, <1>19, <2>2, <2>5
      DEF Holds, text, TypeOK, DiskTypeOK, Worktrees
    <2>7. SavingOK'
      BY <1>1, <1>13, <1>19, <2>2, <2>6
      DEF DraftsInv, JobOK, SavingOK, Saving, IsSave, Lists
    <2>. QED BY <1>12, <1>15, <1>16, <2>1, <2>3, <2>4, <2>7 DEF DraftsInv, TypeOK, JobOK
  <1>. QED BY <1>7, <1>17, <1>18, <1>19

\* The journal goes where its text is in the file.
LEMMA RemoveJournalStep == DraftsInv /\ RemoveJournal => DraftsInv'
  <1>. SUFFICES ASSUME DraftsInv, RemoveJournal PROVE DraftsInv'
    OBVIOUS
  <1>. DEFINE c == job.change
              d == job.doc
  <1>1. /\ TypeOK /\ job.at = "unjournal" /\ StepFrame
        /\ UNCHANGED <<active, records, trees, queue, accepted>>
    BY DEF DraftsInv, RemoveJournal, StepFrame
  <1>2. job \in Jobs /\ job.cmd \in Commands
    BY <1>1 DEF TypeOK, JobTypeOK, Jobs
  <1>3. /\ IsSave /\ c = job.cmd.change /\ d = job.cmd.doc
        /\ accepted[c][d] \in {NoText, Holds(c, d)}
    BY <1>1 DEF DraftsInv, JobOK, SavingOK, Saving
  <1>4. c \in Changes /\ d \in Docs /\ job.cmd.text \in Kept
    BY <1>2, <1>3 DEF IsSave, Commands
  <1>5. JobTypeOK' /\ JobOK'
    <2>1. Answerable("done", job.cmd.text)
      BY <1>3, <1>4 DEF Answerable, IsSave
    <2>. QED BY <1>1, <2>1, AnswerTyped, FailureTyped DEF RemoveJournal
  <1>6. CASE UNCHANGED journals
    <2>1. active' \in Changes \cup {Absent, Torn}
      BY <1>1 DEF TypeOK, DiskTypeOK
    <2>. QED BY <1>1, <1>5, <1>6, <2>1, ActiveOnly, FrameTyped DEF DraftsInv, TypeOK
  <1>7. CASE journals' = [journals EXCEPT ![c][d] = Absent]
    <2>1. DiskTypeOK'
      BY <1>1, <1>4, <1>7 DEF TypeOK, DiskTypeOK
    <2>2. \A x \in Changes, e \in Docs :
            journals'[x][e] = journals[x][e] \/ (x = c /\ e = d)
      BY <1>1, <1>4, <1>7 DEF TypeOK, DiskTypeOK
    <2>3. AcceptedListed' /\ AcceptedTextKept'
      BY <1>1, <1>3, <2>2
      DEF DraftsInv, AcceptedListed, AcceptedTextKept, Lists, Holds, Readable
    <2>. QED BY <1>1, <1>5, <2>1, <2>3, FrameTyped DEF DraftsInv, TypeOK
  <1>. QED BY <1>6, <1>7 DEF RemoveJournal

-----------------------------------------------------------------------------
(***************************************************************************)
(* Other programs, and the end of the application.                         *)
(***************************************************************************)

\* What another program replaces is no longer accepted; the rest is left.
LEMMA ForeignWriteStep ==
  ASSUME DraftsInv, NEW c \in Changes, NEW d \in Docs, ForeignWrite(c, d)
  PROVE  DraftsInv'
  <1>. DEFINE text == Text("foreign", foreign + 1)
  <1>1. /\ TypeOK /\ Holds(c, d) \in Texts /\ trees' = [trees EXCEPT ![c][d] = text]
        /\ UNCHANGED <<active, records, journals, jobVars, windowVars>>
        /\ foreign < MaxForeign /\ foreign' = foreign + 1
        /\ UNCHANGED <<typed, asks, faults, ends, late>>
        /\ accepted' = IF Holds(c, d) = accepted[c][d]
                       THEN [accepted EXCEPT ![c][d] = NoText] ELSE accepted
    BY DEF DraftsInv, ForeignWrite
  <1>2. BoundsTypeOK' /\ foreign + 1 \in 1..MaxForeign
    <2>1. MaxForeign \in Nat /\ foreign \in 0..MaxForeign
      BY <1>1, BoundsNatural DEF TypeOK, BoundsTypeOK
    <2>2. foreign + 1 \in 1..MaxForeign /\ foreign + 1 \in 0..MaxForeign
      BY <1>1, <2>1
    <2>. QED BY <1>1, <2>2 DEF TypeOK, BoundsTypeOK
  <1>3. text \in ForeignTexts /\ text \in Kept /\ text \in Contents /\ text # Absent
    BY <1>2, TextsTyped DEF ForeignTexts, Contents
  <1>. HIDE DEF text
  <1>4. trees[c] # Absent /\ trees[c] \in [Docs -> Contents] /\ Holds(c, d) # Absent
    <2>1. Holds(c, d) # Absent
      BY <1>1, TextsTyped
    <2>2. trees[c] # Absent
      BY <2>1 DEF Holds
    <2>. QED BY <1>1, <2>1, <2>2 DEF TypeOK, DiskTypeOK, Worktrees
  <1>5. /\ trees'[c] = [trees[c] EXCEPT ![d] = text] /\ trees'[c] \in Worktrees
        /\ trees'[c] # Absent /\ trees'[c][d] = text
        /\ \A e \in Docs \ {d} : trees'[c][e] = trees[c][e]
        /\ \A x \in Changes \ {c} : trees'[x] = trees[x]
    <2>1. trees'[c] = [trees[c] EXCEPT ![d] = text]
      BY <1>1, <1>4 DEF TypeOK, DiskTypeOK
    <2>2. trees'[c] \in Worktrees
      BY <1>3, <1>4, <2>1 DEF Worktrees
    <2>3. \A x \in Changes \ {c} : trees'[x] = trees[x]
      BY <1>1 DEF TypeOK, DiskTypeOK
    <2>. QED BY <1>4, <2>1, <2>2, <2>3, ReadableFiles
  <1>6. \A x \in Changes, e \in Docs :
          IF x = c /\ e = d
          THEN /\ Holds(x, e)' = text
               /\ accepted'[x][e] = IF Holds(c, d) = accepted[c][d] THEN NoText
                                    ELSE accepted[x][e]
          ELSE Holds(x, e)' = Holds(x, e) /\ accepted'[x][e] = accepted[x][e]
    <2>1. \A x \in Changes, e \in Docs :
            IF x = c /\ e = d THEN Holds(x, e)' = text ELSE Holds(x, e)' = Holds(x, e)
      BY <1>4, <1>5 DEF Holds
    <2>2. accepted \in [Changes -> [Docs -> Kept \cup {NoText}]]
      BY <1>1 DEF TypeOK, DiskTypeOK
    <2>3. \A x \in Changes, e \in Docs :
            IF x = c /\ e = d
            THEN accepted'[x][e] = IF Holds(c, d) = accepted[c][d] THEN NoText
                                   ELSE accepted[x][e]
            ELSE accepted'[x][e] = accepted[x][e]
      BY <1>1, <2>2
    <2>. QED BY <2>1, <2>3
  <1>7. TypeOK'
    <2>1. trees' \in [Changes -> Worktrees \cup {Absent}]
      BY <1>1, <1>5 DEF TypeOK, DiskTypeOK
    <2>2. accepted' \in [Changes -> [Docs -> Kept \cup {NoText}]]
      BY <1>1 DEF TypeOK, DiskTypeOK
    <2>3. DiskTypeOK'
      BY <1>1, <2>1, <2>2 DEF TypeOK, DiskTypeOK
    <2>4. JobTypeOK' /\ WindowTypeOK'
      BY <1>1 DEF TypeOK, JobTypeOK, WindowTypeOK, jobVars, windowVars
    <2>. QED BY <1>2, <2>3, <2>4 DEF TypeOK
  <1>8. \A x \in Changes, e \in Docs : Lists(x, e)' = Lists(x, e)
    BY <1>1 DEF Lists
  <1>9. AcceptedListed' /\ AcceptedTextKept'
    <2>1. ASSUME NEW x \in Changes, NEW e \in Docs, accepted'[x][e] # NoText
          PROVE  /\ Lists(x, e)' /\ Holds(x, e)' # Absent
                 /\ \/ /\ Readable(journals[x][e])
                       /\ journals[x][e].text = accepted'[x][e]
                    \/ Holds(x, e)' = accepted'[x][e]
      <3>1. accepted'[x][e] = accepted[x][e]
        BY <1>6, <2>1
      <3>2. Lists(x, e)
        BY <2>1, <3>1 DEF DraftsInv, AcceptedListed
      <3>3. CASE x = c /\ e = d
        BY <1>3, <1>6, <1>8, <2>1, <3>1, <3>2, <3>3 DEF DraftsInv, AcceptedTextKept
      <3>4. CASE ~(x = c /\ e = d)
        BY <1>6, <1>8, <2>1, <3>1, <3>2, <3>4 DEF DraftsInv, AcceptedListed, AcceptedTextKept
      <3>. QED BY <3>3, <3>4
    <2>. QED BY <1>1, <2>1 DEF AcceptedListed, AcceptedTextKept, Readable
  <1>10. job' = job /\ IsSave' = IsSave /\ Placing' = Placing /\ Saving' = Saving
    BY <1>1 DEF jobVars, IsSave, Placing, Saving
  <1>11. MadeOK'
    BY <1>1, <1>5, <1>10 DEF DraftsInv, JobOK, MadeOK, Readable
  <1>12. PlacingOK'
    BY <1>1, <1>6, <1>10 DEF DraftsInv, JobOK, PlacingOK
  <1>13. SavingOK'
    <2>1. job \in Jobs
      BY <1>1 DEF TypeOK, JobTypeOK
    <2>2. Saving \/ Placing => job.change \in Changes /\ job.doc \in Docs
      BY <2>1 DEF DraftsInv, JobOK, PlacingOK, SavingOK, IsSave, Jobs, Commands
    <2>3. job.at \in {"compare", "rename", "unjournal"} => Saving \/ Placing
      BY DEF Saving, Placing
    <2>4. Lists(job.change, job.doc)' = Lists(job.change, job.doc)
      BY <1>1, <1>10 DEF Lists
    <2>5. job.at \in {"compare", "rename"} => Holds(job.change, job.doc)' # Absent
      <3>1. job.at \in {"compare", "rename"} =>
              /\ Holds(job.change, job.doc) # Absent
              /\ job.change \in Changes /\ job.doc \in Docs
        BY <2>2, <2>3 DEF DraftsInv, JobOK, SavingOK
      <3>2. \A x \in Changes, e \in Docs : Holds(x, e) # Absent => Holds(x, e)' # Absent
        BY <1>3, <1>6
      <3>3. Holds(job.change, job.doc)' = (IF trees'[job.change] = Absent THEN Absent
                                           ELSE trees'[job.change][job.doc])
        BY <1>10 DEF Holds
      <3>. QED BY <3>1, <3>2, <3>3 DEF Holds
    <2>. QED BY <1>1, <1>6, <1>10, <2>2, <2>3, <2>4, <2>5
         DEF DraftsInv, JobOK, SavingOK, Entry, Holds
  <1>. QED BY <1>7, <1>9, <1>11, <1>12, <1>13 DEF DraftsInv, JobOK

\* The application starts with what the files have.
LEMMA AppStartsTyped ==
  ASSUME TypeOK, AppStarts, UNCHANGED <<typed, foreign, asks, faults, late>>,
         ends' = ends + 1
  PROVE  JobTypeOK' /\ JobOK' /\ WindowTypeOK' /\ BoundsTypeOK' /\ UNCHANGED accepted
  <1>1. JobTypeOK' /\ JobOK'
    BY NothingTyped, IdleOK DEF AppStarts, JobTypeOK
  <1>2. WindowTypeOK'
    BY NothingTyped DEF AppStarts, TypeOK, WindowTypeOK, NoRequests
  <1>3. BoundsTypeOK'
    <2>1. ends' \in Nat /\ typed' \in 0..MaxTyped /\ foreign' \in 0..MaxForeign
          /\ asks' \in Nat /\ faults' \in Nat
      BY DEF TypeOK, BoundsTypeOK
    <2>. QED BY <2>1 DEF TypeOK, BoundsTypeOK
  <1>. QED BY <1>1, <1>2, <1>3 DEF AppStarts

LEMMA QuitStep == DraftsInv /\ Quit => DraftsInv'
  <1>. SUFFICES ASSUME DraftsInv, Quit PROVE DraftsInv'
    OBVIOUS
  <1>1. JobTypeOK' /\ JobOK' /\ WindowTypeOK' /\ BoundsTypeOK' /\ UNCHANGED accepted
    BY AppStartsTyped DEF Quit, DraftsInv
  <1>2. DiskTypeOK' /\ AcceptedListed' /\ AcceptedTextKept'
    <2>1. UNCHANGED <<active, records, trees, journals>>
      BY DEF Quit, diskVars
    <2>2. active' \in Changes \cup {Absent, Torn}
      BY <2>1 DEF DraftsInv, TypeOK, DiskTypeOK
    <2>. QED BY <1>1, <2>1, <2>2, ActiveOnly
  <1>. QED BY <1>1, <1>2 DEF DraftsInv, TypeOK

\* A write that does not finish tears a file nothing accepted depends on.
LEMMA CrashStep == DraftsInv /\ Crash => DraftsInv'
  <1>. SUFFICES ASSUME DraftsInv, Crash PROVE DraftsInv'
    OBVIOUS
  <1>. DEFINE c == job.change
              d == job.doc
  <1>1. JobTypeOK' /\ JobOK' /\ WindowTypeOK' /\ BoundsTypeOK' /\ UNCHANGED accepted
    BY AppStartsTyped DEF Crash, DraftsInv
  <1>2. TypeOK
    BY DEF DraftsInv
  <1>3. CASE UNCHANGED <<records, trees, journals>> /\ active' \in {active, Torn}
    <2>1. active' \in Changes \cup {Absent, Torn}
      BY <1>2, <1>3 DEF TypeOK, DiskTypeOK
    <2>. QED BY <1>1, <1>3, <2>1, ActiveOnly DEF DraftsInv, TypeOK
  <1>4. CASE /\ job.at = "record" /\ records' = [records EXCEPT ![c] = Torn]
             /\ UNCHANGED <<active, trees, journals>>
    <2>1. c \in Changes /\ records[c] = Absent
      BY <1>4 DEF DraftsInv, JobOK, MadeOK
    <2>2. DiskTypeOK'
      BY <1>1, <1>2, <1>4 DEF TypeOK, DiskTypeOK
    <2>3. \A e \in Docs : accepted[c][e] = NoText
      BY <2>1, NothingAccepted DEF DraftsInv, Readable
    <2>4. \A x \in Changes \ {c} : records'[x] = records[x]
      BY <1>2, <1>4 DEF TypeOK, DiskTypeOK
    <2>5. \A x \in Changes, e \in Docs : accepted[x][e] # NoText =>
            /\ Lists(x, e)'
            /\ Holds(x, e)' = Holds(x, e) /\ journals'[x][e] = journals[x][e]
      BY <1>4, <2>3, <2>4 DEF DraftsInv, AcceptedListed, Lists, Holds
    <2>. QED BY <1>1, <2>2, <2>5, AcceptedStays DEF DraftsInv, TypeOK
  <1>5. CASE /\ job.at = "file" /\ trees' = [trees EXCEPT ![c][d] = Torn]
             /\ UNCHANGED <<active, records, journals>>
    <2>1. c \in Changes /\ d \in Docs /\ trees[c] # Absent /\ accepted[c][d] = NoText
      BY <1>5 DEF DraftsInv, JobOK, MadeOK, PlacingOK, Placing
    <2>2. Torn \in Contents
      BY TextsTyped DEF Contents
    <2>. QED BY <1>1, <1>5, <2>1, <2>2, FileKept DEF DraftsInv, TypeOK
  <1>6. CASE /\ job.at = "journal" /\ journals[c][d] = Absent
             /\ journals' = [journals EXCEPT ![c][d] = Torn]
             /\ UNCHANGED <<active, records, trees>>
    <2>1. DiskTypeOK'
      BY <1>1, <1>2, <1>6 DEF TypeOK, DiskTypeOK
    <2>2. \A x \in Changes, e \in Docs :
            journals'[x][e] = journals[x][e] \/ ~Readable(journals[x][e])
      BY <1>2, <1>6 DEF TypeOK, DiskTypeOK, Readable
    <2>3. AcceptedListed' /\ AcceptedTextKept'
      BY <1>1, <1>6, <2>2
      DEF DraftsInv, AcceptedListed, AcceptedTextKept, Lists, Holds, Readable
    <2>. QED BY <1>1, <2>1, <2>3 DEF DraftsInv, TypeOK
  <1>. QED BY <1>3, <1>4, <1>5, <1>6 DEF Crash, TornWrite, diskVars

-----------------------------------------------------------------------------
(***************************************************************************)
(* The theorems.                                                           *)
(***************************************************************************)

\* Every step keeps the invariant.
LEMMA StepKept == DraftsInv /\ [Next]_vars => DraftsInv'
  <1>. SUFFICES ASSUME DraftsInv, [Next]_vars PROVE DraftsInv'
    OBVIOUS
  <1>1. CASE UNCHANGED vars
    <2>1. UNCHANGED <<diskVars, jobVars, windowVars, boundVars, accepted>>
      BY <1>1 DEF vars
    <2>2. TypeOK'
      BY <2>1
      DEF DraftsInv, TypeOK, DiskTypeOK, JobTypeOK, WindowTypeOK, BoundsTypeOK,
          diskVars, jobVars, windowVars, boundVars
    <2>. QED BY <2>1, <2>2, FilesSame DEF JobSame, jobVars
  <1>2. CASE JobStep
    BY <1>2, MakeWorktreeStep, RecordChangeStep, SetActiveStep, AddNewDocumentStep,
       AddExistingDocumentStep, AddTemplateStep, CreateFileStep, UnlistStep,
       TouchRecordStep, WriteJournalStep, CompareFileStep, RenameFileStep,
       RemoveJournalStep, CloseActiveStep
    DEF JobStep
  <1>3. CASE Begin \/ Crash \/ Quit \/ \E c \in Changes, d \in Docs : ForeignWrite(c, d)
    BY <1>3, BeginStep, CrashStep, QuitStep, ForeignWriteStep
  <1>4. CASE ~JobStep /\ Next
             /\ ~(Begin \/ Crash \/ Quit \/ \E c \in Changes, d \in Docs : ForeignWrite(c, d))
    BY <1>4, WindowSteps DEF Next
  <1>. QED BY <1>1, <1>2, <1>3, <1>4

\* The files, the commands and the window keep their types.
THEOREM DraftsTyped == Spec => []TypeOK
  <1>1. DraftsInv => TypeOK
    BY DEF DraftsInv
  <1>. QED BY InitTyped, StepKept, <1>1, PTL DEF Spec

\* A text that a save went on with is in the journal or in the file until another
\* program replaces it there: whatever fails, and wherever the application ends.
THEOREM AcceptedTextIsKept == Spec => []AcceptedTextKept
  <1>1. DraftsInv => AcceptedTextKept
    BY DEF DraftsInv
  <1>. QED BY InitTyped, StepKept, <1>1, PTL DEF Spec

-----------------------------------------------------------------------------
(***************************************************************************)
(* What every proof here starts from: which steps touch what.              *)
(***************************************************************************)
WindowStep ==
  \/ Type \/ QueueSave \/ SendSave \/ AcceptDisk \/ AcceptHub \/ StartMerge
  \/ CloseEditor \/ AskAndFlush \/ FlushFails \/ CreationChecked
  \/ \E a \in answers : AnswerSave(a) \/ AnswerRequest(a)
  \/ \E what \in Wishes : AskNow(what) \/ FlushEnds(what)
  \/ \E d \in Docs : EditExisting(d)
  \/ LookForRecovery \/ ReadRecovery \/ RecoveryArrives

\* A step is one of the window, of the command, of another program, or an end.
LEMMA StepKinds ==
  Next <=> \/ WindowStep \/ Begin \/ JobStep \/ Crash \/ Quit
           \/ \E c \in Changes, d \in Docs : ForeignWrite(c, d)
  BY DEF Next, WindowStep

\* The window leaves the files alone, and of the command changes at most its marks.
LEMMA WindowLeaves ==
  ASSUME TypeOK, WindowStep
  PROVE  /\ UNCHANGED <<diskVars, accepted>> /\ JobSame
         /\ UNCHANGED <<foreign, faults, ends, late>>
  <1>1. UNCHANGED <<diskVars, accepted>> /\ JobSame
    <2>1. ASSUME UNCHANGED <<diskVars, accepted, job>>
          PROVE  UNCHANGED <<diskVars, accepted>> /\ JobSame
      BY <2>1 DEF JobSame
    <2>. QED BY <2>1, EditorStepsTyped, WishesTyped, AnswersTyped, RecoveryTyped DEF WindowStep
  <1>2. UNCHANGED <<foreign, faults, ends, late>>
    BY DEF WindowStep, Type, QueueSave, SendSave, AcceptDisk, AcceptHub, StartMerge,
           CloseEditor, AskAndFlush, FlushFails, CreationChecked, AnswerSave, AnswerRequest,
           AskNow, FlushEnds, EditExisting, LookForRecovery, ReadRecovery, RecoveryArrives,
           LoadFrame, ResolveFrame, WindowFrame
  <1>. QED BY <1>1, <1>2

\* What the marks of a restart leave of a command.
LEMMA MarkedFields ==
  ASSUME TypeOK, JobSame
  PROVE  /\ job'.at = job.at /\ job'.change = job.change /\ job'.doc = job.doc
         /\ job'.made = job.made /\ job'.before = job.before /\ job'.seen = job.seen
         /\ job'.cmd.kind = job.cmd.kind /\ job'.cmd.doc = job.cmd.doc
         /\ job'.cmd.change = job.cmd.change /\ job'.cmd.text = job.cmd.text
         /\ job'.cmd.base = job.cmd.base
  <1>1. job \in Jobs /\ job.cmd \in Commands
    BY DEF TypeOK, JobTypeOK, Jobs
  <1>2. ASSUME NEW mine \in BOOLEAN,
               job' = [job EXCEPT !.cmd = [@ EXCEPT !.stale = TRUE, !.mine = mine]]
        PROVE  /\ job' = [job EXCEPT !.cmd = job'.cmd]
               /\ job'.cmd = [job.cmd EXCEPT !.stale = TRUE, !.mine = mine]
    BY <1>1, <1>2 DEF Jobs
  <1>3. CASE job' = job
    BY <1>3
  <1>4. ASSUME NEW mine \in BOOLEAN,
               job' = [job EXCEPT !.cmd = [@ EXCEPT !.stale = TRUE, !.mine = mine]]
        PROVE  /\ job'.at = job.at /\ job'.change = job.change /\ job'.doc = job.doc
               /\ job'.made = job.made /\ job'.before = job.before /\ job'.seen = job.seen
               /\ job'.cmd.kind = job.cmd.kind /\ job'.cmd.doc = job.cmd.doc
               /\ job'.cmd.change = job.cmd.change /\ job'.cmd.text = job.cmd.text
               /\ job'.cmd.base = job.cmd.base
    <2>1. job'.cmd = [job.cmd EXCEPT !.stale = TRUE, !.mine = mine]
      BY <1>2, <1>4
    <2>2. /\ job'.cmd.kind = job.cmd.kind /\ job'.cmd.doc = job.cmd.doc
          /\ job'.cmd.change = job.cmd.change /\ job'.cmd.text = job.cmd.text
          /\ job'.cmd.base = job.cmd.base
      BY <1>1, <2>1 DEF Commands
    <2>3. /\ job'.at = job.at /\ job'.change = job.change /\ job'.doc = job.doc
          /\ job'.made = job.made /\ job'.before = job.before /\ job'.seen = job.seen
      BY <1>1, <1>4 DEF Jobs
    <2>. QED BY <2>2, <2>3
  <1>. QED BY <1>3, <1>4 DEF JobSame

\* A command ends with an answer, or goes on as the command it is.
JobEnds == \E result, text : Answer(result, text)
JobGoesOn == UNCHANGED answers /\ job' # NoJob /\ job'.cmd = job.cmd

LEMMA FinishEnds ==
  ASSUME NEW result, NEW text, Answer(result, text) \/ Finish(result, text)
  PROVE  JobEnds
  BY DEF Finish, JobEnds

LEMMA GotoGoesOn ==
  ASSUME TypeOK, NEW at \in Places \ {"none"}, Goto(at)
  PROVE  JobGoesOn
  <1>1. job \in Jobs
    BY DEF TypeOK, JobTypeOK
  <1>2. job' = [job EXCEPT !.at = at] /\ UNCHANGED answers
    BY DEF Goto
  <1>3. job'.at = at /\ job'.cmd = job.cmd
    BY <1>1, <1>2 DEF Jobs
  <1>. QED BY <1>2, <1>3, NothingTyped DEF JobGoesOn

LEMMA JobShape ==
  ASSUME TypeOK, JobStep
  PROVE  /\ JobEnds \/ JobGoesOn
         /\ UNCHANGED queue /\ StepFrame
  <1>1. UNCHANGED queue
    BY DEF JobStep, MakeWorktree, RecordChange, SetActive, AddNewDocument,
           AddExistingDocument, AddTemplate, CreateFile, Unlist, TouchRecord, WriteJournal,
           CompareFile, RenameFile, RemoveJournal, CloseActive
  <1>2. StepFrame
    <2>1. CASE MakeWorktree \/ RecordChange \/ SetActive \/ CreateFile \/ Unlist
      BY <2>1 DEF MakeWorktree, RecordChange, SetActive, CreateFile, Unlist, StepFrame
    <2>2. CASE AddNewDocument \/ AddExistingDocument \/ AddTemplate
      BY <2>2 DEF AddNewDocument, AddExistingDocument, AddTemplate, ListDocument, StepFrame
    <2>3. CASE TouchRecord \/ WriteJournal \/ CompareFile \/ RenameFile \/ RemoveJournal
                 \/ CloseActive
      BY <2>3 DEF TouchRecord, WriteJournal, CompareFile, RenameFile, RemoveJournal,
                  CloseActive, StepFrame
    <2>. QED BY <2>1, <2>2, <2>3 DEF JobStep
  <1>3. job \in Jobs
    BY DEF TypeOK, JobTypeOK
  <1>4. ASSUME NEW new, job' = new, UNCHANGED answers, new.cmd = job.cmd, new.at # "none"
        PROVE  JobGoesOn
    BY <1>4, NothingTyped DEF JobGoesOn
  <1>5. ASSUME NEW recs, FailWith(recs) PROVE JobEnds
    BY <1>5, FinishEnds DEF FailWith
  <1>6. ASSUME NotReplaced PROVE JobEnds \/ JobGoesOn
    BY <1>6, FinishEnds, GotoGoesOn DEF NotReplaced, Places
  <1>7. ASSUME MakeWorktree PROVE JobEnds \/ JobGoesOn
    <2>1. ASSUME NEW c, job' = [job EXCEPT !.at = "record", !.change = c, !.made = TRUE],
                 UNCHANGED answers
          PROVE  JobGoesOn
      <3>1. job'.cmd = job.cmd /\ job'.at = "record"
        BY <1>3, <2>1 DEF Jobs
      <3>. QED BY <1>4, <2>1, <3>1
    <2>. QED BY <1>7, <2>1, FinishEnds DEF MakeWorktree
  <1>8. ASSUME RecordChange \/ SetActive \/ RemoveJournal \/ CloseActive PROVE JobEnds \/ JobGoesOn
    BY <1>8, FinishEnds, GotoGoesOn DEF RecordChange, SetActive, RemoveJournal, CloseActive, Places
  <1>9. ASSUME NEW d, ListDocument(d) PROVE JobEnds \/ JobGoesOn
    <2>1. ASSUME NEW at \in {"file", "compare"}, NEW seen, NEW before,
                 job' = [job EXCEPT !.at = at, !.doc = d, !.seen = seen, !.before = before],
                 UNCHANGED answers
          PROVE  JobGoesOn
      <3>1. job'.cmd = job.cmd /\ job'.at = at
        BY <1>3, <2>1 DEF Jobs
      <3>. QED BY <1>4, <2>1, <3>1
    <2>. QED BY <1>5, <1>9, <2>1, FinishEnds DEF ListDocument
  <1>10. ASSUME AddNewDocument \/ AddExistingDocument \/ AddTemplate PROVE JobEnds \/ JobGoesOn
    BY <1>5, <1>9, <1>10, FinishEnds DEF AddNewDocument, AddExistingDocument, AddTemplate
  <1>11. ASSUME CreateFile \/ Unlist PROVE JobEnds \/ JobGoesOn
    BY <1>5, <1>11, FinishEnds, GotoGoesOn DEF CreateFile, Unlist, Places
  <1>12. ASSUME TouchRecord PROVE JobEnds \/ JobGoesOn
    BY <1>12, FinishEnds, GotoGoesOn DEF TouchRecord, Places
  <1>13. ASSUME NEW at \in {"compare", "rename"}, NEW seen,
                job' = [job EXCEPT !.at = at, !.seen = seen], UNCHANGED answers
         PROVE  JobGoesOn
    <2>1. job'.cmd = job.cmd /\ job'.at = at
      BY <1>3, <1>13 DEF Jobs
    <2>. QED BY <1>4, <1>13, <2>1
  <1>14. ASSUME WriteJournal PROVE JobEnds \/ JobGoesOn
    BY <1>13, <1>14, FinishEnds DEF WriteJournal
  <1>15. ASSUME CompareFile PROVE JobEnds \/ JobGoesOn
    BY <1>6, <1>13, <1>15, FinishEnds, GotoGoesOn DEF CompareFile, Places
  <1>16. ASSUME RenameFile PROVE JobEnds \/ JobGoesOn
    BY <1>6, <1>16, FinishEnds, GotoGoesOn DEF RenameFile, Places
  <1>17. JobEnds \/ JobGoesOn
    BY <1>7, <1>8, <1>10, <1>11, <1>12, <1>14, <1>15, <1>16 DEF JobStep
  <1>. QED BY <1>1, <1>2, <1>17

-----------------------------------------------------------------------------
(***************************************************************************)
(* What the window has shown.  A command replaces a file only where it     *)
(* holds the text the command knows, and every text the window sends as    *)
(* known has been on the screen.                                           *)
(***************************************************************************)
SeenText(t) == t \in ForeignTexts => t \in shown

\* An editor that is put on the screen has seen the text it is based on.
Ready(e) ==
  /\ e.base \in {e.text, e.conflict} \/ SeenText(e.base)
  /\ SeenText(e.snap)

EditorSeen ==
  /\ SeenText(editor.text) /\ SeenText(editor.conflict)
  /\ SeenText(editor.base) /\ SeenText(editor.snap)

QueueSeen == \A i \in 1..Len(queue) : SeenText(queue[i].base)

JournalsSeen ==
  \A c \in Changes, d \in Docs : Readable(journals[c][d]) => SeenText(journals[c][d].base)

ShownOK ==
  /\ EditorSeen /\ QueueSeen /\ SeenText(job.cmd.base) /\ JournalsSeen /\ Ready(load.found)

\* The command knows the text it looked at, and writes a new file where none is.
SeenOK ==
  /\ job.at \in {"compare", "rename"} => job.seen = IF IsSave THEN job.cmd.base ELSE Base
  /\ job.at = "file" => Holds(job.change, job.doc) = Absent

\* Only other programs write foreign texts.
LEMMA OwnTexts ==
  /\ NoText \notin ForeignTexts /\ Base \notin ForeignTexts
  /\ NoCommand.base = NoText /\ NoJob.cmd = NoCommand
  /\ NoEditor.base = NoText /\ NoEditor.snap = NoText
  /\ NoEditor.text = NoText /\ NoEditor.conflict = NoText
  /\ Ready(NoEditor) /\ NoLoad.found = NoEditor
  <1>1. NoText \notin ForeignTexts /\ Base \notin ForeignTexts
    BY DEF NoText, Base, ForeignTexts, Text
  <1>. QED BY <1>1 DEF NoCommand, NoJob, NoEditor, NoLoad, Ready, SeenText

\* What an editor shows is seen.
LEMMA SetSeen ==
  ASSUME NEW e, SetEditor(e), Ready(e)
  PROVE  EditorSeen' /\ shown \subseteq shown'
  <1>1. shown \subseteq shown' /\ \A t \in ForeignTexts : t \in {e.text, e.conflict} => t \in shown'
    BY DEF SetEditor
  <1>2. editor' = e
    BY DEF SetEditor
  <1>. QED BY <1>1, <1>2 DEF Ready, EditorSeen, SeenText

LEMMA StillSeen ==
  ASSUME ShownOK, UNCHANGED editor, shown \subseteq shown'
  PROVE  EditorSeen'
  BY DEF ShownOK, EditorSeen, SeenText

\* The window puts only such editors on the screen.
Shows == UNCHANGED <<editor, shown>> \/ \E e : SetEditor(e) /\ Ready(e)

LEMMA ReadyEditors ==
  ASSUME EditorSeen, editor \in Editors
  PROVE  /\ Ready(editor) /\ Ready(CloseRequested(editor))
         /\ editor # NoEditor =>
              Ready(SaveQueued(editor)) /\ Ready(CloseRequested(SaveQueued(editor)))
         /\ editor.status = "saving" => Ready(Saved(editor))
  <1>1. Ready(editor)
    BY DEF Ready, EditorSeen
  <1>2. ASSUME NEW e \in Editors, Ready(e) PROVE Ready(CloseRequested(e))
    <2>1. [e EXCEPT !.closing = TRUE].base = e.base /\ [e EXCEPT !.closing = TRUE].snap = e.snap
          /\ [e EXCEPT !.closing = TRUE].text = e.text
          /\ [e EXCEPT !.closing = TRUE].conflict = e.conflict
      BY DEF Editors, NoEditor
    <2>. QED BY <1>2, <2>1, OwnTexts DEF CloseRequested, Ready
  <1>3. ASSUME editor # NoEditor PROVE Ready(SaveQueued(editor)) /\ SaveQueued(editor) \in Editors
    <2>1. /\ SaveQueued(editor).base = editor.base /\ SaveQueued(editor).snap = editor.text
          /\ SaveQueued(editor).text = editor.text
      BY <1>3 DEF SaveQueued, Editors
    <2>. QED BY <1>3, <2>1, EditorsTyped DEF Ready, EditorSeen
  <1>4. ASSUME editor.status = "saving" PROVE Ready(Saved(editor))
    <2>1. editor # NoEditor
      BY <1>4 DEF NoEditor
    <2>2. Saved(editor) = NoEditor \/ (Saved(editor).base = editor.snap /\ Saved(editor).snap = NoText)
      BY <2>1 DEF Saved, Editors
    <2>. QED BY <2>2, OwnTexts DEF Ready, SeenText, EditorSeen
  <1>. QED BY <1>1, <1>2, <1>3, <1>4

LEMMA WindowShows ==
  ASSUME TypeOK, ShownOK, WindowStep
  PROVE  Shows
  <1>1. editor \in Editors /\ EditorSeen /\ load.found \in Editors /\ Ready(load.found)
    BY DEF TypeOK, WindowTypeOK, Loads, ShownOK
  <1>2. ASSUME NEW e, SetEditor(e), e.base = editor.base, e.snap = editor.snap
        PROVE  Shows
    BY <1>1, <1>2 DEF Shows, Ready, EditorSeen
  <1>3. CASE Type
    <2>1. editor # NoEditor
      BY <1>3 DEF Type, EditorOpen
    <2>2. PICK t, status, conflict :
            SetEditor([editor EXCEPT !.text = t, !.status = status, !.conflict = conflict])
      BY <1>3 DEF Type
    <2>3. /\ [editor EXCEPT !.text = t, !.status = status, !.conflict = conflict].base
               = editor.base
          /\ [editor EXCEPT !.text = t, !.status = status, !.conflict = conflict].snap
               = editor.snap
      BY <1>1, <2>1 DEF Editors
    <2>. QED BY <1>2, <2>2, <2>3
  <1>4. CASE QueueSave \/ CloseEditor \/ AskAndFlush
    <2>1. editor.status = "dirty" => editor # NoEditor
      BY DEF NoEditor
    <2>. QED BY <1>1, <1>4, <2>1, ReadyEditors DEF QueueSave, CloseEditor, AskAndFlush, Shows
  <1>5. CASE SendSave
    <2>1. editor # NoEditor /\ SetEditor([editor EXCEPT !.status = "saving"])
      BY <1>5 DEF SendSave, NoEditor
    <2>2. /\ [editor EXCEPT !.status = "saving"].base = editor.base
          /\ [editor EXCEPT !.status = "saving"].snap = editor.snap
      BY <1>1, <2>1 DEF Editors
    <2>. QED BY <1>2, <2>1, <2>2
  <1>6. ASSUME NEW a \in answers, AnswerSave(a) PROVE Shows
    <2>1. CASE ~Heard(a) \/ a.result = "done"
      <3>1. Heard(a) /\ a.result = "done" => editor.status = "saving"
        BY DEF Heard
      <3>. QED BY <1>1, <1>6, <2>1, <3>1, ReadyEditors DEF AnswerSave, Shows
    <2>2. CASE Heard(a) /\ a.result # "done"
      <3>1. editor # NoEditor
        BY <2>2 DEF Heard, EditorOpen, NoEditor
      <3>2. \/ SetEditor([editor EXCEPT !.status = "error"])
            \/ SetEditor([editor EXCEPT !.status = "conflict", !.conflict = a.text])
        BY <1>6, <2>2 DEF AnswerSave
      <3>3. \A t : /\ [editor EXCEPT !.status = "error"].base = editor.base
                   /\ [editor EXCEPT !.status = "error"].snap = editor.snap
                   /\ [editor EXCEPT !.status = "conflict", !.conflict = t].base = editor.base
                   /\ [editor EXCEPT !.status = "conflict", !.conflict = t].snap = editor.snap
        BY <1>1, <3>1 DEF Editors
      <3>. QED BY <1>2, <3>2, <3>3
    <2>. QED BY <2>1, <2>2
  <1>7. CASE AcceptDisk \/ AcceptHub \/ StartMerge
    <2>. DEFINE disk == [editor EXCEPT !.text = editor.conflict, !.saved = editor.conflict,
                           !.base = editor.conflict, !.status = "dirty", !.snap = NoText,
                           !.conflict = NoText]
                hub == [editor EXCEPT !.base = editor.conflict, !.status = "dirty",
                          !.snap = NoText, !.conflict = NoText]
                merge == [editor EXCEPT !.base = editor.conflict, !.text = Merged]
    <2>1. editor # NoEditor
      BY <1>7 DEF AcceptDisk, AcceptHub, StartMerge, NoEditor
    <2>2. SetEditor(disk) \/ SetEditor(hub) \/ SetEditor(merge)
      BY <1>7 DEF AcceptDisk, AcceptHub, StartMerge
    <2>3. /\ disk.base = editor.conflict /\ disk.snap = NoText
          /\ hub.base = editor.conflict /\ hub.snap = NoText
          /\ merge.base = editor.conflict /\ merge.snap = editor.snap
      BY <1>1, <2>1 DEF Editors
    <2>. HIDE DEF disk, hub, merge
    <2>4. Ready(disk) /\ Ready(hub) /\ Ready(merge)
      BY <1>1, <2>3, OwnTexts DEF Ready, EditorSeen, SeenText
    <2>. QED BY <2>2, <2>4 DEF Shows
  <1>8. ASSUME NEW what \in Wishes, AskNow(what) \/ FlushEnds(what) PROVE Shows
    BY <1>1, <1>8, ReadyEditors DEF AskNow, FlushEnds, Proceed, Shows
  <1>9. ASSUME NEW a \in answers, AnswerRequest(a) PROVE Shows
    <2>1. \A c, d, t : Ready(Opened(c, d, t))
      BY OwnTexts DEF Opened, NoEditor, Ready, SeenText
    <2>. QED BY <1>9, <2>1, OwnTexts DEF AnswerRequest, Shows
  <1>10. CASE RecoveryArrives
    BY <1>1, <1>10 DEF RecoveryArrives, Shows
  <1>11. CASE \/ FlushFails \/ CreationChecked \/ LookForRecovery \/ ReadRecovery
              \/ \E d \in Docs : EditExisting(d)
    BY <1>11 DEF FlushFails, CreationChecked, LookForRecovery, ReadRecovery, EditExisting, Shows
  <1>. QED BY <1>3, <1>4, <1>5, <1>6, <1>7, <1>8, <1>9, <1>10, <1>11 DEF WindowStep

\* What is on the screen stays seen.
LEMMA ScreenSeen ==
  ASSUME ShownOK, Shows
  PROVE  EditorSeen' /\ shown \subseteq shown'
  BY SetSeen, StillSeen DEF Shows

\* The commands the window sends know the text the editor is based on, or none.
LEMMA SentSeen ==
  ASSUME TypeOK, ShownOK, WindowStep
  PROVE  /\ \A i \in 1..Len(queue') : queue'[i].base # NoText =>
              \/ i \in 1..Len(queue) /\ queue'[i].base = queue[i].base
              \/ queue'[i].base = editor.base
  <1>. DEFINE Known(q) == \A i \in 1..Len(q) : q[i].base # NoText =>
                            \/ i \in 1..Len(queue) /\ q[i].base = queue[i].base
                            \/ q[i].base = editor.base
  <1>0. queue \in Seq(Commands)
    BY DEF TypeOK, JobTypeOK
  <1>1. Known(queue)
    OBVIOUS
  <1>2. ASSUME NEW cmd, queue' = Append(queue, cmd), cmd.base \in {NoText, editor.base}
        PROVE  Known(queue')
    <2>1. \A i \in 1..Len(queue') : queue'[i] = IF i \in 1..Len(queue) THEN queue[i] ELSE cmd
      BY <1>0, <1>2
    <2>. QED BY <1>2, <2>1
  <1>3. ASSUME UNCHANGED queue PROVE Known(queue')
    BY <1>1, <1>3
  <1>. HIDE DEF Known
  <1>4. \A kind : /\ \A b : [Command(kind) EXCEPT !.separate = b].base = NoText
                  /\ \A c : [Command(kind) EXCEPT !.change = c].base = NoText
                  /\ \A d : [Command(kind) EXCEPT !.doc = d].base = NoText
    BY DEF Command, NoCommand
  <1>5. ASSUME SendSave PROVE Known(queue')
    <2>. DEFINE cmd == [Command("save") EXCEPT
                          !.change = editor.change, !.doc = editor.doc,
                          !.base = editor.base, !.text = editor.snap, !.mine = TRUE]
    <2>1. cmd.base = editor.base
      BY DEF Command, NoCommand
    <2>2. queue' = Append(queue, cmd)
      BY <1>5 DEF SendSave
    <2>. HIDE DEF cmd
    <2>. QED BY <1>2, <2>1, <2>2
  <1>6. ASSUME NEW what \in Wishes, AskNow(what) \/ FlushEnds(what) PROVE Known(queue')
    <2>1. Proceed(what)
      BY <1>6 DEF AskNow, FlushEnds
    <2>2. \/ UNCHANGED queue
          \/ \E b : queue' = Append(queue, [Command("copy") EXCEPT !.separate = b])
          \/ \E c : queue' = Append(queue, [Command("switch") EXCEPT !.change = c])
      BY <2>1 DEF Proceed, jobVars
    <2>. QED BY <1>2, <1>3, <1>4, <2>2
  <1>7. ASSUME CreationChecked PROVE Known(queue')
    <2>1. \/ UNCHANGED queue
          \/ \E b : queue' = Append(queue, [Command("create") EXCEPT !.separate = b])
      BY <1>7 DEF CreationChecked
    <2>. QED BY <1>2, <1>3, <1>4, <2>1
  <1>8. ASSUME NEW d \in Docs, EditExisting(d) PROVE Known(queue')
    <2>1. queue' = Append(queue, [Command("edit") EXCEPT !.doc = d])
      BY <1>8 DEF EditExisting
    <2>. QED BY <1>2, <1>4, <2>1
  <1>9. ASSUME NEW a \in answers, AnswerRequest(a) PROVE Known(queue')
    <2>1. CASE UNCHANGED queue
      BY <1>3, <2>1
    <2>2. CASE Restarted(a.kind # "copy")
      <3>1. \A i \in 1..Len(queue) : queue[i] \in Commands
        BY <1>0
      <3>2. DOMAIN queue = 1..Len(queue)
        BY <1>0
      <3>. DEFINE Marked(cmd) == [cmd EXCEPT !.stale = TRUE, !.mine = @ /\ ~(a.kind # "copy")]
      <3>3. queue' = [i \in DOMAIN queue |-> Marked(queue[i])]
        BY <2>2 DEF Restarted
      <3>4. \A cmd \in Commands : Marked(cmd).base = cmd.base
        BY DEF Commands
      <3>. HIDE DEF Marked
      <3>5. DOMAIN queue' = 1..Len(queue)
        BY <3>2, <3>3
      <3>6. Len(queue') = Len(queue)
        <4>1. queue' \in Seq(Commands)
          BY AnswersTyped, <1>9 DEF TypeOK, JobTypeOK
        <4>2. Len(queue') \in Nat /\ DOMAIN queue' = 1..Len(queue') /\ Len(queue) \in Nat
          BY <1>0, <4>1
        <4>. QED BY <3>5, <4>2
      <3>7. \A i \in 1..Len(queue) : queue'[i].base = queue[i].base
        BY <3>1, <3>2, <3>3, <3>4
      <3>. QED BY <3>6, <3>7 DEF Known
    <2>. QED BY <1>9, <2>1, <2>2 DEF AnswerRequest
  <1>10. ASSUME \/ Type \/ QueueSave \/ AcceptDisk \/ AcceptHub \/ StartMerge \/ CloseEditor
                \/ AskAndFlush \/ FlushFails \/ (\E a \in answers : AnswerSave(a))
                \/ LookForRecovery \/ ReadRecovery \/ RecoveryArrives
         PROVE  Known(queue')
    BY <1>3, <1>10 DEF Type, QueueSave, AcceptDisk, AcceptHub, StartMerge, CloseEditor,
       AskAndFlush, FlushFails, AnswerSave, LookForRecovery, ReadRecovery, RecoveryArrives,
       LoadFrame, ResolveFrame, jobVars
  <1>11. Known(queue')
    BY <1>5, <1>6, <1>7, <1>8, <1>9, <1>10 DEF WindowStep
  <1>. QED BY <1>11 DEF Known

\* A recovered editor shows the file; where it shows the journal instead, the file still
\* has the text the journal is based on.
LEMMA LoadReady ==
  ASSUME TypeOK, ShownOK, WindowStep
  PROVE  load'.found = load.found \/ Ready(load'.found)
  <1>1. load \in Loads /\ Ready(load.found)
    BY DEF TypeOK, WindowTypeOK, ShownOK
  <1>2. Ready(NoLoad.found) /\ Ready(Ended.found)
    BY OwnTexts DEF Ended, NoLoad
  <1>3. CASE LookForRecovery
    <2>1. load' = Ended \/ load'.found = load.found
      BY <1>1, <1>3 DEF LookForRecovery, Loads
    <2>. QED BY <1>2, <2>1
  <1>4. CASE ReadRecovery
    <2>. DEFINE c == load.change
                d == load.doc
    <2>1. CASE ~Recoverable(c, d)
      BY <1>2, <1>4, <2>1 DEF ReadRecovery
    <2>2. CASE Recoverable(c, d)
      <3>1. load'.found = Recovered(c, d)
        BY <1>1, <1>4, <2>2 DEF ReadRecovery, Loads
      <3>2. c \in Changes /\ d \in Docs
        BY <2>2, ReadableFiles DEF Recoverable, Lists, TypeOK, DiskTypeOK, Records
      <3>3. CASE ~load.journal
        BY <3>1, <3>3, OwnTexts DEF Recovered, Opened, NoEditor, Ready, SeenText
      <3>4. CASE load.journal
        <4>1. SeenText(journals[c][d].base)
          BY <2>2, <3>2, <3>4 DEF Recoverable, ShownOK, JournalsSeen
        <4>2. /\ Recovered(c, d).base = Holds(c, d) /\ Recovered(c, d).snap = NoText
              /\ Holds(c, d) # journals[c][d].base => Recovered(c, d).conflict = Holds(c, d)
          BY <3>4 DEF Recovered, Opened, NoEditor
        <4>. QED BY <3>1, <4>1, <4>2, OwnTexts DEF Ready, SeenText
      <3>. QED BY <3>3, <3>4
    <2>. QED BY <2>1, <2>2
  <1>5. CASE RecoveryArrives
    BY <1>2, <1>5 DEF RecoveryArrives
  <1>6. ASSUME NEW a \in answers, AnswerRequest(a)
        PROVE  load'.found = load.found \/ Ready(load'.found)
    BY <1>2, <1>6 DEF AnswerRequest, Restarted
  <1>7. CASE \/ Type \/ QueueSave \/ SendSave \/ AcceptDisk \/ AcceptHub \/ StartMerge
             \/ CloseEditor \/ AskAndFlush \/ FlushFails \/ CreationChecked
             \/ (\E a \in answers : AnswerSave(a)) \/ \E d \in Docs : EditExisting(d)
    BY <1>7 DEF Type, QueueSave, SendSave, AcceptDisk, AcceptHub, StartMerge, CloseEditor,
       AskAndFlush, FlushFails, CreationChecked, AnswerSave, EditExisting, ResolveFrame
  <1>8. ASSUME NEW what \in Wishes, AskNow(what) \/ FlushEnds(what)
        PROVE  load'.found = load.found
    BY <1>8 DEF AskNow, FlushEnds, Proceed
  <1>. QED BY <1>3, <1>4, <1>5, <1>6, <1>7, <1>8 DEF WindowStep

\* The window's steps.
LEMMA WindowShown ==
  ASSUME TypeOK, ShownOK, SeenOK, WindowStep
  PROVE  ShownOK' /\ SeenOK'
  <1>1. EditorSeen' /\ shown \subseteq shown'
    BY WindowShows, ScreenSeen
  <1>2. UNCHANGED diskVars /\ JobSame
    BY WindowLeaves
  <1>3. \A t : SeenText(t) => SeenText(t)'
    BY <1>1 DEF SeenText
  <1>4. SeenText(editor.base) /\ SeenText(job.cmd.base) /\ Ready(load.found)
        /\ \A i \in 1..Len(queue) : SeenText(queue[i].base)
    BY DEF ShownOK, EditorSeen, QueueSeen
  <1>5. QueueSeen'
    BY <1>1, <1>4, SentSeen, OwnTexts DEF QueueSeen, SeenText
  <1>6. job'.cmd.base = job.cmd.base
    BY <1>2, MarkedFields
  <1>7. SeenText(job.cmd.base)'
    BY <1>1, <1>4, <1>6 DEF SeenText
  <1>8. JournalsSeen'
    BY <1>1, <1>2 DEF ShownOK, JournalsSeen, SeenText, Readable, diskVars
  <1>9. Ready(load.found)'
    BY <1>1, <1>4, LoadReady DEF Ready, SeenText
  <1>10. SeenOK'
    BY <1>2, MarkedFields DEF SeenOK, IsSave, Holds, diskVars
  <1>. QED BY <1>1, <1>5, <1>7, <1>8, <1>9, <1>10 DEF ShownOK

\* The commands change the journal of their document only: to what they know, or to
\* nothing.
LEMMA JournalMoves ==
  ASSUME TypeOK, JobStep
  PROVE  \A c \in Changes, d \in Docs :
           \/ journals'[c][d] = journals[c][d]
           \/ Readable(journals'[c][d]) => journals'[c][d].base = job.cmd.base
  <1>1. journals \in [Changes -> [Docs -> Entries \cup {Absent, Torn}]]
    BY DEF TypeOK, DiskTypeOK
  <1>2. ASSUME NEW entry \in {Entry(job.cmd), Absent, Torn, journals[job.change][job.doc]},
               journals' = [journals EXCEPT ![job.change][job.doc] = entry],
               NEW c \in Changes, NEW d \in Docs
        PROVE  \/ journals'[c][d] = journals[c][d]
               \/ Readable(journals'[c][d]) => journals'[c][d].base = job.cmd.base
    <2>1. journals'[c][d] \in {journals[c][d], entry}
      BY <1>1, <1>2
    <2>2. CASE c = job.change /\ d = job.doc
      BY <1>2, <2>1, <2>2 DEF Entry, Readable
    <2>3. CASE ~(c = job.change /\ d = job.doc)
      BY <1>1, <1>2, <2>3
    <2>. QED BY <2>2, <2>3
  <1>3. ASSUME WriteJournal
        PROVE  \/ UNCHANGED journals
               \/ \E entry \in {Entry(job.cmd), Absent, Torn, journals[job.change][job.doc]} :
                    journals' = [journals EXCEPT ![job.change][job.doc] = entry]
    BY <1>3 DEF WriteJournal, LeftBy, JournalAfter
  <1>4. ASSUME RemoveJournal
        PROVE  \/ UNCHANGED journals
               \/ journals' = [journals EXCEPT ![job.change][job.doc] = Absent]
    BY <1>4 DEF RemoveJournal
  <1>5. ASSUME ~WriteJournal, ~RemoveJournal PROVE UNCHANGED journals
    BY <1>5 DEF JobStep, MakeWorktree, RecordChange, SetActive, AddNewDocument,
           AddExistingDocument, AddTemplate, CreateFile, Unlist, TouchRecord,
           CompareFile, RenameFile, CloseActive, diskVars
  <1>. QED BY <1>2, <1>3, <1>4, <1>5

\* The commands' steps.
LEMMA JobShown ==
  ASSUME TypeOK, ShownOK, JobStep
  PROVE  ShownOK'
  <1>1. UNCHANGED <<queue, editor, load, shown>>
    BY JobShape DEF StepFrame, JobFrame, windowVars
  <1>2. job'.cmd.base \in {job.cmd.base, NoText}
    BY JobShape, OwnTexts DEF JobEnds, JobGoesOn, Answer
  <1>3. SeenText(job.cmd.base)'
    BY <1>1, <1>2, OwnTexts DEF ShownOK, SeenText
  <1>4. JournalsSeen'
    BY <1>1, JournalMoves DEF ShownOK, JournalsSeen, SeenText
  <1>. QED BY <1>1, <1>3, <1>4 DEF ShownOK, EditorSeen, QueueSeen, Ready, SeenText

\* A command that begins is one of the queue.
LEMMA BeginShown ==
  ASSUME TypeOK, ShownOK, Begin
  PROVE  ShownOK' /\ SeenOK'
  <1>1. UNCHANGED <<journals, editor, load, shown>> /\ queue' = Tail(queue) /\ queue # <<>>
    BY DEF Begin, JobFrame, windowVars, diskVars
  <1>2. queue \in Seq(Commands)
    BY DEF TypeOK, JobTypeOK
  <1>3. Len(queue) \in Nat \ {0} /\ Len(queue') = Len(queue) - 1
    BY <1>1, <1>2
  <1>4. /\ Head(queue) = queue[1] /\ 1 \in 1..Len(queue)
        /\ \A i \in 1..Len(queue') : i + 1 \in 1..Len(queue) /\ queue'[i] = queue[i + 1]
    BY <1>1, <1>2, <1>3, HeadTailProperties
  <1>5. QueueSeen'
    BY <1>1, <1>4 DEF ShownOK, QueueSeen, SeenText
  <1>6. job = NoJob
    BY DEF Begin
  <1>7. \/ job' = job
        \/ job'.cmd = Head(queue) /\ job'.at \notin {"file", "compare", "rename"}
    BY ZenonT(60) DEF Begin, FirstStep, NoJob
  <1>8. SeenText(job.cmd.base)'
    BY <1>1, <1>4, <1>7 DEF ShownOK, QueueSeen, SeenText
  <1>9. SeenOK'
    BY <1>6, <1>7 DEF SeenOK, NoJob
  <1>. QED BY <1>1, <1>5, <1>8, <1>9 DEF ShownOK, EditorSeen, Ready, SeenText, JournalsSeen

\* A command that goes to a file knows the text it has seen there.
LEMMA JobSeen ==
  ASSUME DraftsInv, SeenOK, JobStep
  PROVE  SeenOK'
  <1>1. TypeOK /\ job \in Jobs /\ job.cmd \in Commands
    BY DEF DraftsInv, TypeOK, JobTypeOK, Jobs
  <1>2. ASSUME job'.at \notin {"file", "compare", "rename"} PROVE SeenOK'
    BY <1>2 DEF SeenOK
  <1>3. ASSUME JobEnds PROVE SeenOK'
    BY <1>2, <1>3 DEF JobEnds, Answer, NoJob
  <1>4. ASSUME NEW at \in Places \ {"none", "file", "compare", "rename"}, Goto(at)
        PROVE  SeenOK'
    <2>1. job'.at = at
      BY <1>1, <1>4 DEF Goto, Jobs
    <2>. QED BY <1>2, <1>4, <2>1
  <1>5. ASSUME NEW recs, FailWith(recs) PROVE SeenOK'
    BY <1>3, <1>5, FinishEnds DEF FailWith
  <1>6. ASSUME NotReplaced PROVE SeenOK'
    BY <1>3, <1>4, <1>6, FinishEnds DEF NotReplaced, Places
  <1>7. ASSUME MakeWorktree PROVE SeenOK'
    <2>1. ASSUME NEW c, job' = [job EXCEPT !.at = "record", !.change = c, !.made = TRUE]
          PROVE  job'.at = "record"
      BY <1>1, <2>1 DEF Jobs
    <2>. QED BY <1>2, <1>3, <1>7, <2>1, FinishEnds DEF MakeWorktree
  <1>8. ASSUME RecordChange \/ SetActive \/ RemoveJournal \/ CloseActive PROVE SeenOK'
    BY <1>3, <1>4, <1>8, FinishEnds DEF RecordChange, SetActive, RemoveJournal, CloseActive, Places
  <1>9. ASSUME NEW d, job.cmd.kind # "save", ListDocument(d) PROVE SeenOK'
    <2>. DEFINE text == Holds(job.change, d)
                at == IF text = Absent THEN "file" ELSE "compare"
    <2>1. ASSUME UNCHANGED trees, text \in {Absent, Base},
                 job' = [job EXCEPT !.at = at, !.doc = d, !.seen = text,
                                    !.before = records[job.change]]
          PROVE  SeenOK'
      <3>1. /\ job'.at = at /\ job'.doc = d /\ job'.seen = text
            /\ job'.cmd = job.cmd /\ job'.change = job.change
        BY <1>1, <2>1 DEF Jobs
      <3>2. Holds(job.change, job.doc)' = text
        BY <2>1, <3>1 DEF Holds
      <3>. QED BY <1>9, <2>1, <3>1, <3>2, TextsTyped DEF SeenOK, IsSave
    <2>. QED BY <1>3, <1>5, <1>9, <2>1, FinishEnds DEF ListDocument
  <1>10. ASSUME AddNewDocument \/ AddExistingDocument \/ AddTemplate PROVE SeenOK'
    BY <1>3, <1>5, <1>9, <1>10, FinishEnds DEF AddNewDocument, AddExistingDocument, AddTemplate
  <1>11. ASSUME CreateFile \/ Unlist PROVE SeenOK'
    BY <1>3, <1>4, <1>5, <1>11, FinishEnds DEF CreateFile, Unlist, Places
  <1>12. ASSUME TouchRecord PROVE SeenOK'
    BY <1>3, <1>4, <1>12, FinishEnds DEF TouchRecord, Places
  <1>13. ASSUME NEW at \in {"compare", "rename"}, NEW seen,
                job' = [job EXCEPT !.at = at, !.seen = seen],
                seen = IF IsSave THEN job.cmd.base ELSE Base
         PROVE  SeenOK'
    <2>1. job'.at = at /\ job'.seen = seen /\ job'.cmd = job.cmd
      BY <1>1, <1>13 DEF Jobs
    <2>. QED BY <1>13, <2>1 DEF SeenOK, IsSave
  <1>14. ASSUME WriteJournal PROVE SeenOK'
    <2>1. IsSave
      BY <1>14 DEF WriteJournal, DraftsInv, JobOK, SavingOK, Saving
    <2>. QED BY <1>3, <1>13, <1>14, <2>1, FinishEnds DEF WriteJournal
  <1>15. ASSUME CompareFile PROVE SeenOK'
    <2>1. job.seen = IF IsSave THEN job.cmd.base ELSE Base
      BY <1>15 DEF CompareFile, SeenOK
    <2>. QED BY <1>3, <1>4, <1>6, <1>13, <1>15, <2>1, FinishEnds
         DEF CompareFile, MayReplace, Places
  <1>16. ASSUME RenameFile PROVE SeenOK'
    BY <1>3, <1>4, <1>6, <1>16, FinishEnds DEF RenameFile, Places
  <1>. QED BY <1>7, <1>8, <1>10, <1>11, <1>12, <1>14, <1>15, <1>16 DEF JobStep

\* Another program writes into one file that is there.
LEMMA ForeignMoves ==
  ASSUME TypeOK, NEW c \in Changes, NEW d \in Docs, ForeignWrite(c, d)
  PROVE  /\ UNCHANGED <<active, records, journals, jobVars, windowVars, faults, ends, late>>
         /\ foreign' = foreign + 1 /\ Holds(c, d) \in Texts
         /\ Holds(c, d)' \in ForeignTexts
         /\ \A x \in Changes, e \in Docs : x # c \/ e # d => Holds(x, e)' = Holds(x, e)
  <1>. DEFINE text == Text("foreign", foreign + 1)
  <1>1. /\ UNCHANGED <<active, records, journals, jobVars, windowVars, faults, ends, late>>
        /\ foreign' = foreign + 1 /\ Holds(c, d) \in Texts
        /\ foreign < MaxForeign /\ trees' = [trees EXCEPT ![c][d] = text]
    BY DEF ForeignWrite
  <1>2. text \in ForeignTexts
    <2>1. foreign + 1 \in 1..MaxForeign
      BY <1>1, BoundsNatural DEF TypeOK, BoundsTypeOK
    <2>. QED BY <2>1 DEF ForeignTexts
  <1>. HIDE DEF text
  <1>3. trees[c] # Absent /\ trees[c] \in [Docs -> Contents]
    <2>1. trees[c] # Absent
      BY <1>1, TextsTyped DEF Holds
    <2>. QED BY <2>1 DEF TypeOK, DiskTypeOK, Worktrees
  <1>4. trees'[c] = [trees[c] EXCEPT ![d] = text] /\ \A x \in Changes \ {c} : trees'[x] = trees[x]
    BY <1>1, <1>3 DEF TypeOK, DiskTypeOK
  <1>5. trees'[c] \in Worktrees
    BY <1>2, <1>3, <1>4, TextsTyped DEF Worktrees, Contents
  <1>6. trees'[c] # Absent /\ trees'[c][d] = text /\ \A e \in Docs \ {d} : trees'[c][e] = trees[c][e]
    BY <1>3, <1>4, <1>5, ReadableFiles
  <1>7. Holds(c, d)' = text
    BY <1>6 DEF Holds
  <1>8. \A x \in Changes, e \in Docs : x # c \/ e # d => Holds(x, e)' = Holds(x, e)
    BY <1>3, <1>4, <1>6 DEF Holds
  <1>. QED BY <1>1, <1>2, <1>7, <1>8

LEMMA ForeignShown ==
  ASSUME DraftsInv, ShownOK, SeenOK, NEW c \in Changes, NEW d \in Docs, ForeignWrite(c, d)
  PROVE  ShownOK' /\ SeenOK'
  <1>1. /\ UNCHANGED <<journals, queue, job, editor, load, shown>>
        /\ Holds(c, d) \in Texts
        /\ \A x \in Changes, e \in Docs : x # c \/ e # d => Holds(x, e)' = Holds(x, e)
    BY ForeignMoves DEF jobVars, windowVars, DraftsInv
  <1>2. ShownOK'
    BY <1>1 DEF ShownOK, EditorSeen, QueueSeen, JournalsSeen, Ready, SeenText
  <1>3. job.at = "file" => job.change \in Changes /\ job.doc \in Docs
    BY DEF DraftsInv, JobOK, PlacingOK, Placing
  <1>4. job.at = "file" => Holds(job.change, job.doc)' = Holds(job.change, job.doc)
    <2>1. job.at = "file" => ~(job.change = c /\ job.doc = d)
      BY <1>1, TextsTyped DEF SeenOK, Kept
    <2>2. job.at = "file" =>
            (IF trees'[job.change] = Absent THEN Absent ELSE trees'[job.change][job.doc])
              = Holds(job.change, job.doc)
      BY <1>1, <1>3, <2>1 DEF Holds
    <2>. QED BY <1>1, <2>2 DEF Holds
  <1>5. SeenOK'
    BY <1>1, <1>4 DEF SeenOK, IsSave
  <1>. QED BY <1>2, <1>5

\* After an end the application knows nothing.
LEMMA StartShown ==
  ASSUME TypeOK, ShownOK, Crash \/ Quit
  PROVE  ShownOK' /\ SeenOK'
  <1>1. AppStarts
    BY DEF Crash, Quit
  <1>2. EditorSeen' /\ Ready(load.found)'
    BY <1>1, OwnTexts DEF AppStarts, EditorSeen, Ready, SeenText
  <1>3. QueueSeen'
    BY <1>1 DEF AppStarts, QueueSeen
  <1>4. SeenText(job.cmd.base)' /\ SeenOK'
    BY <1>1, OwnTexts DEF AppStarts, SeenText, SeenOK, NoJob
  <1>5. \A c \in Changes, d \in Docs :
          journals'[c][d] = journals[c][d] \/ ~Readable(journals'[c][d])
    BY SMTT(30) DEF Crash, Quit, TornWrite, diskVars, TypeOK, DiskTypeOK, Readable
  <1>6. JournalsSeen'
    BY <1>1, <1>5 DEF ShownOK, JournalsSeen, SeenText, AppStarts
  <1>. QED BY <1>2, <1>3, <1>4, <1>6 DEF ShownOK

\* What the window has shown, and what the command has seen, is an invariant.
LEMMA ShownKept ==
  ASSUME DraftsInv, ShownOK, SeenOK, [Next]_vars
  PROVE  ShownOK' /\ SeenOK'
  <1>1. TypeOK
    BY DEF DraftsInv
  <1>2. CASE UNCHANGED vars
    <2>1. UNCHANGED <<journals, trees, queue, job, editor, load, shown>>
      BY <1>2 DEF vars, diskVars, jobVars, windowVars
    <2>2. ShownOK'
      BY <2>1 DEF ShownOK, EditorSeen, QueueSeen, JournalsSeen, Ready, SeenText
    <2>3. SeenOK'
      BY <2>1 DEF SeenOK, IsSave, Holds
    <2>. QED BY <2>2, <2>3
  <1>. QED BY <1>1, <1>2, StepKinds, WindowShown, JobShown, JobSeen, BeginShown, StartShown, ForeignShown

LEMMA InitShown == Init => ShownOK /\ SeenOK
  BY OwnTexts
  DEF Init, ShownOK, EditorSeen, QueueSeen, JournalsSeen, SeenText, Readable, SeenOK, NoJob

\* A command takes a worktree away, makes a file where there was none, or replaces the
\* file it has compared.
LEMMA FileMoves ==
  ASSUME DraftsInv, SeenOK, JobStep, NEW c \in Changes, NEW d \in Docs
  PROVE  \/ Holds(c, d)' = Holds(c, d) \/ trees'[c] = Absent \/ Holds(c, d) = Absent
         \/ job.at = "rename" /\ job.change = c /\ job.doc = d
  <1>. DEFINE Right == \/ Holds(c, d)' = Holds(c, d) \/ trees'[c] = Absent
                       \/ Holds(c, d) = Absent
                       \/ job.at = "rename" /\ job.change = c /\ job.doc = d
  <1>1. trees \in [Changes -> Worktrees \cup {Absent}]
    BY DEF DraftsInv, TypeOK, DiskTypeOK
  <1>2. ASSUME UNCHANGED trees PROVE Right
    BY <1>2 DEF Holds
  <1>3. ASSUME NEW x, trees' = [trees EXCEPT ![x] = Absent] PROVE Right
    <2>1. trees'[c] \in {Absent, trees[c]}
      BY <1>1, <1>3
    <2>. QED BY <2>1 DEF Holds
  <1>4. ASSUME NEW recs, FailWith(recs) PROVE Right
    BY <1>2, <1>3, <1>4 DEF FailWith
  <1>5. ASSUME NEW text, trees' = [trees EXCEPT ![job.change][job.doc] = text],
               c # job.change \/ d # job.doc
        PROVE  Right
    <2>1. CASE c # job.change
      <3>1. trees'[c] = trees[c]
        BY <1>1, <1>5, <2>1
      <3>. QED BY <3>1 DEF Holds
    <2>2. CASE c = job.change /\ d # job.doc
      <3>1. trees'[c] = [trees[c] EXCEPT ![job.doc] = text]
        BY <1>1, <1>5, <2>2
      <3>2. trees[c] # Absent => trees[c] \in [Docs -> Contents]
        BY <1>1 DEF Worktrees
      <3>3. trees[c] # Absent => trees'[c][d] = trees[c][d]
        BY <2>2, <3>1, <3>2
      <3>. QED BY <3>3 DEF Holds
    <2>. QED BY <1>5, <2>1, <2>2
  <1>6. ASSUME MakeWorktree PROVE Right
    <2>1. ASSUME NEW fresh, trees[fresh] = Absent,
                 trees' = [trees EXCEPT ![fresh] = Worktree]
          PROVE  Right
      <3>1. c # fresh => trees'[c] = trees[c]
        BY <1>1, <2>1
      <3>. QED BY <2>1, <3>1 DEF Holds
    <2>. QED BY <1>2, <1>6, <2>1 DEF MakeWorktree
  <1>7. ASSUME RecordChange \/ SetActive PROVE Right
    BY <1>2, <1>3, <1>7 DEF RecordChange, SetActive, RolledBack
  <1>8. ASSUME AddNewDocument \/ AddExistingDocument \/ AddTemplate PROVE Right
    BY <1>2, <1>4, <1>8 DEF AddNewDocument, AddExistingDocument, AddTemplate, ListDocument
  <1>9. ASSUME CreateFile PROVE Right
    <2>1. PICK text : trees' = [trees EXCEPT ![job.change][job.doc] = text]
      BY <1>9 DEF CreateFile
    <2>2. c = job.change /\ d = job.doc => Holds(c, d) = Absent
      BY <1>9 DEF CreateFile, SeenOK
    <2>. QED BY <1>5, <2>1, <2>2
  <1>10. ASSUME RenameFile PROVE Right
    <2>1. PICK text : trees' = [trees EXCEPT ![job.change][job.doc] = text]
      BY <1>10 DEF RenameFile
    <2>. QED BY <1>5, <1>10, <2>1 DEF RenameFile
  <1>11. ASSUME Unlist PROVE Right
    BY <1>4, <1>11 DEF Unlist
  <1>12. ASSUME TouchRecord \/ WriteJournal \/ CompareFile \/ RemoveJournal \/ CloseActive
         PROVE  Right
    BY <1>2, <1>12 DEF TouchRecord, WriteJournal, CompareFile, RemoveJournal, CloseActive, diskVars
  <1>. QED BY <1>6, <1>7, <1>8, <1>9, <1>10, <1>11, <1>12 DEF JobStep

\* A write that the end of the application cuts off makes a file where there was none.
LEMMA EndMoves ==
  ASSUME DraftsInv, SeenOK, Crash \/ Quit, NEW c \in Changes, NEW d \in Docs
  PROVE  Holds(c, d)' = Holds(c, d) \/ Holds(c, d) = Absent
  <1>1. CASE UNCHANGED trees
    BY <1>1 DEF Holds
  <1>2. CASE job.at = "file" /\ trees' = [trees EXCEPT ![job.change][job.doc] = Torn]
    <2>1. trees \in [Changes -> Worktrees \cup {Absent}]
      BY DEF DraftsInv, TypeOK, DiskTypeOK
    <2>2. trees[job.change] # Absent /\ job.change \in Changes
      BY <1>2 DEF DraftsInv, JobOK, MadeOK, PlacingOK, Placing
    <2>3. CASE c # job.change
      <3>1. trees'[c] = trees[c]
        BY <1>2, <2>1, <2>3
      <3>. QED BY <3>1 DEF Holds
    <2>4. CASE c = job.change /\ d # job.doc
      <3>1. trees[c] \in [Docs -> Contents]
        BY <2>1, <2>2, <2>4 DEF Worktrees
      <3>2. trees'[c] = [trees[c] EXCEPT ![job.doc] = Torn]
        BY <1>2, <2>1, <2>4
      <3>3. trees'[c] \in Worktrees /\ trees'[c][d] = trees[c][d]
        BY <2>4, <3>1, <3>2, TextsTyped DEF Worktrees, Contents
      <3>. QED BY <2>2, <2>4, <3>3, ReadableFiles DEF Holds
    <2>5. CASE c = job.change /\ d = job.doc
      BY <1>2, <2>5 DEF SeenOK
    <2>. QED BY <2>3, <2>4, <2>5
  <1>. QED BY <1>1, <1>2 DEF Crash, Quit, TornWrite, diskVars

\* What another program wrote into a document is replaced by the application only after
\* the window has shown it (DraftManager::save_document and atomic_replace_if_hash check
\* the hash of what the window knows); except between the comparison and the rename.
THEOREM ForeignTextIsShown == Spec => ForeignTextShown
  <1>. DEFINE Known == DraftsInv /\ ShownOK /\ SeenOK
              Replaced(c, d) == LET old == Holds(c, d)
                                IN /\ old \in ForeignTexts
                                   /\ trees'[c] # Absent /\ trees'[c][d] # old
                                   /\ foreign' = foreign
              Excuse(c, d) == LET old == Holds(c, d)
                              IN old \in shown \/ (job.at = "rename" /\ job.seen # old)
  <1>1. Init => Known
    BY InitTyped, InitShown
  <1>2. Known /\ [Next]_vars => Known'
    BY StepKept, ShownKept
  <1>3. ASSUME Known, Next, NEW c \in Changes, NEW d \in Docs, Replaced(c, d)
        PROVE  Excuse(c, d)
    <2>. DEFINE old == Holds(c, d)
    <2>1. /\ TypeOK /\ old \in ForeignTexts /\ old # Absent /\ foreign' = foreign
          /\ trees'[c] # Absent /\ Holds(c, d)' # old
      BY <1>3, TextsTyped DEF DraftsInv, Holds
    <2>2. CASE WindowStep \/ Begin
      <3>1. UNCHANGED trees
        BY <2>1, <2>2, WindowLeaves DEF Begin, diskVars
      <3>. QED BY <2>1, <3>1 DEF Holds
    <2>3. CASE JobStep
      <3>1. job.at = "rename" /\ job.change = c /\ job.doc = d
        BY <1>3, <2>1, <2>3, FileMoves
      <3>2. job.seen = IF IsSave THEN job.cmd.base ELSE Base
        BY <1>3, <3>1 DEF SeenOK
      <3>3. job.seen \in ForeignTexts => job.seen \in shown
        BY <1>3, <3>2, OwnTexts DEF ShownOK, SeenText
      <3>. QED BY <2>1, <3>1, <3>3
    <2>4. CASE Crash \/ Quit
      BY <1>3, <2>1, <2>4, EndMoves
    <2>5. CASE \E x \in Changes, e \in Docs : ForeignWrite(x, e)
      <3>1. foreign' = foreign + 1 /\ foreign \in Nat
        BY <2>1, <2>5, ForeignMoves, BoundsNatural DEF TypeOK, BoundsTypeOK
      <3>. QED BY <2>1, <3>1
    <2>. QED BY <1>3, <2>2, <2>3, <2>4, <2>5, StepKinds
  <1>4. Known /\ [Next]_vars =>
          [\A c \in Changes, d \in Docs :
             LET old == Holds(c, d)
             IN /\ old \in ForeignTexts
                /\ trees'[c] # Absent /\ trees'[c][d] # old
                /\ foreign' = foreign
                => old \in shown \/ (job.at = "rename" /\ job.seen # old)]_vars
    BY <1>3
  <1>. QED BY <1>1, <1>2, <1>4, PTL DEF Spec, ForeignTextShown

-----------------------------------------------------------------------------
(***************************************************************************)
(* Records and files.  A document is listed before its file is written; a  *)
(* failure takes the listing back.                                         *)
(***************************************************************************)
Excused == ends > 0 \/ faults > 1 \/ late
Dangling(c, d) == Lists(c, d) /\ Holds(c, d) = Absent

\* Only the document that is being placed may be without its file, and only where the
\* record did not list it before, so that taking the listing back is enough.
Placed(c, d) ==
  /\ job.change = c /\ job.doc = d /\ d \notin job.before.docs
  /\ job.at = "file" \/ (job.at = "unlist" /\ faults = 1)

DanglingOK == Excused \/ \A c \in Changes, d \in Docs : Dangling(c, d) => Placed(c, d)

\* Where there is no excuse yet there was none before: no end, no late write, and at most
\* one fault, this one or none.
LEMMA ExcusesStay ==
  ASSUME TypeOK, [Next]_vars, ~Excused'
  PROVE  /\ ~Excused /\ UNCHANGED ends /\ faults \in Nat /\ faults' \in 0..1
         /\ UNCHANGED faults \/ faults' = faults + 1
  <1>1. ends \in Nat /\ faults \in Nat /\ late \in BOOLEAN
    BY DEF TypeOK, BoundsTypeOK
  <1>2. \/ UNCHANGED <<ends, faults, late>>
        \/ ends' = ends + 1
        \/ UNCHANGED ends /\ faults' = faults + 1 /\ (late => late')
    <2>1. CASE WindowStep \/ \E c \in Changes, d \in Docs : ForeignWrite(c, d)
      BY <2>1, WindowLeaves, ForeignMoves
    <2>2. CASE Crash \/ Quit
      BY <2>2 DEF Crash, Quit
    <2>3. ASSUME StepFrame
          PROVE  \/ UNCHANGED <<ends, faults, late>>
                 \/ UNCHANGED ends /\ faults' = faults + 1 /\ (late => late')
      BY <2>3 DEF StepFrame, JobFrame, NoFault, Fault
    <2>4. CASE JobStep
      BY <2>3, <2>4, JobShape
    <2>5. CASE Begin
      <3>1. StepFrame
        BY <2>5 DEF Begin, StepFrame
      <3>. QED BY <2>3, <3>1
    <2>6. CASE UNCHANGED vars
      BY <2>6 DEF vars, boundVars
    <2>. QED BY <2>1, <2>2, <2>4, <2>5, <2>6, StepKinds
  <1>. QED BY <1>1, <1>2 DEF Excused

\* Where nothing is listed or taken away, nothing new is without its file.
LEMMA NothingDangles ==
  ASSUME NEW c \in Changes, NEW d \in Docs, Dangling(c, d)',
         Lists(c, d)' => Lists(c, d), Holds(c, d)' = Absent => Holds(c, d) = Absent
  PROVE  Dangling(c, d)
  BY DEF Dangling

\* A failing command, with its record as it leaves it, makes no document lose its file.
LEMMA FailureDangles ==
  ASSUME TypeOK, NEW recs \in [Changes -> Records \cup {Absent, Torn}], FailWith(recs),
         NEW c \in Changes, NEW d \in Docs, Dangling(c, d)'
  PROVE  /\ Readable(recs[c]) /\ d \in recs[c].docs
         /\ Holds(c, d) = Absent
  <1>. DEFINE discards == job.made /\ Readable(recs[job.change]) /\ recs[job.change].docs = {}
  <1>1. IF discards
        THEN /\ records' = [recs EXCEPT ![job.change] = Absent]
             /\ trees' = [trees EXCEPT ![job.change] = Absent]
        ELSE records' = recs /\ UNCHANGED trees
    BY DEF FailWith
  <1>. HIDE DEF discards
  <1>2. Readable(records'[c]) /\ d \in records'[c].docs /\ Holds(c, d)' = Absent
    BY DEF Dangling, Lists, Readable
  <1>3. ASSUME discards, c = job.change PROVE FALSE
    <2>1. records'[c] = Absent
      BY <1>1, <1>3
    <2>. QED BY <1>2, <2>1 DEF Readable
  <1>4. trees'[c] = trees[c] /\ records'[c] = recs[c]
    BY <1>1, <1>3 DEF TypeOK, DiskTypeOK
  <1>. QED BY <1>2, <1>4 DEF Holds

\* Writing one file leaves the others.
LEMMA FileSet ==
  ASSUME TypeOK, NEW x \in Changes, NEW e \in Docs, NEW text \in Contents,
         trees[x] # Absent, trees' = [trees EXCEPT ![x][e] = text],
         NEW c \in Changes, NEW d \in Docs
  PROVE  Holds(c, d)' = IF c = x /\ d = e THEN text ELSE Holds(c, d)
  <1>1. trees[x] \in [Docs -> Contents] /\ trees'[x] = [trees[x] EXCEPT ![e] = text]
    BY DEF TypeOK, DiskTypeOK, Worktrees
  <1>2. c # x => trees'[c] = trees[c]
    BY DEF TypeOK, DiskTypeOK
  <1>3. trees'[x] # Absent
    <2>1. trees'[x] \in Worktrees
      BY <1>1 DEF Worktrees
    <2>. QED BY <2>1, ReadableFiles
  <1>4. c = x => trees'[c][d] = IF d = e THEN text ELSE trees[c][d]
    BY <1>1
  <1>. QED BY <1>2, <1>3, <1>4 DEF Holds

\* Before a document is placed, and after, every listed document has its file.
LEMMA JobDangling ==
  ASSUME DraftsInv, SeenOK, DanglingOK, JobStep, ~Excused', ~Excused,
         faults \in Nat, faults' \in 0..1, UNCHANGED faults \/ faults' = faults + 1,
         NEW c \in Changes, NEW d \in Docs, Dangling(c, d)'
  PROVE  Placed(c, d)'
  <1>. DEFINE j == job.change
  <1>1. /\ TypeOK /\ job \in Jobs
        /\ records \in [Changes -> Records \cup {Absent, Torn}]
        /\ trees \in [Changes -> Worktrees \cup {Absent}]
    BY DEF DraftsInv, TypeOK, DiskTypeOK, JobTypeOK
  <1>2. Dangling(c, d) => Placed(c, d)
    BY DEF DanglingOK
  <1>3. ASSUME job.at \notin {"file", "unlist"} PROVE ~Dangling(c, d)
    BY <1>2, <1>3 DEF Placed
  <1>4. ASSUME UNCHANGED <<records, trees>> PROVE Dangling(c, d)
    BY <1>4 DEF Dangling, Lists, Holds
  <1>5. ASSUME NEW recs \in [Changes -> Records \cup {Absent, Torn}], FailWith(recs)
        PROVE  Readable(recs[c]) /\ d \in recs[c].docs /\ Holds(c, d) = Absent
    BY <1>1, <1>5, FailureDangles
  <1>6. ASSUME FailWith(records) PROVE Dangling(c, d)
    BY <1>1, <1>5, <1>6 DEF Dangling, Lists
  <1>7. ASSUME MakeWorktree PROVE FALSE
    <2>1. job.at = "worktree" /\ UNCHANGED records
      BY <1>7 DEF MakeWorktree
    <2>2. CASE UNCHANGED trees
      BY <1>3, <1>4, <2>1, <2>2
    <2>3. ASSUME NEW fresh \in Changes, records[fresh] = Absent,
                 trees' = [trees EXCEPT ![fresh] = Worktree]
          PROVE  FALSE
      <3>1. c # fresh
        BY <2>1, <2>3 DEF Dangling, Lists, Readable
      <3>2. trees'[c] = trees[c]
        BY <1>1, <2>3, <3>1
      <3>3. Dangling(c, d)
        BY <2>1, <3>2 DEF Dangling, Lists, Holds
      <3>. QED BY <1>3, <2>1, <3>3
    <2>. QED BY <1>7, <2>2, <2>3 DEF MakeWorktree
  <1>8. ASSUME RolledBack, j \in Changes PROVE Dangling(c, d)
    <2>1. records' = [records EXCEPT ![j] = Absent] /\ trees' = [trees EXCEPT ![j] = Absent]
      BY <1>8 DEF RolledBack
    <2>2. c # j
      BY <1>1, <2>1 DEF Dangling, Lists, Readable
    <2>3. records'[c] = records[c] /\ trees'[c] = trees[c]
      BY <1>1, <2>1, <2>2
    <2>. QED BY <2>3 DEF Dangling, Lists, Holds
  <1>9. ASSUME NEW rec, records' = [records EXCEPT ![j] = rec], UNCHANGED trees,
               ~Dangling(c, d)
        PROVE  c = j /\ rec # records[j] /\ Readable(rec) /\ d \in rec.docs
    <2>1. c = j
      BY <1>1, <1>9 DEF Dangling, Lists, Holds
    <2>. QED BY <1>1, <1>9, <2>1 DEF Dangling, Lists, Holds, Readable
  <1>10. ASSUME RecordChange PROVE FALSE
    <2>1. job.at = "record" /\ j \in Changes
      BY <1>10 DEF RecordChange, DraftsInv, JobOK, MadeOK
    <2>2. ~Dangling(c, d)
      BY <1>3, <2>1
    <2>. QED BY <1>8, <1>9, <1>10, <2>1, <2>2 DEF RecordChange
  <1>11. ASSUME SetActive PROVE FALSE
    <2>1. job.at = "activate" /\ j \in Changes /\ ~Dangling(c, d)
      BY <1>3, <1>11 DEF SetActive, DraftsInv, JobOK, MadeOK
    <2>. QED BY <1>4, <1>8, <1>11, <2>1 DEF SetActive
  <1>12. ASSUME NEW e \in Docs, job.at = "add", ListDocument(e) PROVE Placed(c, d)'
    <2>. DEFINE text == Holds(j, e)
                listed == [docs |-> records[j].docs \cup {e}, last |-> e]
                at == IF text = Absent THEN "file" ELSE "compare"
    <2>1. j \in Changes /\ records[j] \in Records /\ ~Dangling(c, d)
      BY <1>3, <1>12 DEF DraftsInv, JobOK, MadeOK
    <2>2. listed \in Records
      BY <2>1 DEF Records
    <2>3. CASE /\ records' = [records EXCEPT ![j] = listed] /\ UNCHANGED <<active, trees>>
               /\ IF text \in {Absent, Base}
                  THEN job' = [job EXCEPT !.at = at, !.doc = e, !.seen = text,
                                          !.before = records[j]]
                  ELSE Finish("done", text)
      <3>1. c = j /\ d \in listed.docs
        BY <1>9, <2>1, <2>3
      <3>2. d = e /\ text = Absent /\ d \notin records[j].docs
        <4>1. Holds(c, d) = Absent
          BY <2>3 DEF Dangling, Holds
        <4>2. d \notin records[j].docs
          BY <2>1, <3>1, <4>1, ReadableFiles DEF Dangling, Lists
        <4>. QED BY <3>1, <4>1, <4>2
      <3>3. job' = [job EXCEPT !.at = "file", !.doc = e, !.seen = text, !.before = records[j]]
        BY <2>3, <3>2
      <3>4. job'.at = "file" /\ job'.doc = e /\ job'.before = records[j] /\ job'.change = j
        BY <1>1, <3>3 DEF Jobs
      <3>. QED BY <3>1, <3>2, <3>4 DEF Placed
    <2>4. ASSUME NEW left \in LeftBy(records[j], listed), Fault(left = listed),
                 FailWith([records EXCEPT ![j] = left])
          PROVE  FALSE
      <3>1. left = records[j]
        BY <2>1, <2>4, ReadableFiles DEF LeftBy, Fault, Excused, Readable
      <3>2. [records EXCEPT ![j] = left] = records
        BY <1>1, <3>1
      <3>. QED BY <1>6, <2>1, <2>4, <3>2
    <2>. QED BY <1>12, <2>3, <2>4 DEF ListDocument
  <1>13. ASSUME AddNewDocument \/ AddExistingDocument \/ AddTemplate PROVE Placed(c, d)'
    <2>1. job.at = "add" /\ ~Dangling(c, d)
      BY <1>3, <1>13 DEF AddNewDocument, AddExistingDocument, AddTemplate
    <2>2. job.cmd.kind = "edit" => job.cmd.doc \in Docs
      BY <1>1 DEF Jobs, Commands
    <2>. QED BY <1>4, <1>6, <1>12, <1>13, <2>1, <2>2
         DEF AddNewDocument, AddExistingDocument, AddTemplate
  <1>14. ASSUME CreateFile PROVE Placed(c, d)'
    <2>1. /\ j \in Changes /\ job.doc \in Docs /\ trees[j] # Absent /\ UNCHANGED records
          /\ job.at = "file" /\ Holds(j, job.doc) = Absent
      BY <1>14 DEF CreateFile, DraftsInv, JobOK, MadeOK, PlacingOK, Placing, SeenOK
    <2>2. PICK text \in Contents :
            /\ trees' = [trees EXCEPT ![j][job.doc] = text]
            /\ text = Absent => Fault(FALSE) /\ Goto("unlist")
      BY <1>14, TextsTyped DEF CreateFile, Contents
    <2>3. Holds(c, d)' = IF c = j /\ d = job.doc THEN text ELSE Holds(c, d)
      BY ZenonT(60), <1>1, <2>1, <2>2, FileSet
    <2>4. Lists(c, d) /\ Holds(c, d)' = Absent
      BY <2>1 DEF Dangling, Lists
    <2>5. Dangling(c, d)
      BY <2>1, <2>3, <2>4 DEF Dangling
    <2>6. c = j /\ d = job.doc /\ d \notin job.before.docs
      BY <1>2, <2>5 DEF Placed
    <2>7. Fault(FALSE) /\ Goto("unlist")
      BY <2>2, <2>3, <2>4, <2>6
    <2>8. job'.at = "unlist" /\ job'.change = j /\ job'.doc = job.doc /\ job'.before = job.before
      BY <1>1, <2>7 DEF Goto, Jobs
    <2>9. faults' = 1
      <3>1. faults' = faults + 1
        BY <2>7 DEF Fault
      <3>. QED BY <3>1
    <2>. QED BY <2>6, <2>8, <2>9 DEF Placed
  <1>15. ASSUME Unlist PROVE FALSE
    <2>1. /\ j \in Changes /\ job.before \in Records /\ records[j] \in Records
          /\ records[j].docs = job.before.docs \cup {job.doc}
      BY <1>15, ReadableFiles DEF Unlist, DraftsInv, JobOK, PlacingOK, Placing, Records
    <2>2. PICK left \in {records[j], job.before} :
            /\ FailWith([records EXCEPT ![j] = left])
            /\ left = job.before \/ faults' = faults + 1
      BY <1>15 DEF Unlist, Restored, Fault
    <2>3. [records EXCEPT ![j] = left] \in [Changes -> Records \cup {Absent, Torn}]
      BY <1>1, <2>1
    <2>4. d \in [records EXCEPT ![j] = left][c].docs /\ Holds(c, d) = Absent
          /\ Readable([records EXCEPT ![j] = left][c])
      BY <1>5, <2>2, <2>3
    <2>5. Dangling(c, d)
      <3>1. CASE c = j
        BY <1>1, <2>1, <2>4, <3>1, ReadableFiles DEF Dangling, Lists
      <3>2. CASE c # j
        BY <1>1, <2>4, <3>2 DEF Dangling, Lists
      <3>. QED BY <3>1, <3>2
    <2>6. c = j /\ d \notin job.before.docs /\ faults = 1
      BY <1>2, <1>15, <2>5 DEF Placed, Unlist
    <2>7. left = job.before
      BY <2>2, <2>6
    <2>. QED BY <1>1, <2>1, <2>4, <2>6, <2>7
  <1>16. ASSUME TouchRecord PROVE FALSE
    <2>1. /\ job.at = "touch" /\ j \in Changes /\ UNCHANGED trees /\ ~Dangling(c, d)
          /\ records[j] \in Records
      BY <1>1, <1>3, <1>16, ReadableFiles DEF TouchRecord, DraftsInv, JobOK, MadeOK
    <2>2. PICK left : /\ records' = [records EXCEPT ![j] = left]
                      /\ left \in {records[j], [records[j] EXCEPT !.last = job.doc]}
      BY <1>16, <2>1, ReadableFiles DEF TouchRecord, LeftBy, Readable
    <2>3. left.docs = records[j].docs
      BY <2>1, <2>2 DEF Records
    <2>4. c = j /\ d \in left.docs
      BY <1>9, <2>1, <2>2
    <2>. QED BY <2>1, <2>3, <2>4, ReadableFiles DEF Dangling, Lists, Holds
  <1>17. ASSUME WriteJournal \/ CompareFile \/ RemoveJournal \/ CloseActive PROVE FALSE
    BY <1>3, <1>4, <1>17 DEF WriteJournal, CompareFile, RemoveJournal, CloseActive, diskVars
  <1>18. ASSUME RenameFile PROVE FALSE
    <2>1. /\ job.at = "rename" /\ UNCHANGED records /\ ~Dangling(c, d)
          /\ Holds(j, job.doc) # Absent /\ trees[j] # Absent
      BY <1>3, <1>18 DEF RenameFile, DraftsInv, JobOK, SavingOK, Holds
    <2>2. j \in Changes /\ job.doc \in Docs
      BY <1>1, <2>1 DEF DraftsInv, JobOK, PlacingOK, SavingOK, Placing, Saving, IsSave, Jobs, Commands
    <2>3. IsSave => job.cmd.text \in Kept
      BY <1>1 DEF Jobs, Commands, IsSave
    <2>4. Holds(j, job.doc) \in Kept
      BY <1>1, <2>1, <2>2 DEF Holds, Worktrees, Contents
    <2>5. PICK text \in Contents \ {Absent} : trees' = [trees EXCEPT ![j][job.doc] = text]
      <3>. DEFINE new == IF IsSave THEN job.cmd.text ELSE Identified
      <3>1. new \in Kept
        BY <2>3, TextsTyped
      <3>2. \E text \in {Holds(j, job.doc), new} : trees' = [trees EXCEPT ![j][job.doc] = text]
        BY <1>18 DEF RenameFile, IsSave
      <3>. HIDE DEF new
      <3>. QED BY <2>4, <3>1, <3>2, TextsTyped DEF Contents
    <2>6. Holds(c, d)' = IF c = j /\ d = job.doc THEN text ELSE Holds(c, d)
      <3>1. trees[j] \in [Docs -> Contents] /\ trees'[j] = [trees[j] EXCEPT ![job.doc] = text]
        BY <1>1, <2>1, <2>2, <2>5 DEF Worktrees
      <3>2. trees'[j] # Absent
        <4>1. trees'[j] \in Worktrees
          BY <2>2, <2>5, <3>1 DEF Worktrees
        <4>. QED BY <4>1, ReadableFiles
      <3>3. c # j => trees'[c] = trees[c]
        BY <1>1, <2>2, <2>5
      <3>4. c = j => trees'[c][d] = IF d = job.doc THEN text ELSE trees[c][d]
        BY <2>2, <3>1
      <3>. QED BY <2>1, <3>2, <3>3, <3>4 DEF Holds
    <2>. QED BY <2>1, <2>5, <2>6 DEF Dangling, Lists
  <1>. QED BY <1>7, <1>10, <1>11, <1>13, <1>14, <1>15, <1>16, <1>17, <1>18 DEF JobStep

\* One failing write alone leaves no record without its file for good.
LEMMA DanglingKept ==
  ASSUME DraftsInv, SeenOK, DanglingOK, [Next]_vars
  PROVE  DanglingOK'
  <1>. SUFFICES ASSUME ~Excused', NEW c \in Changes, NEW d \in Docs, Dangling(c, d)'
                PROVE  Placed(c, d)'
    BY DEF DanglingOK
  <1>1. /\ TypeOK /\ ~Excused /\ UNCHANGED ends /\ faults \in Nat /\ faults' \in 0..1
        /\ UNCHANGED faults \/ faults' = faults + 1
    BY ExcusesStay DEF DraftsInv
  <1>2. Dangling(c, d) => Placed(c, d)
    BY <1>1 DEF DanglingOK
  <1>3. CASE WindowStep \/ UNCHANGED vars
    <2>1. UNCHANGED diskVars /\ JobSame /\ UNCHANGED faults
      <3>1. UNCHANGED vars => UNCHANGED <<diskVars, job, faults>>
        BY DEF vars, jobVars, boundVars
      <3>. QED BY <1>1, <1>3, <3>1, WindowLeaves DEF JobSame
    <2>2. Dangling(c, d)
      BY <2>1 DEF Dangling, Lists, Holds, diskVars
    <2>3. Placed(c, d)
      BY <1>2, <2>2
    <2>4. job'.at = job.at /\ job'.change = job.change /\ job'.doc = job.doc
          /\ job'.before = job.before
      BY <1>1, <2>1, MarkedFields
    <2>. QED BY <2>1, <2>3, <2>4 DEF Placed
  <1>4. CASE Begin
    <2>1. job.at = "none" /\ UNCHANGED diskVars
      BY <1>4, NothingTyped DEF Begin
    <2>2. Dangling(c, d)
      BY <2>1 DEF Dangling, Lists, Holds, diskVars
    <2>. QED BY <1>2, <2>1, <2>2 DEF Placed
  <1>5. CASE JobStep
    BY <1>1, <1>5, JobDangling
  <1>6. CASE Crash \/ Quit
    <2>1. ends \in Nat /\ ends' = ends + 1
      BY <1>1, <1>6 DEF Crash, Quit, TypeOK, BoundsTypeOK
    <2>. QED BY <1>1, <2>1
  <1>7. ASSUME NEW x \in Changes, NEW e \in Docs, ForeignWrite(x, e) PROVE Placed(c, d)'
    <2>1. /\ UNCHANGED <<records, job, faults>> /\ Holds(x, e)' \in ForeignTexts
          /\ x # c \/ e # d => Holds(c, d)' = Holds(c, d)
      BY <1>1, <1>7, ForeignMoves DEF jobVars
    <2>2. Holds(c, d)' = Absent => Holds(c, d) = Absent
      BY <2>1, TextsTyped DEF Kept
    <2>3. Dangling(c, d)
      BY <2>1, <2>2 DEF Dangling, Lists
    <2>4. Placed(c, d)
      BY <1>2, <2>3
    <2>. QED BY <2>1, <2>4 DEF Placed
  <1>. QED BY <1>3, <1>4, <1>5, <1>6, <1>7, StepKinds

\* At the start a document that is listed is new and has its file.
LEMMA InitDangling == Init => DanglingOK
  <1>. SUFFICES ASSUME Init, NEW c \in Changes, NEW e \in Docs, Dangling(c, e)
                PROVE  FALSE
    BY DEF DanglingOK
  <1>1. PICK drafted \in {{}, {CHOOSE x \in Changes : TRUE}}, d \in Docs \ Tracked :
          /\ records = [x \in Changes |-> IF x \in drafted THEN [docs |-> {d}, last |-> d]
                                          ELSE Absent]
          /\ trees = [x \in Changes |-> IF x \in drafted THEN [Worktree EXCEPT ![d] = New]
                                        ELSE Absent]
    BY DEF Init
  <1>2. c \in drafted /\ e = d
    BY <1>1 DEF Dangling, Lists, Readable
  <1>3. trees[c] = [Worktree EXCEPT ![d] = New]
    BY <1>1, <1>2
  <1>4. trees[c] \in Worktrees /\ trees[c][d] = New
    <2>1. Worktree \in [Docs -> Contents] /\ New \in Contents
      BY NothingTyped, TextsTyped DEF Worktrees, Contents
    <2>. QED BY <1>3, <2>1 DEF Worktrees
  <1>. QED BY <1>2, <1>4, TextsTyped, ReadableFiles DEF Dangling, Holds

\* Where the application has not ended, one failing write alone leaves no record that
\* lists a document without a file: add_document and add_existing_document put back
\* previous_record before they answer.
THEOREM RecordsHaveFiles == Spec => []NoDanglingRecord
  <1>. DEFINE Inv == DraftsInv /\ ShownOK /\ SeenOK /\ DanglingOK
  <1>1. Init => Inv
    BY InitTyped, InitShown, InitDangling
  <1>2. Inv /\ [Next]_vars => Inv'
    BY StepKept, ShownKept, DanglingKept
  <1>3. Inv => NoDanglingRecord
    BY DEF DanglingOK, Dangling, Placed, Excused, NoDanglingRecord
  <1>. QED BY <1>1, <1>2, <1>3, PTL DEF Spec

-----------------------------------------------------------------------------
(***************************************************************************)
(* Answers.  A command of the window is in one place: it waits for the     *)
(* lock, holds it, or has answered.                                        *)
(***************************************************************************)
Own(x, kind) == x.kind = kind /\ (kind = "save" => x.mine)

Waits(kind) == \E i \in 1..Len(queue) : Own(queue[i], kind)
Runs(kind) == Own(job.cmd, kind)
Answered(kind) == \E a \in answers : Own(a, kind)
Pending(kind) == Waits(kind) \/ Runs(kind) \/ Answered(kind)

Once(kind) ==
  /\ \A i, k \in 1..Len(queue) : Own(queue[i], kind) /\ Own(queue[k], kind) => i = k
  /\ \A a, b \in answers : Own(a, kind) /\ Own(b, kind) => a = b
  /\ ~(Waits(kind) /\ Runs(kind)) /\ ~(Waits(kind) /\ Answered(kind))
  /\ ~(Runs(kind) /\ Answered(kind))

\* A command is sent where none of its kind is pending.
LEMMA SendingOwed ==
  ASSUME NEW kind, Once(kind), queue \in Seq(Commands), NEW cmd,
         queue' = Append(queue, cmd), UNCHANGED <<job, answers>>,
         Own(cmd, kind) => ~Pending(kind)
  PROVE  Once(kind)' /\ (Pending(kind)' <=> Pending(kind) \/ Own(cmd, kind))
  <1>1. /\ Len(queue) \in Nat /\ Len(queue') = Len(queue) + 1
        /\ \A i \in 1..Len(queue') : queue'[i] = IF i \in 1..Len(queue) THEN queue[i] ELSE cmd
        /\ \A i \in 1..Len(queue') : i \notin 1..Len(queue) => i = Len(queue')
        /\ Len(queue') \in 1..Len(queue') /\ Len(queue') \notin 1..Len(queue)
        /\ 1..Len(queue) \subseteq 1..Len(queue')
    OBVIOUS
  <1>2. Waits(kind)' <=> Waits(kind) \/ Own(cmd, kind)
    BY <1>1 DEF Waits
  <1>3. (Runs(kind)' <=> Runs(kind)) /\ (Answered(kind)' <=> Answered(kind))
    BY DEF Runs, Answered
  <1>4. \A i, k \in 1..Len(queue') : Own(queue'[i], kind) /\ Own(queue'[k], kind) => i = k
    BY <1>1 DEF Once, Pending, Waits
  <1>5. \A a, b \in answers' : Own(a, kind) /\ Own(b, kind) => a = b
    BY DEF Once
  <1>6. Pending(kind)' <=> Pending(kind) \/ Own(cmd, kind)
    BY <1>2, <1>3 DEF Pending
  <1>7. ~(Waits(kind)' /\ Runs(kind)') /\ ~(Waits(kind)' /\ Answered(kind)')
        /\ ~(Runs(kind)' /\ Answered(kind)')
    BY <1>2, <1>3 DEF Once, Pending
  <1>. QED BY <1>4, <1>5, <1>6, <1>7 DEF Once

\* The only answer of a kind is taken, and nothing of it is pending.
LEMMA TakingOwed ==
  ASSUME NEW kind, Once(kind), NEW a \in answers, answers' = answers \ {a},
         UNCHANGED <<job, queue>>
  PROVE  Once(kind)' /\ (Pending(kind)' <=> Pending(kind) /\ ~Own(a, kind))
  <1>1. (Runs(kind)' <=> Runs(kind)) /\ (Waits(kind)' <=> Waits(kind))
    BY DEF Runs, Waits
  <1>2. Answered(kind)' <=> Answered(kind) /\ ~Own(a, kind)
    BY DEF Answered, Once
  <1>3. Own(a, kind) => Answered(kind)
    BY DEF Answered
  <1>4. Pending(kind)' <=> Pending(kind) /\ ~Own(a, kind)
    BY <1>1, <1>2, <1>3 DEF Pending, Once
  <1>. QED BY <1>1, <1>2, <1>4 DEF Once

\* The first command of the queue takes the lock, or is refused.
LEMMA BeginOwed ==
  ASSUME NEW kind, kind # "none", Once(kind), TypeOK, Begin
  PROVE  Once(kind)' /\ (Pending(kind)' <=> Pending(kind))
  <1>. DEFINE cmd == Head(queue)
              reply == Reply(cmd, cmd.change, cmd.doc, "failed", NoText)
  <1>1. queue \in Seq(Commands) /\ queue # <<>> /\ queue' = Tail(queue) /\ job = NoJob
    BY DEF Begin, TypeOK, JobTypeOK
  <1>2. \/ job'.cmd = cmd /\ UNCHANGED answers
        \/ UNCHANGED job /\ answers' = answers \cup {reply}
    BY DEF Begin, NoJob
  <1>3. Own(reply, kind) <=> Own(cmd, kind)
    BY DEF Reply, Own
  <1>4. ~Runs(kind)
    BY <1>1 DEF Runs, Own, NoJob, NoCommand
  <1>. HIDE DEF reply
  <1>5. /\ Len(queue) \in Nat \ {0} /\ Len(queue') = Len(queue) - 1
        /\ cmd = queue[1] /\ 1 \in 1..Len(queue)
    BY <1>1
  <1>6. \A i \in 1..Len(queue') : i + 1 \in 1..Len(queue) /\ queue'[i] = queue[i + 1] /\ i + 1 # 1
    BY <1>1, <1>5, HeadTailProperties
  <1>7. \A i \in 1..Len(queue) : i = 1 \/ (i - 1 \in 1..Len(queue') /\ queue'[i - 1] = queue[i])
    <2>1. \A i \in 1..Len(queue) : i = 1 \/ (i - 1 \in 1..Len(queue') /\ (i - 1) + 1 = i)
      BY <1>5
    <2>. QED BY <1>6, <2>1
  <1>. HIDE DEF cmd
  <1>8. Own(cmd, kind) => ~Waits(kind)' /\ Waits(kind) /\ ~Answered(kind)
    <2>1. Own(cmd, kind) => \A i \in 1..Len(queue') : ~Own(queue'[i], kind)
      BY <1>5, <1>6 DEF Once
    <2>2. Own(cmd, kind) => Waits(kind)
      BY <1>5 DEF Waits
    <2>. QED BY <2>1, <2>2 DEF Waits, Once
  <1>9. ~Own(cmd, kind) => (Waits(kind)' <=> Waits(kind))
    BY <1>5, <1>6, <1>7 DEF Waits
  <1>10. \A i, k \in 1..Len(queue') : Own(queue'[i], kind) /\ Own(queue'[k], kind) => i = k
    <2>1. \A i, k \in 1..Len(queue') :
            Own(queue'[i], kind) /\ Own(queue'[k], kind) => i + 1 = k + 1
      BY <1>6 DEF Once
    <2>2. \A i, k \in 1..Len(queue') : i + 1 = k + 1 => i = k
      BY <1>5
    <2>. QED BY <2>1, <2>2
  <1>11. CASE job'.cmd = cmd /\ UNCHANGED answers
    <2>1. (Runs(kind)' <=> Own(cmd, kind)) /\ (Answered(kind)' <=> Answered(kind))
      BY <1>11 DEF Runs, Answered
    <2>2. \A a, b \in answers' : Own(a, kind) /\ Own(b, kind) => a = b
      BY <1>11 DEF Once
    <2>. QED BY <1>4, <1>8, <1>9, <1>10, <2>1, <2>2 DEF Once, Pending
  <1>12. CASE UNCHANGED job /\ answers' = answers \cup {reply}
    <2>1. (Runs(kind)' <=> Runs(kind)) /\ (Answered(kind)' <=> Answered(kind) \/ Own(cmd, kind))
      BY <1>3, <1>12 DEF Runs, Answered
    <2>2. \A a, b \in answers' : Own(a, kind) /\ Own(b, kind) => a = b
      BY <1>3, <1>8, <1>12 DEF Once, Answered
    <2>. QED BY <1>4, <1>8, <1>9, <1>10, <2>1, <2>2 DEF Once, Pending
  <1>. QED BY <1>2, <1>11, <1>12

\* The command that holds the lock goes on or answers.
LEMMA JobOwed ==
  ASSUME NEW kind, kind # "none", Once(kind), TypeOK, JobStep
  PROVE  Once(kind)' /\ (Pending(kind)' <=> Pending(kind))
  <1>1. UNCHANGED queue /\ (JobEnds \/ JobGoesOn)
    BY JobShape
  <1>2. (Waits(kind)' <=> Waits(kind))
        /\ \A i, k \in 1..Len(queue') : Own(queue'[i], kind) /\ Own(queue'[k], kind) => i = k
    BY <1>1 DEF Waits, Once
  <1>3. CASE JobGoesOn
    <2>1. (Runs(kind)' <=> Runs(kind)) /\ (Answered(kind)' <=> Answered(kind))
          /\ \A a, b \in answers' : Own(a, kind) /\ Own(b, kind) => a = b
      BY <1>3 DEF JobGoesOn, Runs, Answered, Once
    <2>. QED BY <1>2, <2>1 DEF Once, Pending
  <1>4. CASE JobEnds
    <2>1. PICK result, text :
            /\ answers' = answers \cup {Reply(job.cmd, job.change, job.doc, result, text)}
            /\ job' = NoJob
      BY <1>4 DEF JobEnds, Answer
    <2>. DEFINE reply == Reply(job.cmd, job.change, job.doc, result, text)
    <2>2. (Own(reply, kind) <=> Runs(kind)) /\ ~Runs(kind)'
      BY <2>1 DEF Reply, Own, Runs, NoJob, NoCommand
    <2>. HIDE DEF reply
    <2>3. Answered(kind)' <=> Answered(kind) \/ Runs(kind)
      BY <2>1, <2>2 DEF Answered, reply
    <2>4. \A a, b \in answers' : Own(a, kind) /\ Own(b, kind) => a = b
      BY <2>1, <2>2 DEF Once, Answered, reply
    <2>. QED BY <1>2, <2>2, <2>3, <2>4 DEF Once, Pending
  <1>. QED BY <1>1, <1>3, <1>4

\* A restart takes one answer, and where it replaces the editor gives up its saves.
LEMMA RestartOwed ==
  ASSUME NEW kind, kind # "none", NEW replaced \in BOOLEAN, Once(kind), TypeOK,
         NEW a \in answers, answers' = Remaining(a, replaced), Restarted(replaced)
  PROVE  /\ Once(kind)'
         /\ Pending(kind)' <=> Pending(kind) /\ ~Own(a, kind) /\ ~(kind = "save" /\ replaced)
  <1>. DEFINE Old(cmd) == [cmd EXCEPT !.stale = TRUE, !.mine = @ /\ ~replaced]
              Told(b) == [b EXCEPT !.mine = @ /\ ~replaced]
              lost == kind = "save" /\ replaced
  <1>1. /\ queue \in Seq(Commands) /\ job \in Jobs /\ job.cmd \in Commands
        /\ answers \subseteq Answers
    BY DEF TypeOK, JobTypeOK, Jobs
  <1>2. \A cmd \in Commands : Own(Old(cmd), kind) <=> Own(cmd, kind) /\ ~lost
    <2>1. \A cmd \in Commands : /\ Old(cmd).kind = cmd.kind
                                /\ Old(cmd).mine = (cmd.mine /\ ~replaced)
      BY DEF Commands
    <2>. HIDE DEF Old
    <2>. QED BY <2>1 DEF Own
  <1>3. \A b \in Answers : Own(Told(b), kind) <=> Own(b, kind) /\ ~lost
    <2>1. \A b \in Answers : Told(b).kind = b.kind /\ Told(b).mine = (b.mine /\ ~replaced)
      BY DEF Answers
    <2>. HIDE DEF Told
    <2>. QED BY <2>1 DEF Own
  <1>4. queue' = [i \in DOMAIN queue |-> Old(queue[i])] /\ DOMAIN queue = 1..Len(queue)
    <2>1. queue' = [i \in DOMAIN queue |-> Old(queue[i])]
      BY Zenon DEF Restarted
    <2>2. DOMAIN queue = 1..Len(queue)
      BY <1>1
    <2>. QED BY <2>1, <2>2
  <1>5. job' = IF job = NoJob THEN job ELSE [job EXCEPT !.cmd = Old(@)]
    BY DEF Restarted
  <1>6. answers' = {Told(b) : b \in answers \ {a}}
    BY DEF Remaining
  <1>7. Runs(kind)' <=> Runs(kind) /\ ~lost
    <2>1. CASE job = NoJob
      BY <1>5, <2>1 DEF Runs, Own, NoJob, NoCommand
    <2>2. CASE job # NoJob
      <3>1. job'.cmd = Old(job.cmd)
        BY <1>1, <1>5, <2>2 DEF Jobs
      <3>. HIDE DEF Old, lost
      <3>. QED BY <1>1, <1>2, <3>1 DEF Runs
    <2>. QED BY <2>1, <2>2
  <1>. HIDE DEF Old, Told, lost
  <1>8. Len(queue') = Len(queue) /\ \A i \in 1..Len(queue) : queue'[i] = Old(queue[i])
    <2>1. Len(queue) \in Nat /\ DOMAIN queue' = 1..Len(queue)
      BY <1>1, <1>4
    <2>2. queue' = [i \in 1..Len(queue) |-> Old(queue[i])]
      BY <1>4
    <2>3. Len(queue') = Len(queue)
      BY <2>1, <2>2
    <2>. QED BY <2>2, <2>3
  <1>9. \A i \in 1..Len(queue) : Own(queue'[i], kind) <=> Own(queue[i], kind) /\ ~lost
    BY <1>1, <1>2, <1>8
  <1>10. Waits(kind)' <=> Waits(kind) /\ ~lost
    BY <1>8, <1>9 DEF Waits
  <1>11. \A i, k \in 1..Len(queue') : Own(queue'[i], kind) /\ Own(queue'[k], kind) => i = k
    BY <1>8, <1>9 DEF Once
  <1>12. Answered(kind)' <=> Answered(kind) /\ ~Own(a, kind) /\ ~lost
    BY <1>1, <1>3, <1>6 DEF Answered, Once
  <1>13. \A b, c \in answers' : Own(b, kind) /\ Own(c, kind) => b = c
    BY <1>1, <1>3, <1>6 DEF Once
  <1>14. Own(a, kind) => Answered(kind)
    BY DEF Answered
  <1>15. Pending(kind)' <=> Pending(kind) /\ ~Own(a, kind) /\ ~lost
    BY <1>7, <1>10, <1>12, <1>14 DEF Pending, Once
  <1>16. ~(Waits(kind)' /\ Runs(kind)') /\ ~(Waits(kind)' /\ Answered(kind)')
         /\ ~(Runs(kind)' /\ Answered(kind)')
    BY <1>7, <1>10, <1>12 DEF Once
  <1>. QED BY <1>11, <1>13, <1>15, <1>16 DEF Once, lost

\* After an end nothing is pending.
LEMMA StartOwed ==
  ASSUME NEW kind, kind # "none", AppStarts
  PROVE  Once(kind)' /\ ~Pending(kind)'
  <1>1. queue' = <<>> /\ job' = NoJob /\ answers' = {}
    BY DEF AppStarts
  <1>2. ~Waits(kind)'
    BY <1>1 DEF Waits
  <1>3. ~Runs(kind)' /\ ~Answered(kind)'
    BY <1>1 DEF Runs, Answered, Own, NoJob, NoCommand
  <1>4. /\ \A i, k \in 1..Len(queue') : Own(queue'[i], kind) /\ Own(queue'[k], kind) => i = k
        /\ \A a, b \in answers' : Own(a, kind) /\ Own(b, kind) => a = b
    BY <1>1
  <1>. QED BY <1>2, <1>3, <1>4 DEF Once, Pending

LEMMA SameOwed ==
  ASSUME NEW kind, Once(kind), UNCHANGED <<queue, job, answers>>
  PROVE  Once(kind)' /\ (Pending(kind)' <=> Pending(kind))
  BY DEF Once, Pending, Waits, Runs, Answered

\* The window waits for the answer of a save while its editor is "saving", and for the
\* answer of a request while that is "sent".
Awaited(kind) == IF kind = "save" THEN editor.status = "saving" ELSE requests[kind] = "sent"

Sendable == Kinds \cup {"save"}

OwedOK == \A kind \in Sendable : Once(kind) /\ (Pending(kind) <=> Awaited(kind))

\* A conflict is on the screen only while the editor says so, and a recovered editor is
\* not waiting for anything.
ConflictOK ==
  /\ editor.conflict # NoText => editor.status = "conflict"
  /\ load.found.status \in {"none", "saved", "dirty", "conflict"}
  /\ load.found.conflict # NoText => load.found.status = "conflict"

\* Steps that neither send nor answer anything.
LEMMA QuietOwed ==
  ASSUME OwedOK, UNCHANGED <<queue, job, answers>>,
         \A kind \in Sendable : Awaited(kind)' <=> Awaited(kind)
  PROVE  OwedOK'
  BY SameOwed DEF OwedOK, Sendable, Kinds

LEMMA EditorOwed ==
  ASSUME OwedOK, UNCHANGED <<queue, job, answers, requests>>,
         editor'.status = "saving" <=> editor.status = "saving"
  PROVE  OwedOK'
  <1>1. \A kind \in Sendable : Awaited(kind)' <=> Awaited(kind)
    BY DEF Awaited
  <1>. QED BY <1>1, QuietOwed

\* A request is sent once.
LEMMA RequestOwed ==
  ASSUME OwedOK, TypeOK, NEW k \in Kinds, requests[k] # "sent",
         requests' = [requests EXCEPT ![k] = "sent"], UNCHANGED <<job, answers>>,
         NEW cmd, cmd.kind = k, queue' = Append(queue, cmd),
         editor'.status = "saving" <=> editor.status = "saving"
  PROVE  OwedOK'
  <1>1. queue \in Seq(Commands) /\ requests \in [Kinds -> {"none", "checking", "sent"}]
    BY DEF TypeOK, JobTypeOK, WindowTypeOK
  <1>2. k # "save"
    BY DEF Kinds
  <1>3. ASSUME NEW kind \in Sendable PROVE Once(kind)' /\ (Pending(kind)' <=> Awaited(kind)')
    <2>1. (Own(cmd, kind) <=> kind = k) /\ Once(kind) /\ (Pending(kind) <=> Awaited(kind))
      BY <1>2, <1>3 DEF Own, OwedOK
    <2>2. Own(cmd, kind) => ~Pending(kind)
      BY <1>2, <2>1 DEF Awaited
    <2>3. Once(kind)' /\ (Pending(kind)' <=> Pending(kind) \/ kind = k)
      BY <1>1, <2>1, <2>2, SendingOwed
    <2>4. Awaited(kind)' <=> Awaited(kind) \/ kind = k
      <3>1. kind # "save" => (requests'[kind] = "sent" <=> requests[kind] = "sent" \/ kind = k)
        BY <1>1, <1>3 DEF Sendable
      <3>. QED BY <1>2, <3>1 DEF Awaited
    <2>. QED BY <2>1, <2>3, <2>4
  <1>. QED BY <1>3 DEF OwedOK

LEMMA SaveOwed ==
  ASSUME OwedOK, TypeOK, SendSave
  PROVE  OwedOK' /\ ~Pending("save")
  <1>. DEFINE cmd == [Command("save") EXCEPT
                        !.change = editor.change, !.doc = editor.doc,
                        !.base = editor.base, !.text = editor.snap, !.mine = TRUE]
  <1>1. /\ queue \in Seq(Commands) /\ editor \in Editors /\ editor # NoEditor
        /\ editor.status = "queued"
    BY DEF SendSave, TypeOK, JobTypeOK, WindowTypeOK, NoEditor
  <1>2. /\ editor' = [editor EXCEPT !.status = "saving"] /\ queue' = Append(queue, cmd)
        /\ UNCHANGED <<job, answers, requests>>
    BY DEF SendSave, SetEditor
  <1>3. cmd.kind = "save" /\ cmd.mine = TRUE
    BY DEF Command, NoCommand
  <1>. HIDE DEF cmd
  <1>4. editor'.status = "saving"
    BY <1>1, <1>2 DEF Editors
  <1>5. ~Pending("save")
    BY <1>1 DEF OwedOK, Awaited, Sendable
  <1>6. ASSUME NEW kind \in Sendable PROVE Once(kind)' /\ (Pending(kind)' <=> Awaited(kind)')
    <2>1. (Own(cmd, kind) <=> kind = "save") /\ Once(kind) /\ (Pending(kind) <=> Awaited(kind))
      BY <1>3, <1>6 DEF Own, OwedOK
    <2>2. Once(kind)' /\ (Pending(kind)' <=> Pending(kind) \/ kind = "save")
      BY <1>1, <1>2, <1>5, <2>1, SendingOwed
    <2>3. Awaited(kind)' <=> Awaited(kind) \/ kind = "save"
      BY <1>2, <1>4 DEF Awaited
    <2>. QED BY <2>1, <2>2, <2>3
  <1>. QED BY <1>5, <1>6 DEF OwedOK

\* The answer of a save ends the saving of the editor, if it is the editor's own.
LEMMA SaveAnswered ==
  ASSUME OwedOK, ConflictOK, TypeOK, NEW a \in answers, AnswerSave(a)
  PROVE  OwedOK' /\ ConflictOK'
  <1>1. /\ a.kind = "save" /\ answers' = answers \ {a} /\ editor \in Editors /\ a \in Answers
        /\ UNCHANGED <<queue, job, requests, load>>
    BY DEF AnswerSave, TypeOK, JobTypeOK, WindowTypeOK
  <1>2. a.mine => editor.status = "saving"
    <2>1. a.mine => Pending("save")
      BY <1>1 DEF Pending, Answered, Own
    <2>. QED BY <2>1 DEF OwedOK, Awaited, Sendable
  <1>3. CASE ~a.mine
    <2>1. editor' = editor
      BY <1>3 DEF AnswerSave, Heard
    <2>2. ASSUME NEW kind \in Sendable PROVE Once(kind)' /\ (Pending(kind)' <=> Awaited(kind)')
      <3>1. ~Own(a, kind)
        BY <1>1, <1>3 DEF Own
      <3>2. Once(kind)' /\ (Pending(kind)' <=> Pending(kind))
        BY <1>1, <2>2, <3>1, TakingOwed DEF OwedOK
      <3>3. Awaited(kind)' <=> Awaited(kind)
        BY <1>1, <2>1 DEF Awaited
      <3>. QED BY <2>2, <3>2, <3>3 DEF OwedOK
    <2>3. ConflictOK'
      BY <1>1, <2>1 DEF ConflictOK
    <2>. QED BY <2>2, <2>3 DEF OwedOK
  <1>4. CASE a.mine
    <2>1. editor.status = "saving" /\ Heard(a) /\ editor # NoEditor /\ editor.conflict = NoText
      BY <1>2, <1>4 DEF Heard, NoEditor, ConflictOK
    <2>2. \/ editor' = Saved(editor)
          \/ editor' = [editor EXCEPT !.status = "error"]
          \/ editor' = [editor EXCEPT !.status = "conflict", !.conflict = a.text]
      BY <2>1 DEF AnswerSave, SetEditor
    <2>3. /\ editor'.status # "saving"
          /\ editor'.conflict # NoText => editor'.status = "conflict"
      <3>1. Saved(editor).status # "saving" /\ Saved(editor).conflict = NoText
        BY <1>1, <2>1 DEF Saved, StatusAfterSave, Editors, NoEditor
      <3>2. \A t : /\ [editor EXCEPT !.status = "error"].status = "error"
                   /\ [editor EXCEPT !.status = "error"].conflict = NoText
                   /\ [editor EXCEPT !.status = "conflict", !.conflict = t].status = "conflict"
        BY <1>1, <2>1 DEF Editors
      <3>. QED BY <2>2, <3>1, <3>2
    <2>4. ASSUME NEW kind \in Sendable PROVE Once(kind)' /\ (Pending(kind)' <=> Awaited(kind)')
      <3>1. Own(a, kind) <=> kind = "save"
        BY <1>1, <1>4 DEF Own
      <3>2. Once(kind)' /\ (Pending(kind)' <=> Pending(kind) /\ kind # "save")
        BY <1>1, <2>4, <3>1, TakingOwed DEF OwedOK
      <3>3. Awaited(kind)' <=> Awaited(kind) /\ kind # "save"
        BY <1>1, <2>3 DEF Awaited
      <3>. QED BY <2>4, <3>2, <3>3 DEF OwedOK
    <2>5. ConflictOK'
      BY <1>1, <2>3 DEF ConflictOK
    <2>. QED BY <2>4, <2>5 DEF OwedOK
  <1>. QED BY <1>3, <1>4

\* The answer of a request ends it; a new editor waits for nothing.
LEMMA RequestAnswered ==
  ASSUME OwedOK, ConflictOK, TypeOK, NEW a \in answers, AnswerRequest(a)
  PROVE  OwedOK' /\ ConflictOK'
  <1>. DEFINE replaced == a.kind # "copy"
  <1>1. /\ a.kind \in Kinds /\ requests' = [requests EXCEPT ![a.kind] = "none"]
        /\ requests \in [Kinds -> {"none", "checking", "sent"}]
    BY DEF AnswerRequest, TypeOK, WindowTypeOK
  <1>2. ASSUME NEW kind \in Sendable
        PROVE  /\ Own(a, kind) <=> kind = a.kind
               /\ kind # "save" => (requests'[kind] = "sent" <=> requests[kind] = "sent" /\ kind # a.kind)
               /\ kind # "none"
    BY <1>1, <1>2 DEF Own, Sendable, Kinds
  <1>3. CASE a.result = "failed"
    <2>1. answers' = answers \ {a} /\ UNCHANGED <<queue, job, editor, load>>
      BY <1>3 DEF AnswerRequest
    <2>2. ASSUME NEW kind \in Sendable PROVE Once(kind)' /\ (Pending(kind)' <=> Awaited(kind)')
      <3>1. Once(kind)' /\ (Pending(kind)' <=> Pending(kind) /\ kind # a.kind)
        BY <1>2, <2>1, <2>2, TakingOwed DEF OwedOK
      <3>2. Awaited(kind)' <=> Awaited(kind) /\ kind # a.kind
        BY <1>1, <1>2, <2>1, <2>2 DEF Awaited, Kinds
      <3>. QED BY <2>2, <3>1, <3>2 DEF OwedOK
    <2>3. ConflictOK'
      BY <2>1 DEF ConflictOK
    <2>. QED BY <2>2, <2>3 DEF OwedOK
  <1>4. CASE a.result = "done"
    <2>1. answers' = Remaining(a, replaced) /\ Restarted(replaced) /\ load' = NoLoad
      BY <1>4 DEF AnswerRequest, Restarted
    <2>2. /\ replaced => editor'.status # "saving" /\ editor'.conflict = NoText
          /\ ~replaced => editor' = editor
      <3>1. \A c, d, t : Opened(c, d, t).status = "saved" /\ Opened(c, d, t).conflict = NoText
        BY DEF Opened, NoEditor
      <3>2. NoEditor.status = "none" /\ NoEditor.conflict = NoText
        BY DEF NoEditor
      <3>. QED BY <1>1, <1>4, <3>1, <3>2 DEF AnswerRequest, SetEditor, Kinds
    <2>3. replaced \in BOOLEAN
      OBVIOUS
    <2>. HIDE DEF replaced
    <2>4. ASSUME NEW kind \in Sendable PROVE Once(kind)' /\ (Pending(kind)' <=> Awaited(kind)')
      <3>1. /\ Once(kind)'
            /\ Pending(kind)' <=> Pending(kind) /\ kind # a.kind /\ ~(kind = "save" /\ replaced)
        BY <1>2, <2>1, <2>3, <2>4, RestartOwed DEF OwedOK
      <3>2. Awaited(kind)' <=> Awaited(kind) /\ kind # a.kind /\ ~(kind = "save" /\ replaced)
        BY <1>1, <1>2, <2>2, <2>4 DEF Awaited, Kinds
      <3>. QED BY <2>4, <3>1, <3>2 DEF OwedOK
    <2>5. ConflictOK'
      BY <2>1, <2>2 DEF ConflictOK, NoLoad, NoEditor
    <2>. QED BY <2>4, <2>5 DEF OwedOK
  <1>. QED BY <1>3, <1>4 DEF AnswerRequest

\* The other steps of the window.
LEMMA WindowOwed ==
  ASSUME OwedOK, ConflictOK, TypeOK, WindowStep
  PROVE  OwedOK' /\ ConflictOK'
  <1>1. editor \in Editors /\ load \in Loads /\ load.found \in Editors
    BY DEF TypeOK, WindowTypeOK, Loads
  <1>2. ASSUME UNCHANGED <<queue, job, answers, requests, load>>,
               editor'.status = "saving" <=> editor.status = "saving",
               editor'.conflict # NoText => editor'.status = "conflict"
        PROVE  OwedOK' /\ ConflictOK'
    BY <1>2, EditorOwed DEF ConflictOK
  <1>3. ASSUME Type PROVE OwedOK' /\ ConflictOK'
    <2>1. editor # NoEditor /\ UNCHANGED <<queue, job, answers, requests, load>>
      BY <1>3 DEF Type, EditorOpen, jobVars
    <2>2. PICK t : editor' = [editor EXCEPT
                      !.text = t,
                      !.status = IF Busy THEN @ ELSE IF t = editor.saved THEN "saved" ELSE "dirty",
                      !.conflict = IF Busy THEN @ ELSE NoText]
      BY <1>3 DEF Type, SetEditor
    <2>3. /\ editor'.status = IF Busy THEN editor.status
                              ELSE IF t = editor.saved THEN "saved" ELSE "dirty"
          /\ editor'.conflict = IF Busy THEN editor.conflict ELSE NoText
      BY <1>1, <2>1, <2>2 DEF Editors
    <2>. QED BY <1>2, <2>1, <2>3 DEF Busy, ConflictOK
  <1>4. \/ SaveQueued(editor).status = "queued" /\ SaveQueued(editor).conflict = editor.conflict
        \/ editor = NoEditor
    BY <1>1 DEF SaveQueued, Editors
  <1>5. ASSUME NEW e \in Editors
        PROVE  \/ CloseRequested(e) = NoEditor /\ e.status = "saved"
               \/ CloseRequested(e).status = e.status /\ CloseRequested(e).conflict = e.conflict
    <2>1. [e EXCEPT !.closing = TRUE].status = e.status
          /\ [e EXCEPT !.closing = TRUE].conflict = e.conflict
      <3>1. CASE e = NoEditor
        BY <3>1 DEF NoEditor
      <3>2. CASE e # NoEditor
        BY <1>5, <3>2 DEF Editors
      <3>. QED BY <3>1, <3>2
    <2>. QED BY <2>1, Zenon DEF CloseRequested
  <1>6. NoEditor.status = "none" /\ NoEditor.conflict = NoText
    BY DEF NoEditor
  <1>7. ASSUME QueueSave \/ AskAndFlush PROVE OwedOK' /\ ConflictOK'
    <2>1. UNCHANGED <<queue, job, answers, requests, load>>
      BY <1>7 DEF QueueSave, AskAndFlush, jobVars
    <2>2. editor' = editor \/ (editor.status = "dirty" /\ editor' = SaveQueued(editor))
      BY <1>7 DEF QueueSave, AskAndFlush, SetEditor
    <2>. QED BY <1>2, <1>4, <1>6, <2>1, <2>2 DEF ConflictOK
  <1>8. ASSUME CloseEditor PROVE OwedOK' /\ ConflictOK'
    <2>1. UNCHANGED <<queue, job, answers, requests, load>>
      BY <1>8 DEF CloseEditor, jobVars
    <2>2. \/ editor' = CloseRequested(editor)
          \/ editor.status = "dirty" /\ editor' = CloseRequested(SaveQueued(editor))
      BY <1>8 DEF CloseEditor, SetEditor
    <2>3. editor.status = "dirty" => SaveQueued(editor) \in Editors
      BY <1>1, <1>6, EditorsTyped
    <2>. QED BY <1>1, <1>2, <1>4, <1>5, <1>6, <2>1, <2>2, <2>3 DEF ConflictOK
  <1>9. ASSUME AcceptDisk \/ AcceptHub \/ StartMerge PROVE OwedOK' /\ ConflictOK'
    <2>1. /\ editor.conflict # NoText /\ editor.status = "conflict" /\ editor # NoEditor
          /\ UNCHANGED <<queue, job, answers, requests, load>>
      BY <1>6, <1>9 DEF AcceptDisk, AcceptHub, StartMerge, ConflictOK, ResolveFrame, jobVars
    <2>2. editor'.status \in {"dirty", "conflict"} /\ (editor'.status = "dirty" => editor'.conflict = NoText)
      BY <1>1, <1>9, <2>1 DEF AcceptDisk, AcceptHub, StartMerge, SetEditor, Editors
    <2>. QED BY <1>2, <2>1, <2>2
  <1>10. ASSUME FlushFails PROVE OwedOK' /\ ConflictOK'
    BY <1>2, <1>10 DEF FlushFails, jobVars, ConflictOK
  <1>11. ASSUME SendSave PROVE OwedOK' /\ ConflictOK'
    <2>1. ConflictOK'
      BY <1>1, <1>11 DEF SendSave, SetEditor, ConflictOK, Editors, NoEditor
    <2>. QED BY <1>11, <2>1, SaveOwed
  <1>12. requests \in [Kinds -> {"none", "checking", "sent"}]
    BY DEF TypeOK, WindowTypeOK
  <1>18. \A kind : /\ Command(kind).kind = kind
                   /\ \A b : [Command(kind) EXCEPT !.separate = b].kind = kind
                   /\ \A c : [Command(kind) EXCEPT !.change = c].kind = kind
                   /\ \A d : [Command(kind) EXCEPT !.doc = d].kind = kind
    BY DEF Command, NoCommand
  <1>13. ASSUME NEW what \in Wishes, AskNow(what) \/ FlushEnds(what) PROVE OwedOK' /\ ConflictOK'
    <2>1. Proceed(what) /\ Flushed
      BY <1>13 DEF AskNow, FlushEnds
    <2>2. CASE what = "create"
      <3>1. /\ UNCHANGED <<queue, job, answers, editor, load>> /\ requests["create"] = "none"
            /\ requests' = [requests EXCEPT !["create"] = "checking"]
        BY <2>1, <2>2 DEF Proceed, jobVars
      <3>2. \A kind \in Sendable : Awaited(kind)' <=> Awaited(kind)
        BY <1>12, <3>1 DEF Awaited, Sendable, Kinds
      <3>. QED BY <3>1, <3>2, QuietOwed DEF ConflictOK
    <2>3. CASE what = "copy"
      <3>1. /\ requests' = [requests EXCEPT !["copy"] = "sent"] /\ requests["copy"] # "sent"
            /\ UNCHANGED <<job, answers, editor, load>>
            /\ \E separate \in BOOLEAN :
                 queue' = Append(queue, [Command("copy") EXCEPT !.separate = separate])
        BY <2>1, <2>3 DEF Proceed
      <3>2. PICK cmd : queue' = Append(queue, cmd) /\ cmd.kind = "copy"
        <4>1. PICK x \in BOOLEAN : queue' = Append(queue, [Command("copy") EXCEPT !.separate = x])
          BY <3>1
        <4>2. [Command("copy") EXCEPT !.separate = x].kind = "copy"
          BY <1>18
        <4>. QED BY <4>1, <4>2, Zenon
      <3>3. OwedOK'
        BY <3>1, <3>2, RequestOwed DEF Kinds
      <3>. QED BY <3>1, <3>3 DEF ConflictOK
    <2>4. CASE what = "switch"
      <3>1. /\ requests' = [requests EXCEPT !["switch"] = "sent"] /\ requests["switch"] # "sent"
            /\ UNCHANGED <<job, answers, editor, load>>
            /\ \E c : queue' = Append(queue, [Command("switch") EXCEPT !.change = c])
        BY <2>1, <2>4 DEF Proceed
      <3>2. PICK cmd : queue' = Append(queue, cmd) /\ cmd.kind = "switch"
        <4>1. PICK x : queue' = Append(queue, [Command("switch") EXCEPT !.change = x])
          BY <3>1
        <4>2. [Command("switch") EXCEPT !.change = x].kind = "switch"
          BY <1>18
        <4>. QED BY <4>1, <4>2, Zenon
      <3>3. OwedOK'
        BY <3>1, <3>2, RequestOwed DEF Kinds
      <3>. QED BY <3>1, <3>3 DEF ConflictOK
    <2>5. CASE what = "leave"
      <3>1. editor' = CloseRequested(editor) /\ UNCHANGED <<queue, job, answers, requests, load>>
        BY <2>1, <2>5 DEF Proceed, SetEditor, jobVars
      <3>. QED BY <1>1, <1>2, <1>5, <1>6, <3>1 DEF ConflictOK
    <2>. QED BY <2>2, <2>3, <2>4, <2>5 DEF Wishes
  <1>14. ASSUME CreationChecked PROVE OwedOK' /\ ConflictOK'
    <2>1. UNCHANGED <<job, answers, editor, load>> /\ requests["create"] = "checking"
      BY <1>14 DEF CreationChecked
    <2>2. CASE requests' = [requests EXCEPT !["create"] = "none"] /\ UNCHANGED queue
      <3>1. \A kind \in Sendable : Awaited(kind)' <=> Awaited(kind)
        BY <1>12, <2>1, <2>2 DEF Awaited, Sendable, Kinds
      <3>. QED BY <2>1, <2>2, <3>1, QuietOwed DEF ConflictOK
    <2>3. CASE /\ requests' = [requests EXCEPT !["create"] = "sent"]
               /\ \E separate \in BOOLEAN :
                    queue' = Append(queue, [Command("create") EXCEPT !.separate = separate])
      <3>1. PICK cmd : queue' = Append(queue, cmd) /\ cmd.kind = "create"
        <4>1. PICK x \in BOOLEAN : queue' = Append(queue, [Command("create") EXCEPT !.separate = x])
          BY <2>3
        <4>2. [Command("create") EXCEPT !.separate = x].kind = "create"
          BY <1>18
        <4>. QED BY <4>1, <4>2, Zenon
      <3>2. OwedOK'
        BY <2>1, <2>3, <3>1, RequestOwed DEF Kinds
      <3>. QED BY <2>1, <3>2 DEF ConflictOK
    <2>. QED BY <1>14, <2>2, <2>3 DEF CreationChecked
  <1>15. ASSUME NEW d \in Docs, EditExisting(d) PROVE OwedOK' /\ ConflictOK'
    <2>1. /\ requests' = [requests EXCEPT !["edit"] = "sent"] /\ requests["edit"] # "sent"
          /\ UNCHANGED <<job, answers, editor, load>>
          /\ queue' = Append(queue, [Command("edit") EXCEPT !.doc = d])
      BY <1>15 DEF EditExisting
    <2>2. PICK cmd : queue' = Append(queue, cmd) /\ cmd.kind = "edit"
      BY <2>1, <1>18, Zenon
    <2>3. OwedOK'
      BY <2>1, <2>2, RequestOwed DEF Kinds
    <2>. QED BY <2>1, <2>3 DEF ConflictOK
  <1>16. ASSUME LookForRecovery \/ ReadRecovery PROVE OwedOK' /\ ConflictOK'
    <2>1. UNCHANGED <<queue, job, answers, requests, editor>>
      BY <1>16 DEF LookForRecovery, ReadRecovery, LoadFrame, jobVars
    <2>2. /\ load'.found.status \in {"none", "saved", "dirty", "conflict"}
          /\ load'.found.conflict # NoText => load'.found.status = "conflict"
      <3>1. CASE LookForRecovery
        <4>1. load'.found \in {NoEditor, load.found}
          BY <1>1, <3>1 DEF LookForRecovery, Loads, Ended, NoLoad
        <4>. QED BY <1>6, <4>1 DEF ConflictOK
      <3>2. CASE ReadRecovery
        <4>. DEFINE c == load.change
                    d == load.doc
        <4>1. load'.found \in {NoEditor, Recovered(c, d)}
          BY <1>1, <3>2 DEF ReadRecovery, Loads, Ended, NoLoad
        <4>2. /\ Recovered(c, d).status \in {"none", "saved", "dirty", "conflict"}
              /\ Recovered(c, d).conflict # NoText => Recovered(c, d).status = "conflict"
          BY DEF Recovered, Opened, NoEditor
        <4>. QED BY <1>6, <4>1, <4>2
      <3>. QED BY <1>16, <3>1, <3>2
    <2>. QED BY <2>1, <2>2, EditorOwed DEF ConflictOK
  <1>17. ASSUME RecoveryArrives PROVE OwedOK' /\ ConflictOK'
    <2>1. UNCHANGED <<queue, job, answers, requests>> /\ load'.found = NoEditor
      BY <1>17 DEF RecoveryArrives, LoadFrame, jobVars, Ended, NoLoad
    <2>2. editor' = editor \/ (editor = NoEditor /\ editor' = load.found)
      BY <1>17 DEF RecoveryArrives, EditorOpen, SetEditor
    <2>. QED BY <1>6, <2>1, <2>2, EditorOwed DEF ConflictOK
  <1>. QED BY <1>3, <1>7, <1>8, <1>9, <1>10, <1>11, <1>13, <1>14, <1>15, <1>16, <1>17,
              SaveAnswered, RequestAnswered DEF WindowStep

\* Every answer that is awaited is owed, once, in every state.
LEMMA OwedKept ==
  ASSUME OwedOK, ConflictOK, TypeOK, [Next]_vars
  PROVE  OwedOK' /\ ConflictOK'
  <1>1. ASSUME UNCHANGED <<editor, requests, load>>
        PROVE  /\ \A kind \in Sendable : Awaited(kind)' <=> Awaited(kind)
               /\ ConflictOK'
    BY <1>1 DEF Awaited, ConflictOK
  <1>2. \A kind \in Sendable : kind # "none"
    BY DEF Sendable, Kinds
  <1>3. CASE JobStep \/ Begin
    <2>1. UNCHANGED <<editor, requests, load>>
      BY <1>3, JobShape DEF Begin, StepFrame, JobFrame, windowVars
    <2>. QED BY <1>1, <1>2, <1>3, <2>1, JobOwed, BeginOwed DEF OwedOK
  <1>4. CASE \E c \in Changes, d \in Docs : ForeignWrite(c, d)
    <2>1. UNCHANGED <<editor, requests, load, queue, job, answers>>
      BY <1>4, ForeignMoves DEF jobVars, windowVars
    <2>. QED BY <1>1, <2>1, QuietOwed
  <1>5. CASE UNCHANGED vars
    <2>1. UNCHANGED <<editor, requests, load, queue, job, answers>>
      BY <1>5 DEF vars, jobVars, windowVars
    <2>. QED BY <1>1, <2>1, QuietOwed
  <1>6. CASE Crash \/ Quit
    <2>1. AppStarts
      BY <1>6 DEF Crash, Quit
    <2>2. \A kind \in Sendable : ~Awaited(kind)'
      BY <2>1 DEF AppStarts, Awaited, NoEditor, NoRequests, Sendable, Kinds
    <2>3. ConflictOK'
      BY <2>1 DEF AppStarts, ConflictOK, NoEditor, NoLoad
    <2>. QED BY <1>2, <2>1, <2>2, <2>3, StartOwed DEF OwedOK
  <1>. QED BY <1>3, <1>4, <1>5, <1>6, WindowOwed, StepKinds

LEMMA InitOwed == Init => OwedOK /\ ConflictOK
  <1>. SUFFICES ASSUME Init PROVE OwedOK /\ ConflictOK
    OBVIOUS
  <1>1. queue = <<>> /\ job = NoJob /\ answers = {} /\ editor = NoEditor
        /\ requests = NoRequests /\ load = NoLoad
    BY DEF Init
  <1>2. ConflictOK
    BY <1>1 DEF ConflictOK, NoEditor, NoLoad
  <1>3. ASSUME NEW kind \in Sendable PROVE Once(kind) /\ ~Pending(kind) /\ ~Awaited(kind)
    <2>1. ~Waits(kind) /\ ~Runs(kind) /\ ~Answered(kind)
      BY <1>1, <1>3 DEF Waits, Runs, Answered, Own, NoJob, NoCommand, Sendable, Kinds
    <2>2. ~Awaited(kind)
      BY <1>1, <1>3 DEF Awaited, NoEditor, NoRequests, Sendable, Kinds
    <2>. QED BY <1>1, <2>1, <2>2 DEF Once, Pending
  <1>. QED BY <1>2, <1>3 DEF OwedOK

\* Counted, a command in at most one place is one command or none.
LEMMA OwedCounts ==
  ASSUME NEW kind, Once(kind), TypeOK
  PROVE  Owed(kind) = IF Pending(kind) THEN 1 ELSE 0
  <1>. DEFINE Q == {i \in DOMAIN queue : Own(queue[i], kind)}
              A == {a \in answers : Own(a, kind)}
  <1>1. DOMAIN queue = 1..Len(queue)
    BY DEF TypeOK, JobTypeOK
  <1>2. Owed(kind) = Cardinality(Q) + Cardinality(A) + (IF Runs(kind) THEN 1 ELSE 0)
    BY Zenon DEF Owed, Own, Runs
  <1>3. Q = {} <=> ~Waits(kind)
    BY <1>1 DEF Waits
  <1>4. A = {} <=> ~Answered(kind)
    BY DEF Answered
  <1>5. Q = {} \/ \E x : Q = {x}
    <2>1. \A i, k \in Q : i = k
      BY <1>1 DEF Once
    <2>. HIDE DEF Q
    <2>2. ASSUME NEW x \in Q PROVE Q = {x}
      BY <2>1, <2>2
    <2>. QED BY <2>2
  <1>6. A = {} \/ \E x : A = {x}
    <2>1. \A a, b \in A : a = b
      BY DEF Once
    <2>. HIDE DEF A
    <2>2. ASSUME NEW x \in A PROVE A = {x}
      BY <2>1, <2>2
    <2>. QED BY <2>2
  <1>. HIDE DEF Q, A
  <1>7. Cardinality(Q) = IF Waits(kind) THEN 1 ELSE 0
    BY <1>3, <1>5, FS_EmptySet, FS_Singleton
  <1>8. Cardinality(A) = IF Answered(kind) THEN 1 ELSE 0
    BY <1>4, <1>6, FS_EmptySet, FS_Singleton
  <1>. QED BY <1>2, <1>7, <1>8 DEF Once, Pending

\* The window waits for an answer exactly where one command of its kind is to give it:
\* an answer of save_document, of create_document_draft, of edit_existing_document, of
\* copy_team_template and of switch_document_draft is never lost, given twice or
\* credited to an editor that did not ask for it.
THEOREM AnswersAreOwed == Spec => []AnswersOwed
  <1>. DEFINE Inv == DraftsInv /\ OwedOK /\ ConflictOK
  <1>1. Init => Inv
    BY InitTyped, InitOwed
  <1>2. Inv /\ [Next]_vars => Inv'
    BY StepKept, OwedKept DEF DraftsInv
  <1>3. Inv => AnswersOwed
    <2>. SUFFICES ASSUME Inv PROVE AnswersOwed
      OBVIOUS
    <2>1. \A kind \in Sendable : Owed(kind) = IF Awaited(kind) THEN 1 ELSE 0
      BY OwedCounts DEF DraftsInv, OwedOK
    <2>2. \A k \in Kinds : k \in Sendable /\ k # "save"
      BY DEF Kinds, Sendable
    <2>. QED BY <2>1, <2>2 DEF Awaited, Sendable, AnswersOwed
  <1>. QED BY <1>1, <1>2, <1>3, PTL DEF Spec

-----------------------------------------------------------------------------
(***************************************************************************)
(* What a save answers.  A text that a save has written stays in its file  *)
(* until the window hears of it: no later save is on its way, and no other *)
(* command writes the file of a document that is listed already.           *)
(***************************************************************************)
PlacesAt(c, d) == Placing /\ job.change = c /\ job.doc = d

\* A command other than a save leaves a document that is listed and has a file.
LEMMA FileStands ==
  ASSUME DraftsInv, SeenOK, JobStep, ~IsSave, NEW c \in Changes, NEW d \in Docs,
         Lists(c, d), Holds(c, d) # Absent, ~PlacesAt(c, d)
  PROVE  Lists(c, d)' /\ Holds(c, d)' = Holds(c, d) /\ ~PlacesAt(c, d)'
  <1>. DEFINE j == job.change
              Right == Lists(c, d)' /\ Holds(c, d)' = Holds(c, d) /\ ~PlacesAt(c, d)'
              Recs == [Changes -> Records \cup {Absent, Torn}]
  <1>1. /\ TypeOK /\ job \in Jobs /\ records \in Recs
        /\ trees \in [Changes -> Worktrees \cup {Absent}]
        /\ records[c] \in Records /\ d \in records[c].docs /\ trees[c] # Absent
    BY ReadableFiles DEF DraftsInv, TypeOK, DiskTypeOK, JobTypeOK, Lists, Readable, Holds
  <1>2. ASSUME Readable(records'[c]), d \in records'[c].docs, trees'[c] = trees[c],
               ~PlacesAt(c, d)'
        PROVE  Right
    BY <1>2 DEF Lists, Holds, Readable
  <1>3. ASSUME job' = NoJob PROVE ~PlacesAt(c, d)'
    BY <1>3 DEF PlacesAt, Placing, NoJob
  <1>4. ASSUME NEW at \in Places, Goto(at)
        PROVE  job'.at = at /\ job'.change = j /\ job'.doc = job.doc /\ job'.cmd = job.cmd
    BY <1>1, <1>4 DEF Goto, Jobs
  <1>5. ASSUME NEW at \in Places \ {"file", "unlist", "compare", "rename"}, Goto(at)
        PROVE  ~PlacesAt(c, d)'
    BY <1>4, <1>5 DEF PlacesAt, Placing
  <1>6. ASSUME NEW result, NEW text, Answer(result, text) \/ Finish(result, text)
        PROVE  ~PlacesAt(c, d)'
    BY <1>3, <1>6 DEF Answer, Finish
  <1>7. ASSUME UNCHANGED <<records, trees>>, ~PlacesAt(c, d)' PROVE Right
    BY <1>1, <1>2, <1>7 DEF Lists, Readable
  <1>8. ASSUME NEW recs \in Recs, FailWith(recs), Readable(recs[c]), d \in recs[c].docs
        PROVE  Right
    <2>1. ~PlacesAt(c, d)'
      BY <1>6, <1>8 DEF FailWith
    <2>2. records'[c] = recs[c] /\ trees'[c] = trees[c]
      BY <1>1, <1>8 DEF FailWith
    <2>. QED BY <1>2, <1>8, <2>1, <2>2
  <1>9. ASSUME FailWith(records) PROVE Right
    BY <1>1, <1>8, <1>9 DEF Lists
  <1>10. ASSUME RolledBack, c # j, ~PlacesAt(c, d)' PROVE Right
    <2>1. records'[c] = records[c] /\ trees'[c] = trees[c]
      BY <1>1, <1>10 DEF RolledBack
    <2>. QED BY <1>1, <1>2, <1>10, <2>1 DEF Lists
  <1>11. ASSUME MakeWorktree PROVE Right
    <2>1. UNCHANGED records
      BY <1>11 DEF MakeWorktree
    <2>2. ASSUME NEW fresh \in Changes, records[fresh] = Absent,
                 trees' = [trees EXCEPT ![fresh] = Worktree],
                 job' = [job EXCEPT !.at = "record", !.change = fresh, !.made = TRUE]
          PROVE  Right
      <3>1. c # fresh
        BY <2>2 DEF Lists, Readable
      <3>2. trees'[c] = trees[c]
        BY <1>1, <2>2, <3>1
      <3>3. job'.at = "record"
        BY <1>1, <2>2 DEF Jobs
      <3>. QED BY <1>2, <2>1, <3>2, <3>3 DEF Lists, Readable, PlacesAt, Placing
    <2>3. ASSUME Answer("failed", NoText), UNCHANGED trees PROVE Right
      BY <1>6, <1>7, <2>1, <2>3
    <2>. QED BY <1>11, <2>2, <2>3 DEF MakeWorktree
  <1>12. ASSUME RecordChange PROVE Right
    <2>1. j \in Changes /\ c # j
      BY <1>12 DEF RecordChange, DraftsInv, JobOK, MadeOK, Lists, Readable
    <2>2. ~PlacesAt(c, d)'
      BY <1>5, <1>6, <1>12 DEF RecordChange, Places
    <2>3. ASSUME NEW rec, records' = [records EXCEPT ![j] = rec], UNCHANGED trees PROVE Right
      <3>1. records'[c] = records[c]
        BY <1>1, <2>1, <2>3
      <3>. QED BY <1>2, <2>2, <2>3, <3>1 DEF Lists
    <2>. QED BY <1>10, <1>12, <2>1, <2>2, <2>3 DEF RecordChange
  <1>13. ASSUME SetActive PROVE Right
    <2>1. job.made => c # j
      BY <1>13 DEF SetActive, DraftsInv, JobOK, MadeOK, Lists, NoDocuments
    <2>2. ~PlacesAt(c, d)'
      BY <1>5, <1>6, <1>13 DEF SetActive, Places
    <2>. QED BY <1>7, <1>10, <1>13, <2>1, <2>2 DEF SetActive
  <1>14. ASSUME NEW e \in Docs, ListDocument(e), job.at = "add", ~(c = j /\ d = e) PROVE Right
    <2>. DEFINE text == Holds(j, e)
                listed == [docs |-> records[j].docs \cup {e}, last |-> e]
                at == IF text = Absent THEN "file" ELSE "compare"
    <2>1. j \in Changes /\ records[j] \in Records
      BY <1>14 DEF DraftsInv, JobOK, MadeOK
    <2>2. listed \in Records /\ Readable(listed) /\ Readable(records[j])
          /\ (c = j => d \in listed.docs)
      <3>1. listed \in Records
        BY <2>1 DEF Records
      <3>. QED BY <1>1, <2>1, <3>1, ReadableFiles
    <2>3. ASSUME NEW left \in {records[j], listed}
          PROVE  /\ [records EXCEPT ![j] = left] \in Recs
                 /\ Readable([records EXCEPT ![j] = left][c])
                 /\ d \in [records EXCEPT ![j] = left][c].docs
      BY <1>1, <2>1, <2>2, <2>3 DEF Lists
    <2>4. CASE /\ records' = [records EXCEPT ![j] = listed] /\ UNCHANGED <<active, trees>>
               /\ IF text \in {Absent, Base}
                  THEN job' = [job EXCEPT !.at = at, !.doc = e, !.seen = text,
                                          !.before = records[j]]
                  ELSE Finish("done", text)
      <3>1. ~PlacesAt(c, d)'
        <4>1. CASE Finish("done", text)
          BY <1>6, <4>1
        <4>2. CASE job' = [job EXCEPT !.at = at, !.doc = e, !.seen = text, !.before = records[j]]
          <5>1. job'.change = j /\ job'.doc = e
            BY <1>1, <4>2 DEF Jobs
          <5>. QED BY <1>14, <5>1 DEF PlacesAt
        <4>. QED BY <2>4, <4>1, <4>2
      <3>. HIDE DEF listed
      <3>. QED BY <1>2, <2>3, <2>4, <3>1
    <2>5. ASSUME NEW left \in LeftBy(records[j], listed), FailWith([records EXCEPT ![j] = left])
          PROVE  Right
      <3>1. left \in {records[j], listed}
        BY <2>2, <2>5 DEF LeftBy, Readable
      <3>. HIDE DEF listed, Right
      <3>. QED BY <1>8, <2>3, <2>5, <3>1
    <2>. QED BY <1>14, <2>4, <2>5 DEF ListDocument
  <1>15. ASSUME AddNewDocument \/ AddExistingDocument \/ AddTemplate PROVE Right
    <2>1. job.at = "add"
      BY <1>15 DEF AddNewDocument, AddExistingDocument, AddTemplate
    <2>2. CASE AddNewDocument
      <3>1. ASSUME NEW e \in Docs, Holds(j, e) = Absent, ListDocument(e) PROVE Right
        BY <1>14, <2>1, <3>1
      <3>. HIDE DEF Right
      <3>. QED BY <1>9, <2>2, <3>1 DEF AddNewDocument
    <2>3. CASE AddExistingDocument
      <3>1. job.cmd.doc \in Docs
        BY <1>1, <2>3 DEF AddExistingDocument, Jobs, Commands
      <3>2. ASSUME ~Lists(j, job.cmd.doc), ListDocument(job.cmd.doc) PROVE Right
        BY <1>14, <2>1, <3>1, <3>2
      <3>3. ASSUME NEW text, Finish("done", text), UNCHANGED <<active, records, trees>>
            PROVE  Right
        BY <1>6, <1>7, <3>3
      <3>. HIDE DEF Right
      <3>. QED BY <1>9, <2>3, <3>2, <3>3 DEF AddExistingDocument
    <2>4. CASE AddTemplate
      BY <1>6, <1>7, <1>9, <2>4 DEF AddTemplate
    <2>. QED BY <1>15, <2>2, <2>3, <2>4
  <1>16. ASSUME NEW text \in Contents, trees' = [trees EXCEPT ![j][job.doc] = text],
                j \in Changes, job.doc \in Docs, trees[j] # Absent, Placing,
                UNCHANGED records, ~PlacesAt(c, d)'
         PROVE  Right
    <2>1. ~(c = j /\ d = job.doc)
      BY <1>16 DEF PlacesAt
    <2>2. trees[j] \in [Docs -> Contents] /\ trees'[j] = [trees[j] EXCEPT ![job.doc] = text]
      BY <1>1, <1>16 DEF Worktrees
    <2>3. trees'[j] # Absent
      <3>1. trees'[j] \in Worktrees
        BY <1>16, <2>2 DEF Worktrees
      <3>. QED BY <3>1, ReadableFiles
    <2>4. c # j => trees'[c] = trees[c]
      BY <1>1, <1>16
    <2>5. c = j => trees'[c][d] = trees[c][d]
      BY <2>1, <2>2
    <2>6. Holds(c, d)' = Holds(c, d)
      BY <1>16, <2>3, <2>4, <2>5 DEF Holds
    <2>. QED BY <1>16, <2>6 DEF Lists, Readable
  <1>17. ASSUME Placing PROVE j \in Changes /\ job.doc \in Docs /\ ~(c = j /\ d = job.doc)
    BY <1>17 DEF DraftsInv, JobOK, PlacingOK, PlacesAt
  <1>18. ASSUME NEW at \in Places, Goto(at), Placing PROVE ~PlacesAt(c, d)'
    BY <1>4, <1>17, <1>18 DEF PlacesAt
  <1>19. ASSUME CreateFile PROVE Right
    <2>1. Placing /\ trees[j] # Absent /\ UNCHANGED records
      BY <1>19 DEF CreateFile, Placing, DraftsInv, JobOK, MadeOK
    <2>2. ~PlacesAt(c, d)'
      BY <1>6, <1>18, <1>19, <2>1 DEF CreateFile, Places
    <2>3. \E text \in Contents : trees' = [trees EXCEPT ![j][job.doc] = text]
      BY <1>19, TextsTyped DEF CreateFile, Contents
    <2>. QED BY <1>16, <1>17, <2>1, <2>2, <2>3
  <1>20. ASSUME Unlist PROVE Right
    <2>1. /\ j \in Changes /\ job.before \in Records /\ records[j] \in Records
          /\ records[j].docs = job.before.docs \cup {job.doc} /\ ~(c = j /\ d = job.doc)
      BY <1>17, <1>20, ReadableFiles DEF Unlist, DraftsInv, JobOK, PlacingOK, Placing, Records
    <2>2. PICK left \in {records[j], job.before} : FailWith([records EXCEPT ![j] = left])
      BY <1>20 DEF Unlist, Restored
    <2>3. [records EXCEPT ![j] = left] \in Recs
      BY <1>1, <2>1
    <2>4. Readable([records EXCEPT ![j] = left][c]) /\ d \in [records EXCEPT ![j] = left][c].docs
      <3>1. CASE c = j
        BY <1>1, <2>1, <3>1, ReadableFiles
      <3>2. CASE c # j
        BY <1>1, <3>2 DEF Lists
      <3>. QED BY <3>1, <3>2
    <2>. HIDE DEF Right, Recs
    <2>. QED BY <1>8, <2>2, <2>3, <2>4
  <1>21. ASSUME TouchRecord PROVE Right
    <2>1. job.at = "touch" /\ UNCHANGED trees /\ Readable(records[j]) /\ j \in Changes
      BY <1>21 DEF TouchRecord, DraftsInv, JobOK, MadeOK
    <2>2. \E left \in LeftBy(records[j], records[j]) : records' = [records EXCEPT ![j] = left]
      BY <1>21, <2>1 DEF TouchRecord, IsSave, LeftBy, Readable
    <2>3. UNCHANGED records
      BY <1>1, <2>1, <2>2 DEF LeftBy, Readable
    <2>4. ~PlacesAt(c, d)'
      BY <1>5, <1>6, <1>21 DEF TouchRecord, Places, IsSave
    <2>. QED BY <1>7, <2>1, <2>3, <2>4
  <1>22. ~WriteJournal /\ ~RemoveJournal
    BY DEF WriteJournal, RemoveJournal, Saving, DraftsInv, JobOK, SavingOK
  <1>23. ASSUME CompareFile PROVE Right
    <2>1. Placing /\ UNCHANGED <<records, trees>> /\ job.cmd.kind # "save"
      BY <1>23 DEF CompareFile, Placing, diskVars, IsSave
    <2>2. ASSUME NEW seen, job' = [job EXCEPT !.at = "rename", !.seen = seen]
          PROVE  ~PlacesAt(c, d)'
      <3>1. job'.change = j /\ job'.doc = job.doc
        BY <1>1, <2>2 DEF Jobs
      <3>. QED BY <1>17, <2>1, <3>1 DEF PlacesAt
    <2>3. ~PlacesAt(c, d)'
      BY <1>18, <1>23, <2>1, <2>2 DEF CompareFile, NotReplaced, Places
    <2>. QED BY <1>7, <2>1, <2>3
  <1>24. ASSUME RenameFile PROVE Right
    <2>1. Placing /\ UNCHANGED records /\ job.cmd.kind # "save" /\ job.at = "rename"
          /\ Holds(j, job.doc) # Absent /\ trees[j] # Absent
      BY <1>24 DEF RenameFile, Placing, IsSave, DraftsInv, JobOK, SavingOK, Holds
    <2>2. ~PlacesAt(c, d)'
      BY <1>6, <1>18, <1>24, <2>1 DEF RenameFile, NotReplaced, Places
    <2>3. Holds(j, job.doc) \in Contents /\ Identified \in Contents
      BY <1>1, <1>17, <2>1, TextsTyped DEF Holds, Worktrees, Contents
    <2>4. \E text \in Contents : trees' = [trees EXCEPT ![j][job.doc] = text]
      BY <1>24, <2>1, <2>3 DEF RenameFile
    <2>. QED BY <1>16, <1>17, <2>1, <2>2, <2>4
  <1>25. ASSUME CloseActive PROVE Right
    BY <1>6, <1>7, <1>25 DEF CloseActive
  <1>. HIDE DEF Right
  <1>26. Right
    BY <1>11, <1>12, <1>13, <1>15, <1>19, <1>20, <1>21, <1>22, <1>23, <1>24, <1>25 DEF JobStep
  <1>. QED BY <1>26 DEF Right

Mine(x) == x.kind = "save" /\ x.mine
SavePlaces == {"touch", "journal", "compare", "rename", "unjournal"}

\* A save of the open editor has its document and the text it sent.
AsSent(x) == x.change = editor.change /\ x.doc = editor.doc /\ x.text = editor.snap
NoSaveWaits == \A i \in 1..Len(queue) : queue[i].kind # "save"
Written(c, d, t) == Holds(c, d) \in {t} \cup ForeignTexts

QueueSaves ==
  \A i \in 1..Len(queue) : Mine(queue[i]) =>
    AsSent(queue[i]) /\ \A k \in 1..Len(queue) : k > i => queue[k].kind # "save"

JobSaves ==
  /\ IsSave => job.at \in SavePlaces
  /\ Mine(job.cmd) => AsSent(job.cmd) /\ NoSaveWaits
  /\ job.at = "unjournal" => Written(job.change, job.doc, job.cmd.text)

\* Where the window's save has answered, no other save is there to write after it.
AnswerSaves ==
  \A a \in answers : Mine(a) =>
    /\ ~IsSave /\ NoSaveWaits
    /\ a.result = "done" =>
         /\ Written(editor.change, editor.doc, editor.snap)
         /\ Lists(editor.change, editor.doc) /\ ~PlacesAt(editor.change, editor.doc)

SavesOK == QueueSaves /\ JobSaves /\ AnswerSaves

\* What a save does: it is done only once its text is in the file.
LEMMA SaveGoes ==
  ASSUME TypeOK, IsSave, job.at \in SavePlaces, JobStep
  PROVE  /\ job'.at \in SavePlaces \cup {"none"}
         /\ job'.at = "unjournal" =>
              /\ trees' = [trees EXCEPT ![job.change][job.doc] = job.cmd.text]
              /\ job'.change = job.change /\ job'.doc = job.doc /\ job'.cmd = job.cmd
              /\ job.at = "rename"
         /\ \A a \in answers' \ answers :
              a.result = "done" => job.at = "unjournal" /\ UNCHANGED <<records, trees>>
  <1>. DEFINE Ends == job'.at = "none" /\ \A a \in answers' \ answers : a.result # "done"
              Goes(at) == /\ job'.at = at /\ job'.change = job.change /\ job'.doc = job.doc
                          /\ job'.cmd = job.cmd /\ UNCHANGED answers
  <1>1. job \in Jobs
    BY DEF TypeOK, JobTypeOK
  <1>2. ASSUME NEW result \in {"failed", "conflict"}, NEW text, Answer(result, text) PROVE Ends
    BY <1>2 DEF Answer, Reply, NoJob
  <1>3. ASSUME NEW result \in {"failed", "conflict"}, NEW text, Finish(result, text) PROVE Ends
    BY <1>2, <1>3 DEF Finish
  <1>4. ASSUME NEW at \in Places, Goto(at) PROVE Goes(at)
    BY <1>1, <1>4 DEF Goto, Jobs
  <1>5. ASSUME NEW at \in Places, NEW seen, job' = [job EXCEPT !.at = at, !.seen = seen],
               UNCHANGED answers
        PROVE  Goes(at)
    BY <1>1, <1>5 DEF Jobs
  <1>. HIDE DEF Ends, Goes
  <1>6. ASSUME TouchRecord PROVE Ends \/ Goes("journal")
    BY <1>2, <1>4, <1>6 DEF TouchRecord, IsSave, Places
  <1>7. ASSUME WriteJournal PROVE Ends \/ Goes("compare")
    BY <1>2, <1>3, <1>5, <1>7 DEF WriteJournal, Places
  <1>8. ASSUME CompareFile PROVE Ends \/ Goes("rename")
    BY <1>2, <1>3, <1>5, <1>8 DEF CompareFile, NotReplaced, IsSave, Places
  <1>9. ASSUME RenameFile
        PROVE  \/ Ends
               \/ /\ Goes("unjournal") /\ job.at = "rename"
                  /\ trees' = [trees EXCEPT ![job.change][job.doc] = job.cmd.text]
    BY <1>2, <1>4, <1>9 DEF RenameFile, NotReplaced, IsSave, Places
  <1>10. ASSUME RemoveJournal
         PROVE  job'.at = "none" /\ job.at = "unjournal" /\ UNCHANGED <<records, trees>>
    <2>1. job.at = "unjournal" /\ UNCHANGED <<records, trees>>
      BY <1>10 DEF RemoveJournal
    <2>2. JobEnds
      BY <1>10, FinishEnds DEF RemoveJournal
    <2>. QED BY <2>1, <2>2 DEF JobEnds, Answer, NoJob
  <1>11. TouchRecord \/ WriteJournal \/ CompareFile \/ RenameFile \/ RemoveJournal
    BY DEF SavePlaces, JobStep, MakeWorktree, RecordChange, SetActive, AddNewDocument,
           AddExistingDocument, AddTemplate, CreateFile, Unlist, CloseActive
  <1>12. CASE Ends
    BY <1>12 DEF Ends
  <1>13. CASE Goes("journal") \/ Goes("compare") \/ Goes("rename")
    BY <1>13 DEF Goes, SavePlaces
  <1>14. CASE /\ Goes("unjournal") /\ job.at = "rename"
              /\ trees' = [trees EXCEPT ![job.change][job.doc] = job.cmd.text]
    BY <1>14 DEF Goes, SavePlaces
  <1>15. CASE RemoveJournal
    BY <1>10, <1>15
  <1>. QED BY <1>6, <1>7, <1>8, <1>9, <1>11, <1>12, <1>13, <1>14, <1>15

\* The command that holds the lock goes on or answers.
LEMMA JobSaved ==
  ASSUME SavesOK, DraftsInv, DraftsInv', SeenOK, OwedOK, JobStep
  PROVE  SavesOK'
  <1>1. UNCHANGED <<queue, editor>> /\ (JobEnds \/ JobGoesOn) /\ TypeOK
    BY JobShape DEF DraftsInv, StepFrame, JobFrame, windowVars
  <1>2. QueueSaves'
    BY <1>1 DEF SavesOK, QueueSaves, Mine, AsSent
  <1>3. NoSaveWaits' <=> NoSaveWaits
    BY <1>1 DEF NoSaveWaits
  <1>4. job' = NoJob \/ job'.cmd = job.cmd
    BY <1>1 DEF JobEnds, JobGoesOn, Answer
  <1>5. NoJob.at = "none" /\ NoJob.cmd.kind = "none"
    BY DEF NoJob, NoCommand
  <1>6. JobSaves'
    <2>1. IsSave' => IsSave /\ job'.at \in SavePlaces
      <3>1. IsSave' => IsSave /\ JobGoesOn
        BY <1>1, <1>4, <1>5 DEF IsSave, JobEnds, Answer
      <3>2. JobGoesOn => job'.at # "none"
        BY <1>5 DEF JobGoesOn, DraftsInv, TypeOK, JobTypeOK
      <3>3. IsSave => job.at \in SavePlaces
        BY DEF SavesOK, JobSaves
      <3>. QED BY <1>1, <3>1, <3>2, <3>3, SaveGoes
    <2>2. Mine(job'.cmd) => AsSent(job.cmd)' /\ NoSaveWaits'
      BY <1>1, <1>3, <1>4, <1>5 DEF SavesOK, JobSaves, Mine, AsSent
    <2>3. ASSUME job'.at = "unjournal" PROVE Written(job.change, job.doc, job.cmd.text)'
      <3>1. IsSave'
        BY <2>3 DEF DraftsInv, JobOK, SavingOK, Saving
      <3>2. IsSave /\ job.at \in SavePlaces
        BY <2>1, <3>1 DEF SavesOK, JobSaves
      <3>3. /\ trees' = [trees EXCEPT ![job.change][job.doc] = job.cmd.text]
            /\ job'.change = job.change /\ job'.doc = job.doc /\ job'.cmd = job.cmd
            /\ job.at = "rename"
        BY <1>1, <2>3, <3>2, SaveGoes
      <3>4. /\ job.change \in Changes /\ job.doc \in Docs /\ trees[job.change] # Absent
            /\ job.cmd.text \in Kept
        BY <3>2, <3>3
           DEF DraftsInv, JobOK, SavingOK, Saving, Holds, TypeOK, JobTypeOK, Jobs, Commands, IsSave
      <3>5. trees[job.change] \in [Docs -> Contents]
            /\ trees'[job.change] = [trees[job.change] EXCEPT ![job.doc] = job.cmd.text]
        BY <1>1, <3>3, <3>4 DEF TypeOK, DiskTypeOK, Worktrees
      <3>6. trees'[job.change] # Absent /\ trees'[job.change][job.doc] = job.cmd.text
        <4>1. trees'[job.change] \in Worktrees
          BY <3>4, <3>5 DEF Worktrees, Contents
        <4>. QED BY <3>4, <3>5, <4>1, ReadableFiles
      <3>. QED BY <3>3, <3>6 DEF Written, Holds
    <2>. QED BY <2>1, <2>2, <2>3 DEF JobSaves
  <1>7. ASSUME NEW a \in answers', Mine(a)
        PROVE  /\ ~IsSave' /\ NoSaveWaits'
               /\ a.result = "done" =>
                    (/\ Written(editor.change, editor.doc, editor.snap)
                     /\ Lists(editor.change, editor.doc)
                     /\ ~PlacesAt(editor.change, editor.doc))'
    <2>1. CASE a \in answers
      <3>1. /\ ~IsSave /\ NoSaveWaits
            /\ a.result = "done" =>
                 /\ Written(editor.change, editor.doc, editor.snap)
                 /\ Lists(editor.change, editor.doc) /\ ~PlacesAt(editor.change, editor.doc)
        BY <1>7, <2>1 DEF SavesOK, AnswerSaves
      <3>2. ~IsSave'
        BY <1>4, <1>5, <3>1 DEF IsSave
      <3>3. editor.status = "saving"
        <4>1. Pending("save")
          BY <1>7, <2>1 DEF Pending, Answered, Own, Mine
        <4>. QED BY <4>1 DEF OwedOK, Awaited, Sendable
      <3>4. editor.change \in Changes /\ editor.doc \in Docs /\ editor.snap \in Kept
        BY <1>1, <3>3 DEF TypeOK, WindowTypeOK, Editors, NoEditor
      <3>5. Written(editor.change, editor.doc, editor.snap) => Holds(editor.change, editor.doc) # Absent
        BY <3>4, TextsTyped DEF Written
      <3>6. PICK c \in Changes, d \in Docs : c = editor.change /\ d = editor.doc
        BY <3>4
      <3>7. a.result = "done" => Lists(c, d) /\ Holds(c, d) # Absent /\ ~PlacesAt(c, d)
        BY <3>1, <3>5, <3>6
      <3>8. a.result = "done" => Lists(c, d)' /\ Holds(c, d)' = Holds(c, d) /\ ~PlacesAt(c, d)'
        BY <3>1, <3>7, FileStands
      <3>. QED BY <1>1, <1>3, <3>1, <3>2, <3>6, <3>8 DEF Written
    <2>2. CASE a \notin answers
      <3>1. PICK result, text :
              /\ answers' = answers \cup {Reply(job.cmd, job.change, job.doc, result, text)}
              /\ job' = NoJob
        BY <1>1, <1>7, <2>2 DEF JobEnds, JobGoesOn, Answer
      <3>2. Mine(job.cmd)
        BY <1>7, <2>2, <3>1 DEF Reply, Mine
      <3>3. IsSave /\ job.at \in SavePlaces /\ AsSent(job.cmd) /\ NoSaveWaits
        BY <3>2 DEF SavesOK, JobSaves, Mine, IsSave
      <3>4. ~IsSave'
        BY <1>5, <3>1 DEF IsSave
      <3>5. a.result = "done" => job.at = "unjournal" /\ UNCHANGED <<records, trees>>
        BY <1>1, <2>2, <3>3, SaveGoes
      <3>6. a.result = "done" => /\ Written(job.change, job.doc, job.cmd.text)
                                 /\ job.change = job.cmd.change /\ job.doc = job.cmd.doc
                                 /\ Lists(job.change, job.doc)
        BY <3>5 DEF SavesOK, JobSaves, DraftsInv, JobOK, SavingOK, Saving
      <3>7. ~PlacesAt(editor.change, editor.doc)'
        BY <3>1 DEF PlacesAt, Placing, NoJob
      <3>8. a.result = "done" =>
              Written(editor.change, editor.doc, editor.snap)' /\ Lists(editor.change, editor.doc)'
        BY <1>1, <3>3, <3>5, <3>6 DEF AsSent, Written, Holds, Lists, Readable
      <3>. QED BY <1>3, <3>3, <3>4, <3>7, <3>8
    <2>. QED BY <2>1, <2>2
  <1>8. AnswerSaves'
    BY <1>7 DEF AnswerSaves
  <1>. QED BY <1>2, <1>6, <1>8 DEF SavesOK

\* The first command of the queue takes the lock, or is refused.
LEMMA BeginSaved ==
  ASSUME SavesOK, TypeOK, Begin
  PROVE  SavesOK'
  <1>. DEFINE cmd == Head(queue)
              reply == Reply(cmd, cmd.change, cmd.doc, "failed", NoText)
  <1>1. queue \in Seq(Commands) /\ queue # <<>> /\ queue' = Tail(queue) /\ job = NoJob
        /\ UNCHANGED <<editor, records, trees>>
    BY DEF Begin, TypeOK, JobTypeOK, diskVars, JobFrame, windowVars
  <1>2. \/ /\ job' = [NoJob EXCEPT !.at = FirstStep(cmd), !.cmd = cmd, !.doc = cmd.doc,
                        !.change = IF FirstStep(cmd) = "add" THEN active ELSE cmd.change]
           /\ FirstStep(cmd) # "refused" /\ UNCHANGED answers
        \/ UNCHANGED job /\ answers' = answers \cup {reply}
    BY DEF Begin
  <1>3. /\ FirstStep(cmd) \in {"touch", "close", "worktree", "add", "refused"}
        /\ cmd.kind = "save" => FirstStep(cmd) \in {"touch", "refused"}
    BY DEF FirstStep
  <1>4. \/ /\ job'.cmd = cmd /\ job'.at \in {"touch", "close", "worktree", "add"}
           /\ cmd.kind = "save" => job'.at = "touch"
           /\ UNCHANGED answers
        \/ UNCHANGED job /\ answers' = answers \cup {reply}
    BY <1>2, <1>3 DEF NoJob
  <1>5. /\ reply.kind = cmd.kind /\ reply.mine = cmd.mine /\ reply.result = "failed"
        /\ NoJob.at = "none" /\ NoJob.cmd.kind = "none"
    BY DEF Reply, NoJob, NoCommand
  <1>. HIDE DEF reply
  <1>6. /\ Len(queue) \in Nat \ {0} /\ Len(queue') = Len(queue) - 1
        /\ cmd = queue[1] /\ 1 \in 1..Len(queue)
    BY <1>1
  <1>7. \A i \in 1..Len(queue') : i + 1 \in 1..Len(queue) /\ queue'[i] = queue[i + 1] /\ i + 1 > 1
    BY <1>1, <1>6, HeadTailProperties
  <1>. HIDE DEF cmd
  <1>8. Mine(cmd) => AsSent(cmd) /\ NoSaveWaits'
    <2>1. Mine(cmd) => AsSent(cmd) /\ \A k \in 1..Len(queue) : k > 1 => queue[k].kind # "save"
      BY <1>6 DEF SavesOK, QueueSaves
    <2>. QED BY <1>7, <2>1 DEF NoSaveWaits
  <1>9. NoSaveWaits => cmd.kind # "save" /\ NoSaveWaits'
    BY <1>6, <1>7 DEF NoSaveWaits
  <1>10. QueueSaves'
    <2>1. \A i, k \in 1..Len(queue') : k > i => k + 1 > i + 1
      BY <1>6
    <2>2. \A x : AsSent(x)' <=> AsSent(x)
      BY <1>1 DEF AsSent
    <2>3. ASSUME NEW i \in 1..Len(queue'), Mine(queue'[i])
          PROVE  AsSent(queue'[i]) /\ \A k \in 1..Len(queue') : k > i => queue'[k].kind # "save"
      <3>1. /\ i + 1 \in 1..Len(queue) /\ queue'[i] = queue[i + 1]
        BY <1>7
      <3>2. AsSent(queue[i + 1])
            /\ \A k \in 1..Len(queue) : k > i + 1 => queue[k].kind # "save"
        BY <2>3, <3>1 DEF SavesOK, QueueSaves
      <3>. QED BY <1>7, <2>1, <3>1, <3>2
    <2>. QED BY <1>1, <2>3 DEF QueueSaves, AsSent
  <1>11. JobSaves'
    <2>1. IsSave' => job'.at \in SavePlaces
      BY <1>1, <1>4, <1>5 DEF IsSave, SavePlaces
    <2>2. Mine(job'.cmd) => AsSent(job.cmd)' /\ NoSaveWaits'
      BY <1>1, <1>4, <1>5, <1>8 DEF AsSent, Mine
    <2>3. job'.at # "unjournal"
      BY <1>1, <1>4, <1>5
    <2>. QED BY <2>1, <2>2, <2>3 DEF JobSaves
  <1>12. ASSUME NEW a \in answers', Mine(a)
         PROVE  /\ ~IsSave' /\ NoSaveWaits'
                /\ a.result = "done" =>
                     (/\ Written(editor.change, editor.doc, editor.snap)
                      /\ Lists(editor.change, editor.doc)
                      /\ ~PlacesAt(editor.change, editor.doc))'
    <2>1. CASE a \in answers
      <3>1. /\ NoSaveWaits
            /\ a.result = "done" =>
                 /\ Written(editor.change, editor.doc, editor.snap)
                 /\ Lists(editor.change, editor.doc) /\ ~PlacesAt(editor.change, editor.doc)
        BY <1>12, <2>1 DEF SavesOK, AnswerSaves
      <3>2. ~IsSave'
        BY <1>1, <1>4, <1>5, <1>9, <3>1 DEF IsSave
      <3>3. ~Placing'
        BY <1>1, <1>4, <1>5 DEF Placing
      <3>. QED BY <1>1, <1>9, <3>1, <3>2, <3>3 DEF Written, Holds, Lists, Readable, PlacesAt
    <2>2. CASE a \notin answers
      <3>1. a = reply /\ UNCHANGED job
        BY <1>4, <1>12, <2>2
      <3>. QED BY <1>1, <1>5, <1>8, <1>12, <3>1 DEF Mine, IsSave
    <2>. QED BY <2>1, <2>2
  <1>13. AnswerSaves'
    BY <1>12 DEF AnswerSaves
  <1>. QED BY <1>10, <1>11, <1>13 DEF SavesOK

\* Nothing of the window is pending: what is left of its saves answers nobody.
LEMMA NothingSaved ==
  ASSUME SavesOK, TypeOK, UNCHANGED trees, JobSame, ~Pending("save")'
  PROVE  SavesOK'
  <1>1. /\ \A i \in 1..Len(queue') : ~Mine(queue'[i])
        /\ ~Mine(job'.cmd) /\ \A a \in answers' : ~Mine(a)
    BY DEF Pending, Waits, Runs, Answered, Own, Mine
  <1>2. /\ IsSave' <=> IsSave
        /\ job'.at = job.at /\ job'.change = job.change /\ job'.doc = job.doc
        /\ job'.cmd.text = job.cmd.text
    BY MarkedFields DEF IsSave
  <1>3. job'.at = "unjournal" => Written(job.change, job.doc, job.cmd.text)'
    BY <1>2 DEF SavesOK, JobSaves, Written, Holds
  <1>4. JobSaves'
    BY <1>1, <1>2, <1>3 DEF JobSaves, SavesOK
  <1>5. QueueSaves' /\ AnswerSaves'
    BY <1>1 DEF QueueSaves, AnswerSaves
  <1>. QED BY <1>4, <1>5 DEF SavesOK

\* What the window leaves of the saves while it waits for one: marks, other commands behind
\* them, and fewer answers.
Carries(x, y) == /\ y.kind = x.kind /\ y.change = x.change /\ y.doc = x.doc /\ y.text = x.text
                 /\ y.mine => x.mine

Carried ==
  /\ job'.cmd.mine => job.cmd.mine
  /\ \A i \in 1..Len(queue') :
       queue'[i].kind = "save" => i \in 1..Len(queue) /\ Carries(queue[i], queue'[i])
  /\ \A a \in answers' : Mine(a) => \E b \in answers : Mine(b) /\ b.result = a.result

LEMMA CarriedSaves ==
  ASSUME SavesOK, TypeOK, UNCHANGED <<records, trees>>, JobSame, Carried,
         editor'.change = editor.change, editor'.doc = editor.doc, editor'.snap = editor.snap
  PROVE  SavesOK'
  <1>1. /\ IsSave' <=> IsSave
        /\ Placing' <=> Placing
        /\ job'.at = job.at /\ job'.change = job.change /\ job'.doc = job.doc
        /\ Carries(job.cmd, job'.cmd)
    BY MarkedFields DEF IsSave, Placing, Carries, Carried
  <1>2. \A x, y : Carries(x, y) /\ Mine(y) => Mine(x) /\ (AsSent(x) => AsSent(y)')
    BY DEF Carries, Mine, AsSent
  <1>3. NoSaveWaits => NoSaveWaits'
    BY DEF NoSaveWaits, Carried, Carries
  <1>4. QueueSaves'
    <2>1. ASSUME NEW i \in 1..Len(queue'), Mine(queue'[i])
          PROVE  /\ AsSent(queue[i])'
                 /\ \A k \in 1..Len(queue') : k > i => queue'[k].kind # "save"
      <3>1. i \in 1..Len(queue) /\ Carries(queue[i], queue'[i])
        BY <2>1 DEF Carried, Mine
      <3>2. Mine(queue[i])
        BY <1>2, <2>1, <3>1
      <3>3. AsSent(queue[i]) /\ \A k \in 1..Len(queue) : k > i => queue[k].kind # "save"
        BY <3>1, <3>2 DEF SavesOK, QueueSaves
      <3>4. AsSent(queue[i])'
        BY <1>2, <2>1, <3>1, <3>3
      <3>5. \A k \in 1..Len(queue') : k > i => queue'[k].kind # "save"
        BY <3>3 DEF Carried, Carries
      <3>. QED BY <3>4, <3>5
    <2>. QED BY <2>1 DEF QueueSaves, AsSent
  <1>5. JobSaves'
    <2>1. Mine(job'.cmd) => AsSent(job.cmd)' /\ NoSaveWaits'
      BY <1>1, <1>2, <1>3 DEF SavesOK, JobSaves, AsSent
    <2>2. job'.at = "unjournal" => Written(job.change, job.doc, job.cmd.text)'
      BY <1>1 DEF SavesOK, JobSaves, Written, Holds, Carries
    <2>. QED BY <1>1, <2>1, <2>2 DEF SavesOK, JobSaves
  <1>6. AnswerSaves'
    <2>1. ASSUME NEW a \in answers', Mine(a)
          PROVE  /\ ~IsSave' /\ NoSaveWaits'
                 /\ a.result = "done" =>
                      (/\ Written(editor.change, editor.doc, editor.snap)
                       /\ Lists(editor.change, editor.doc)
                       /\ ~PlacesAt(editor.change, editor.doc))'
      <3>1. PICK b \in answers : Mine(b) /\ b.result = a.result
        BY <2>1 DEF Carried
      <3>2. /\ ~IsSave /\ NoSaveWaits
            /\ a.result = "done" =>
                 /\ Written(editor.change, editor.doc, editor.snap)
                 /\ Lists(editor.change, editor.doc) /\ ~PlacesAt(editor.change, editor.doc)
        BY <3>1 DEF SavesOK, AnswerSaves
      <3>. QED BY <1>1, <1>3, <3>2 DEF Written, Holds, Lists, Readable, PlacesAt
    <2>. QED BY <2>1 DEF AnswerSaves
  <1>. QED BY <1>4, <1>5, <1>6 DEF SavesOK

\* A restart marks the commands that are there and takes one answer.
LEMMA RestartCarries ==
  ASSUME TypeOK, NEW replaced \in BOOLEAN, NEW a \in answers,
         answers' = Remaining(a, replaced), Restarted(replaced)
  PROVE  Carried
  <1>. DEFINE Old(cmd) == [cmd EXCEPT !.stale = TRUE, !.mine = @ /\ ~replaced]
              Told(b) == [b EXCEPT !.mine = @ /\ ~replaced]
  <1>1. /\ queue \in Seq(Commands) /\ job \in Jobs /\ job.cmd \in Commands
        /\ answers \subseteq Answers
    BY DEF TypeOK, JobTypeOK, Jobs
  <1>2. \A cmd \in Commands : Carries(cmd, Old(cmd))
    <2>1. \A cmd \in Commands :
            /\ Old(cmd).kind = cmd.kind /\ Old(cmd).change = cmd.change
            /\ Old(cmd).doc = cmd.doc /\ Old(cmd).text = cmd.text
            /\ Old(cmd).mine = (cmd.mine /\ ~replaced)
      BY DEF Commands
    <2>. HIDE DEF Old
    <2>. QED BY <2>1 DEF Carries
  <1>3. \A b \in Answers : /\ Told(b).kind = b.kind /\ Told(b).result = b.result
                           /\ Told(b).mine = (b.mine /\ ~replaced)
    BY DEF Answers
  <1>4. queue' = [i \in DOMAIN queue |-> Old(queue[i])] /\ DOMAIN queue = 1..Len(queue)
    <2>1. queue' = [i \in DOMAIN queue |-> Old(queue[i])]
      BY Zenon DEF Restarted
    <2>2. DOMAIN queue = 1..Len(queue)
      BY <1>1
    <2>. QED BY <2>1, <2>2
  <1>5. job' = IF job = NoJob THEN job ELSE [job EXCEPT !.cmd = Old(@)]
    BY DEF Restarted
  <1>6. answers' = {Told(b) : b \in answers \ {a}}
    BY DEF Remaining
  <1>7. job'.cmd.mine => job.cmd.mine
    <2>1. CASE job = NoJob
      BY <1>5, <2>1
    <2>2. CASE job # NoJob
      <3>1. job'.cmd = Old(job.cmd)
        BY <1>1, <1>5, <2>2 DEF Jobs
      <3>. HIDE DEF Old
      <3>. QED BY <1>1, <1>2, <3>1 DEF Carries
    <2>. QED BY <2>1, <2>2
  <1>. HIDE DEF Old, Told
  <1>8. Len(queue') = Len(queue) /\ \A i \in 1..Len(queue) : queue'[i] = Old(queue[i])
    <2>1. Len(queue) \in Nat /\ DOMAIN queue' = 1..Len(queue)
      BY <1>1, <1>4
    <2>2. queue' = [i \in 1..Len(queue) |-> Old(queue[i])]
      BY <1>4
    <2>3. Len(queue') = Len(queue)
      BY <2>1, <2>2
    <2>. QED BY <2>2, <2>3
  <1>9. \A i \in 1..Len(queue') : i \in 1..Len(queue) /\ Carries(queue[i], queue'[i])
    BY <1>1, <1>2, <1>8
  <1>10. ASSUME NEW b \in answers', Mine(b)
         PROVE  \E x \in answers : Mine(x) /\ x.result = b.result
    <2>1. PICK x \in answers \ {a} : b = Told(x)
      BY <1>6
    <2>2. b.kind = x.kind /\ b.result = x.result /\ b.mine = (x.mine /\ ~replaced)
      BY <1>1, <1>3, <2>1
    <2>. QED BY <1>10, <2>2 DEF Mine
  <1>. QED BY <1>7, <1>9, <1>10 DEF Carried

LEMMA WindowCarries ==
  ASSUME TypeOK, WindowStep, ~SendSave
  PROVE  Carried
  <1>1. queue \in Seq(Commands)
    BY DEF TypeOK, JobTypeOK
  <1>2. \A x : Carries(x, x)
    BY DEF Carries
  <1>3. ASSUME UNCHANGED <<queue, job>>, answers' \subseteq answers PROVE Carried
    BY <1>2, <1>3 DEF Carried
  <1>4. ASSUME UNCHANGED <<job, answers>>, NEW cmd, cmd.kind # "save",
               queue' = Append(queue, cmd)
        PROVE  Carried
    <2>1. \A i \in 1..Len(queue') : \/ i \in 1..Len(queue) /\ queue'[i] = queue[i]
                                    \/ queue'[i] = cmd
      BY <1>1, <1>4
    <2>. QED BY <1>2, <1>4, <2>1 DEF Carried
  <1>5. \A kind : /\ Command(kind).kind = kind
                  /\ \A b : [Command(kind) EXCEPT !.separate = b].kind = kind
                  /\ \A c : [Command(kind) EXCEPT !.change = c].kind = kind
                  /\ \A d : [Command(kind) EXCEPT !.doc = d].kind = kind
    BY DEF Command, NoCommand
  <1>6. ASSUME UNCHANGED <<job, answers>>, NEW b, NEW kind \in Kinds,
               queue' = Append(queue, [Command(kind) EXCEPT !.separate = b])
        PROVE  Carried
    <2>1. [Command(kind) EXCEPT !.separate = b].kind # "save"
      BY <1>5 DEF Kinds
    <2>. QED BY <1>4, <1>6, <2>1
  <1>7. ASSUME UNCHANGED <<job, answers>>, NEW c,
               queue' = Append(queue, [Command("switch") EXCEPT !.change = c])
        PROVE  Carried
    <2>1. [Command("switch") EXCEPT !.change = c].kind # "save"
      BY <1>5
    <2>. QED BY <1>4, <1>7, <2>1
  <1>8. ASSUME NEW d, EditExisting(d) PROVE Carried
    <2>1. [Command("edit") EXCEPT !.doc = d].kind # "save"
      BY <1>5
    <2>. QED BY <1>4, <1>8, <2>1 DEF EditExisting
  <1>9. ASSUME NEW what, AskNow(what) \/ FlushEnds(what) PROVE Carried
    <2>1. Proceed(what)
      BY <1>9 DEF AskNow, FlushEnds
    <2>2. \/ UNCHANGED jobVars
          \/ UNCHANGED <<job, answers>> /\ \E b \in BOOLEAN :
               queue' = Append(queue, [Command("copy") EXCEPT !.separate = b])
          \/ UNCHANGED <<job, answers>> /\ \E c :
               queue' = Append(queue, [Command("switch") EXCEPT !.change = c])
      BY <2>1 DEF Proceed
    <2>3. CASE UNCHANGED jobVars
      BY <1>3, <2>3 DEF jobVars
    <2>4. CASE UNCHANGED <<job, answers>> /\ \E b \in BOOLEAN :
                 queue' = Append(queue, [Command("copy") EXCEPT !.separate = b])
      BY <1>6, <2>4 DEF Kinds
    <2>5. CASE UNCHANGED <<job, answers>> /\ \E c :
                 queue' = Append(queue, [Command("switch") EXCEPT !.change = c])
      BY <1>7, <2>5
    <2>. QED BY <2>2, <2>3, <2>4, <2>5
  <1>10. ASSUME CreationChecked PROVE Carried
    <2>1. UNCHANGED <<job, answers>>
      BY <1>10 DEF CreationChecked
    <2>2. \/ UNCHANGED queue
          \/ \E b \in BOOLEAN : queue' = Append(queue, [Command("create") EXCEPT !.separate = b])
      BY <1>10 DEF CreationChecked
    <2>. QED BY <1>3, <1>6, <2>1, <2>2 DEF Kinds
  <1>11. ASSUME NEW a \in answers, AnswerSave(a) PROVE Carried
    BY <1>3, <1>11 DEF AnswerSave
  <1>12. ASSUME NEW a \in answers, AnswerRequest(a) PROVE Carried
    <2>1. CASE a.result = "failed"
      BY <1>3, <1>12, <2>1 DEF AnswerRequest
    <2>2. CASE a.result = "done"
      <3>1. (a.kind # "copy") \in BOOLEAN
            /\ answers' = Remaining(a, a.kind # "copy") /\ Restarted(a.kind # "copy")
        BY <1>12, <2>2 DEF AnswerRequest
      <3>. QED BY <3>1, RestartCarries
    <2>. QED BY <1>12, <2>1, <2>2 DEF AnswerRequest
  <1>13. ASSUME UNCHANGED jobVars PROVE Carried
    BY <1>3, <1>13 DEF jobVars
  <1>14. ASSUME \/ Type \/ QueueSave \/ AcceptDisk \/ AcceptHub \/ StartMerge \/ CloseEditor
                \/ AskAndFlush \/ FlushFails \/ LookForRecovery \/ ReadRecovery
                \/ RecoveryArrives
         PROVE  Carried
    <2>1. UNCHANGED jobVars
      BY <1>14 DEF Type, QueueSave, AcceptDisk, AcceptHub, StartMerge, ResolveFrame,
                   CloseEditor, AskAndFlush, FlushFails, LookForRecovery, ReadRecovery,
                   RecoveryArrives, LoadFrame
    <2>. QED BY <1>13, <2>1
  <1>. QED BY <1>8, <1>9, <1>10, <1>11, <1>12, <1>14 DEF WindowStep

\* While its save is under way the editor keeps its document and what it sent.
LEMMA SavingEditor ==
  ASSUME TypeOK, ConflictOK, WindowStep, ~SendSave, editor'.status = "saving"
  PROVE  editor'.change = editor.change /\ editor'.doc = editor.doc /\ editor'.snap = editor.snap
  <1>. DEFINE Same(e) == e.change = editor.change /\ e.doc = editor.doc /\ e.snap = editor.snap
  <1>1. editor \in Editors
    BY DEF TypeOK, WindowTypeOK
  <1>2. NoEditor.status = "none" /\ \A c, d, t : Opened(c, d, t).status = "saved"
    BY DEF NoEditor, Opened
  <1>3. ASSUME editor # NoEditor
        PROVE  /\ \A t, s, f : Same([editor EXCEPT !.text = t, !.status = s, !.conflict = f])
               /\ \A t, b : Same([editor EXCEPT !.base = b, !.text = t])
               /\ Same([editor EXCEPT !.closing = TRUE])
               /\ SaveQueued(editor).status = "queued"
               /\ \A t : [editor EXCEPT !.text = t, !.saved = t, !.base = t, !.status = "dirty",
                                        !.snap = NoText, !.conflict = NoText].status = "dirty"
               /\ \A t : [editor EXCEPT !.base = t, !.status = "dirty",
                                        !.snap = NoText, !.conflict = NoText].status = "dirty"
               /\ Saved(editor).status # "saving"
               /\ [editor EXCEPT !.status = "error"].status = "error"
               /\ \A t : [editor EXCEPT !.status = "conflict", !.conflict = t].status = "conflict"
    <2>1. \A t, s, f : Same([editor EXCEPT !.text = t, !.status = s, !.conflict = f])
      BY <1>1, <1>3 DEF Editors
    <2>2. \A t, b : Same([editor EXCEPT !.base = b, !.text = t])
      BY <1>1, <1>3 DEF Editors
    <2>3. Same([editor EXCEPT !.closing = TRUE]) /\ SaveQueued(editor).status = "queued"
      BY <1>1, <1>3 DEF Editors, SaveQueued
    <2>4. /\ \A t : [editor EXCEPT !.text = t, !.saved = t, !.base = t, !.status = "dirty",
                                   !.snap = NoText, !.conflict = NoText].status = "dirty"
          /\ \A t : [editor EXCEPT !.base = t, !.status = "dirty",
                                   !.snap = NoText, !.conflict = NoText].status = "dirty"
      BY <1>1, <1>3 DEF Editors
    <2>5. Saved(editor).status # "saving"
      BY <1>1, <1>2, <1>3 DEF Editors, Saved, StatusAfterSave
    <2>6. /\ [editor EXCEPT !.status = "error"].status = "error"
          /\ \A t : [editor EXCEPT !.status = "conflict", !.conflict = t].status = "conflict"
      BY <1>1, <1>3 DEF Editors
    <2>. QED BY <2>1, <2>2, <2>3, <2>4, <2>5, <2>6
  <1>. DEFINE Right == Same(editor')
  <1>4. ASSUME UNCHANGED editor PROVE Right
    BY <1>4
  <1>5. ASSUME editor # NoEditor, editor' = CloseRequested(editor) PROVE Right
    BY <1>2, <1>3, <1>5 DEF CloseRequested
  <1>6. ASSUME editor # NoEditor, editor.status = "dirty",
               editor' = CloseRequested(SaveQueued(editor))
        PROVE  Right
    <2>1. SaveQueued(editor) \in Editors /\ SaveQueued(editor) # NoEditor
          /\ SaveQueued(editor).status = "queued"
      BY <1>1, <1>2, <1>3, <1>6, EditorsTyped
    <2>2. CloseRequested(SaveQueued(editor)) = [SaveQueued(editor) EXCEPT !.closing = TRUE]
      BY <2>1 DEF CloseRequested
    <2>3. [SaveQueued(editor) EXCEPT !.closing = TRUE].status = "queued"
      BY <2>1 DEF Editors
    <2>. QED BY <1>6, <2>2, <2>3
  <1>7. ASSUME Type PROVE Right
    <2>1. editor # NoEditor
      BY <1>7 DEF Type, EditorOpen
    <2>2. \E t, st, f : editor' = [editor EXCEPT !.text = t, !.status = st, !.conflict = f]
      <3>1. PICK t : editor' = [editor EXCEPT
                       !.text = t,
                       !.status = IF Busy THEN @ ELSE IF t = editor.saved THEN "saved" ELSE "dirty",
                       !.conflict = IF Busy THEN @ ELSE NoText]
        BY <1>7 DEF Type, SetEditor
      <3>. QED BY <3>1, Zenon
    <2>. QED BY <1>3, <2>1, <2>2
  <1>8. ASSUME QueueSave \/ AskAndFlush PROVE Right
    <2>1. editor' = editor \/ (editor # NoEditor /\ editor' = SaveQueued(editor))
      BY <1>2, <1>8 DEF QueueSave, AskAndFlush, SetEditor
    <2>. QED BY <1>3, <1>4, <2>1
  <1>9. ASSUME CloseEditor PROVE Right
    <2>1. editor # NoEditor
          /\ \/ editor' = CloseRequested(editor)
             \/ editor.status = "dirty" /\ editor' = CloseRequested(SaveQueued(editor))
      BY <1>9 DEF CloseEditor, EditorOpen, SetEditor
    <2>. QED BY <1>5, <1>6, <2>1
  <1>10. ASSUME AcceptDisk \/ AcceptHub \/ StartMerge PROVE Right
    <2>1. editor # NoEditor
      BY <1>10 DEF AcceptDisk, AcceptHub, StartMerge, NoEditor
    <2>2. CASE AcceptDisk
      BY <1>3, <2>1, <2>2 DEF AcceptDisk, SetEditor
    <2>3. CASE AcceptHub
      BY <1>3, <2>1, <2>3 DEF AcceptHub, SetEditor
    <2>4. CASE StartMerge
      BY <1>3, <2>1, <2>4 DEF StartMerge, SetEditor
    <2>. QED BY <1>10, <2>2, <2>3, <2>4
  <1>11. ASSUME FlushFails \/ CreationChecked \/ LookForRecovery \/ ReadRecovery PROVE Right
    BY <1>4, <1>11 DEF FlushFails, CreationChecked, LookForRecovery, ReadRecovery
  <1>12. ASSUME NEW d, EditExisting(d) PROVE Right
    BY <1>4, <1>12 DEF EditExisting
  <1>13. ASSUME NEW what, AskNow(what) \/ FlushEnds(what) PROVE Right
    <2>1. Proceed(what)
      BY <1>13 DEF AskNow, FlushEnds
    <2>2. editor' = editor \/ editor' = CloseRequested(editor)
      BY <2>1 DEF Proceed, SetEditor
    <2>3. NoEditor.status # "saving" /\ CloseRequested(NoEditor) = NoEditor
      BY DEF NoEditor, CloseRequested
    <2>. QED BY <1>4, <1>5, <2>2, <2>3
  <1>14. ASSUME RecoveryArrives PROVE Right
    <2>1. editor' = editor \/ editor' = load.found
      BY <1>14 DEF RecoveryArrives, SetEditor
    <2>. QED BY <1>4, <2>1 DEF ConflictOK
  <1>15. ASSUME NEW a, AnswerSave(a) PROVE Right
    <2>1. \/ UNCHANGED editor
          \/ editor.status = "saving" /\ editor' = Saved(editor)
          \/ Heard(a) /\ a.result # "done" /\ editor' = [editor EXCEPT !.status = "error"]
          \/ Heard(a) /\ editor' = [editor EXCEPT !.status = "conflict", !.conflict = a.text]
      BY <1>15 DEF AnswerSave, SetEditor, Heard
    <2>2. Heard(a) \/ editor.status = "saving" => editor # NoEditor
      BY <1>2 DEF Heard, EditorOpen
    <2>. QED BY <1>3, <1>4, <2>1, <2>2
  <1>16. ASSUME NEW a, AnswerRequest(a) PROVE Right
    <2>1. \/ UNCHANGED editor
          \/ editor' = Opened(a.change, a.doc, a.text)
          \/ editor' = NoEditor
      BY <1>16 DEF AnswerRequest, SetEditor, Kinds
    <2>. QED BY <1>2, <1>4, <2>1
  <1>. QED BY <1>7, <1>8, <1>9, <1>10, <1>11, <1>12, <1>13, <1>14, <1>15, <1>16 DEF WindowStep

\* The save the window sends is behind every other one, and the only one of the editor.
LEMMA SendSaved ==
  ASSUME SavesOK, OwedOK, TypeOK, SendSave
  PROVE  SavesOK'
  <1>. DEFINE cmd == [Command("save") EXCEPT
                        !.change = editor.change, !.doc = editor.doc,
                        !.base = editor.base, !.text = editor.snap, !.mine = TRUE]
  <1>1. /\ queue \in Seq(Commands) /\ editor \in Editors /\ editor # NoEditor
    BY DEF SendSave, TypeOK, JobTypeOK, WindowTypeOK, NoEditor
  <1>2. /\ editor' = [editor EXCEPT !.status = "saving"] /\ queue' = Append(queue, cmd)
        /\ UNCHANGED <<job, answers, trees>>
    BY DEF SendSave, SetEditor, WindowFrame, diskVars
  <1>3. cmd.change = editor.change /\ cmd.doc = editor.doc /\ cmd.text = editor.snap
    BY DEF Command, NoCommand
  <1>. HIDE DEF cmd
  <1>4. editor'.change = editor.change /\ editor'.doc = editor.doc /\ editor'.snap = editor.snap
    BY <1>1, <1>2 DEF Editors
  <1>5. ~Pending("save")
    BY SaveOwed
  <1>6. /\ \A i \in 1..Len(queue) : ~Mine(queue[i])
        /\ ~Mine(job.cmd) /\ \A a \in answers : ~Mine(a)
    BY <1>5 DEF Pending, Waits, Runs, Answered, Own, Mine
  <1>7. /\ Len(queue) \in Nat /\ Len(queue') = Len(queue) + 1
        /\ \A i \in 1..Len(queue') : queue'[i] = IF i \in 1..Len(queue) THEN queue[i] ELSE cmd
        /\ \A i \in 1..Len(queue') : i \notin 1..Len(queue) => i = Len(queue')
    BY <1>1, <1>2
  <1>8. QueueSaves'
    <2>1. ASSUME NEW i \in 1..Len(queue'), Mine(queue'[i])
          PROVE  queue'[i] = cmd /\ i = Len(queue')
      BY <1>6, <1>7, <2>1
    <2>2. \A k \in 1..Len(queue') : ~(k > Len(queue'))
      BY <1>7
    <2>. QED BY <1>3, <1>4, <2>1, <2>2 DEF QueueSaves, AsSent
  <1>9. JobSaves'
    BY <1>2, <1>6 DEF SavesOK, JobSaves, IsSave, Written, Holds
  <1>10. AnswerSaves'
    BY <1>2, <1>6 DEF AnswerSaves
  <1>. QED BY <1>8, <1>9, <1>10 DEF SavesOK

LEMMA WindowSaved ==
  ASSUME SavesOK, OwedOK, OwedOK', ConflictOK, TypeOK, WindowStep
  PROVE  SavesOK'
  <1>1. UNCHANGED <<records, trees>> /\ JobSame
    BY WindowLeaves DEF diskVars
  <1>2. CASE SendSave
    BY <1>2, SendSaved
  <1>3. CASE ~SendSave /\ editor'.status = "saving"
    BY <1>1, <1>3, WindowCarries, SavingEditor, CarriedSaves
  <1>4. CASE editor'.status # "saving"
    <2>1. ~Pending("save")'
      <3>1. ~Awaited("save")' /\ "save" \in Sendable
        BY <1>4 DEF Awaited, Sendable
      <3>. QED BY <3>1 DEF OwedOK
    <2>. QED BY <1>1, <2>1, NothingSaved
  <1>. QED BY <1>2, <1>3, <1>4

\* After an end there is no save.
LEMMA StartSaved ==
  ASSUME AppStarts
  PROVE  SavesOK'
  <1>1. queue' = <<>> /\ job' = NoJob /\ answers' = {}
    BY DEF AppStarts
  <1>2. NoJob.at = "none" /\ NoJob.cmd.kind = "none"
    BY DEF NoJob, NoCommand
  <1>3. QueueSaves'
    BY <1>1 DEF QueueSaves
  <1>4. JobSaves'
    BY <1>1, <1>2 DEF JobSaves, IsSave, Mine
  <1>5. AnswerSaves'
    BY <1>1 DEF AnswerSaves
  <1>. QED BY <1>3, <1>4, <1>5 DEF SavesOK

\* Another program writes its own text, and unlists nothing.
LEMMA ForeignSaved ==
  ASSUME SavesOK, DraftsInv, OwedOK, NEW x \in Changes, NEW e \in Docs, ForeignWrite(x, e)
  PROVE  SavesOK'
  <1>1. UNCHANGED <<records, queue, job, answers, editor>>
    BY DEF ForeignWrite, jobVars, windowVars
  <1>2. ASSUME NEW c \in Changes, NEW d \in Docs, NEW t, Written(c, d, t)
        PROVE  Written(c, d, t)'
    <2>1. Holds(c, d)' = Holds(c, d) \/ Holds(c, d)' \in ForeignTexts
      BY ForeignMoves DEF DraftsInv
    <2>. QED BY <1>2, <2>1 DEF Written
  <1>3. QueueSaves'
    BY <1>1 DEF SavesOK, QueueSaves, AsSent
  <1>4. JobSaves'
    <2>1. job.at = "unjournal" => job.change \in Changes /\ job.doc \in Docs
      BY DEF DraftsInv, JobOK, SavingOK, Saving, TypeOK, JobTypeOK, Jobs, Commands, IsSave
    <2>2. job.at = "unjournal" => Written(job.change, job.doc, job.cmd.text)'
      <3>1. ASSUME job.at = "unjournal" PROVE Written(job.change, job.doc, job.cmd.text)'
        <4>1. PICK c \in Changes, d \in Docs, t \in {job.cmd.text} :
                c = job.change /\ d = job.doc
          BY <2>1, <3>1
        <4>2. Written(c, d, t)
          BY <3>1, <4>1 DEF SavesOK, JobSaves
        <4>3. Written(c, d, t)'
          BY <1>2, <4>2
        <4>. QED BY <1>1, <4>1, <4>3 DEF Written
      <3>. QED BY <3>1
    <2>. QED BY <1>1, <2>2 DEF SavesOK, JobSaves, IsSave, AsSent, NoSaveWaits
  <1>5. ASSUME NEW a \in answers', Mine(a)
        PROVE  /\ ~IsSave' /\ NoSaveWaits'
               /\ a.result = "done" =>
                    (/\ Written(editor.change, editor.doc, editor.snap)
                     /\ Lists(editor.change, editor.doc)
                     /\ ~PlacesAt(editor.change, editor.doc))'
    <2>1. /\ ~IsSave /\ NoSaveWaits
          /\ a.result = "done" =>
               /\ Written(editor.change, editor.doc, editor.snap)
               /\ Lists(editor.change, editor.doc) /\ ~PlacesAt(editor.change, editor.doc)
      BY <1>1, <1>5 DEF SavesOK, AnswerSaves
    <2>2. editor.status = "saving"
      <3>1. Pending("save")
        BY <1>1, <1>5 DEF Pending, Answered, Own, Mine
      <3>. QED BY <3>1 DEF OwedOK, Awaited, Sendable
    <2>3. PICK c \in Changes, d \in Docs, t \in {editor.snap} :
            c = editor.change /\ d = editor.doc
      BY <2>2 DEF DraftsInv, TypeOK, WindowTypeOK, Editors, NoEditor
    <2>4. a.result = "done" => Written(c, d, t)'
      BY <1>2, <2>1, <2>3
    <2>5. a.result = "done" => Written(editor.change, editor.doc, editor.snap)'
      BY <1>1, <2>3, <2>4 DEF Written
    <2>. QED BY <1>1, <2>1, <2>5 DEF IsSave, NoSaveWaits, Lists, Readable, PlacesAt, Placing
  <1>6. AnswerSaves'
    BY <1>5 DEF AnswerSaves
  <1>. QED BY <1>3, <1>4, <1>6 DEF SavesOK

LEMMA SavedKept ==
  ASSUME SavesOK, OwedOK, OwedOK', ConflictOK, DraftsInv, DraftsInv', SeenOK, [Next]_vars
  PROVE  SavesOK'
  <1>1. TypeOK
    BY DEF DraftsInv
  <1>2. CASE UNCHANGED vars
    <2>1. UNCHANGED <<records, trees, queue, job, answers, editor>>
      BY <1>2 DEF vars, diskVars, jobVars, windowVars
    <2>2. QueueSaves'
      BY <2>1 DEF SavesOK, QueueSaves, AsSent
    <2>3. JobSaves'
      BY <2>1 DEF SavesOK, JobSaves, IsSave, AsSent, NoSaveWaits, Written, Holds
    <2>4. AnswerSaves'
      BY <2>1 DEF SavesOK, AnswerSaves, IsSave, NoSaveWaits, Written, Holds, Lists, Readable,
                  PlacesAt, Placing
    <2>. QED BY <2>2, <2>3, <2>4 DEF SavesOK
  <1>3. CASE WindowStep
    BY <1>1, <1>3, WindowSaved
  <1>4. CASE Begin
    BY <1>1, <1>4, BeginSaved
  <1>5. CASE JobStep
    BY <1>5, JobSaved
  <1>6. CASE Crash \/ Quit
    <2>1. AppStarts
      BY <1>6 DEF Crash, Quit
    <2>. QED BY <2>1, StartSaved
  <1>7. CASE \E x \in Changes, e \in Docs : ForeignWrite(x, e)
    BY <1>7, ForeignSaved
  <1>. QED BY <1>2, <1>3, <1>4, <1>5, <1>6, <1>7, StepKinds

LEMMA InitSaved == Init => SavesOK
  <1>. SUFFICES ASSUME Init PROVE SavesOK
    OBVIOUS
  <1>1. queue = <<>> /\ job = NoJob /\ answers = {}
    BY DEF Init
  <1>2. NoJob.at = "none" /\ NoJob.cmd.kind = "none"
    BY DEF NoJob, NoCommand
  <1>3. QueueSaves /\ JobSaves /\ AnswerSaves
    BY <1>1, <1>2 DEF QueueSaves, JobSaves, AnswerSaves, IsSave, Mine
  <1>. QED BY <1>3 DEF SavesOK

\* A save the window hears is done (document-authoring-reducer.ts, saveSucceeded) has the
\* text it sent in the file, or another program has written there since (save_document
\* renames the text into place before it takes the journal away and answers), and an
\* editor that closes on it holds nothing newer.
THEOREM SaveAnswersAreTrue == Spec => SaveAnswerIsTrue
  <1>. DEFINE Inv == DraftsInv /\ ShownOK /\ SeenOK /\ OwedOK /\ ConflictOK /\ SavesOK
  <1>1. Init => Inv
    BY InitTyped, InitShown, InitOwed, InitSaved
  <1>2. Inv /\ [Next]_vars => Inv'
    <2>. SUFFICES ASSUME Inv, [Next]_vars PROVE Inv'
      OBVIOUS
    <2>1. DraftsInv' /\ ShownOK' /\ SeenOK'
      BY StepKept, ShownKept
    <2>2. OwedOK' /\ ConflictOK'
      BY OwedKept DEF DraftsInv
    <2>. QED BY <2>1, <2>2, SavedKept
  <1>3. ASSUME Inv, NEW a \in answers, AnswerSave(a), Heard(a), a.result = "done"
        PROVE  /\ Holds(editor.change, editor.doc) \in {editor.snap} \cup ForeignTexts
               /\ editor'.status = "none" => editor.text = editor.snap
    <2>1. Mine(a)
      BY <1>3 DEF AnswerSave, Heard, Mine
    <2>2. Holds(editor.change, editor.doc) \in {editor.snap} \cup ForeignTexts
      BY <1>3, <2>1 DEF SavesOK, AnswerSaves, Written
    <2>3. editor' = Saved(editor) /\ editor.status = "saving" /\ editor \in Editors
      BY <1>3 DEF AnswerSave, Heard, SetEditor, DraftsInv, TypeOK, WindowTypeOK
    <2>4. editor # NoEditor
      BY <2>3 DEF NoEditor
    <2>5. ASSUME editor.text # editor.snap PROVE editor'.status = "dirty"
      BY <2>3, <2>4, <2>5 DEF Saved, StatusAfterSave, ChangedDuringSave, Editors
    <2>. QED BY <2>2, <2>5
  <1>4. Inv /\ [Next]_vars =>
          [\A a \in answers : AnswerSave(a) /\ Heard(a) /\ a.result = "done" =>
             /\ Holds(editor.change, editor.doc) \in {editor.snap} \cup ForeignTexts
             /\ editor'.status = "none" => editor.text = editor.snap]_vars
    BY <1>3
  <1>. QED BY <1>1, <1>2, <1>4, PTL DEF Spec, SaveAnswerIsTrue

-----------------------------------------------------------------------------
(***************************************************************************)
(* One window.  A behaviour of MCWindow is one of DocumentDrafts and one   *)
(* of ConnectionWizard, because the steps of either leave the variables of *)
(* the other alone.                                                        *)
(***************************************************************************)
Proved == INSTANCE ConnectionWizardProofs

\* The instance that is checked and the one that is proved about have the same
\* definitions, under two names.
LEMMA SameInit == Wizard!Init <=> Proved!Init
  BY
     DEF Wizard!Init, Proved!Init, Wizard!Blank, Proved!Blank, Wizard!Account, Proved!Account,
         Wizard!Asked, Proved!Asked, Wizard!MaybeCheckout, Proved!MaybeCheckout

LEMMA SameNext == Wizard!Next <=> Proved!Next
  BY
     DEF Wizard!Next, Proved!Next, Wizard!Pick, Proved!Pick, Wizard!UserSteps, Proved!UserSteps,
         Wizard!BackendSteps, Proved!BackendSteps, Wizard!WindowSteps, Proved!WindowSteps,
         Wizard!LosesConnection, Proved!LosesConnection, Wizard!InspectCheckout,
         Proved!InspectCheckout, Wizard!CloneRepository, Proved!CloneRepository, Wizard!StartLogin,
         Proved!StartLogin, Wizard!CancelLogin, Proved!CancelLogin, Wizard!Logout, Proved!Logout,
         Wizard!StartReplacement, Proved!StartReplacement, Wizard!CancelReplacement,
         Proved!CancelReplacement, Wizard!LoadRepositories, Proved!LoadRepositories,
         Wizard!SelectRepository, Proved!SelectRepository, Wizard!InspectWorkspace,
         Proved!InspectWorkspace, Wizard!PreviewInitialization, Proved!PreviewInitialization,
         Wizard!CancelInitializationPreview, Proved!CancelInitializationPreview,
         Wizard!ConfirmInitialization, Proved!ConfirmInitialization, Wizard!ChoosePostMergeClone,
         Proved!ChoosePostMergeClone, Wizard!ConnectWorkspace, Proved!ConnectWorkspace,
         Wizard!Serve, Proved!Serve, Wizard!LoginEnds, Proved!LoginEnds, Wizard!SignInRefused,
         Proved!SignInRefused, Wizard!CloneEnds, Proved!CloneEnds, Wizard!Answers, Proved!Answers,
         Wizard!Receive, Proved!Receive, Wizard!Deliver, Proved!Deliver,
         Wizard!CloneProgressReceived, Proved!CloneProgressReceived, Wizard!FormShown,
         Proved!FormShown, Wizard!Seek, Proved!Seek, Wizard!LoginOffered, Proved!LoginOffered,
         Wizard!RoomForRequest, Proved!RoomForRequest, Wizard!Fresh, Proved!Fresh, Wizard!Plain,
         Proved!Plain, Wizard!Call, Proved!Call, Wizard!backendVars, Proved!backendVars,
         Wizard!ShellShown, Proved!ShellShown, Wizard!CancelCall, Proved!CancelCall, Wizard!Account,
         Proved!Account, Wizard!Blank, Proved!Blank, Wizard!CanCancelReplacement,
         Proved!CanCancelReplacement, Wizard!LoggingIn, Proved!LoggingIn, Wizard!Connected,
         Proved!Connected, Wizard!Do, Proved!Do, Wizard!LocalIdle, Proved!LocalIdle, Wizard!Reached,
         Proved!Reached, Wizard!ServeAuth, Proved!ServeAuth, Wizard!ServeRestore,
         Proved!ServeRestore, Wizard!ServeBegin, Proved!ServeBegin, Wizard!ServeCancel,
         Proved!ServeCancel, Wizard!ServeLogout, Proved!ServeLogout, Wizard!ServeClone,
         Proved!ServeClone, Wizard!ServeConnect, Proved!ServeConnect, Wizard!windowVars,
         Proved!windowVars, Wizard!Event, Proved!Event, Wizard!CloneOutcomes, Proved!CloneOutcomes,
         Wizard!Findings, Proved!Findings, Wizard!AuthAnswered, Proved!AuthAnswered,
         Wizard!RestoreAnswered, Proved!RestoreAnswered, Wizard!BeginAnswered, Proved!BeginAnswered,
         Wizard!LogoutAnswered, Proved!LogoutAnswered, Wizard!CancelAnswered, Proved!CancelAnswered,
         Wizard!ListAnswered, Proved!ListAnswered, Wizard!InspectAnswered, Proved!InspectAnswered,
         Wizard!CloneAnswered, Proved!CloneAnswered, Wizard!WorkspaceAnswered,
         Proved!WorkspaceAnswered, Wizard!PreviewAnswered, Proved!PreviewAnswered,
         Wizard!InitializeAnswered, Proved!InitializeAnswered, Wizard!ConnectAnswered,
         Proved!ConnectAnswered, Wizard!AuthEventReceived, Proved!AuthEventReceived,
         Wizard!CloneEventReceived, Proved!CloneEventReceived, Wizard!Seeking, Proved!Seeking,
         Wizard!Errors, Proved!Errors, Wizard!Unused, Proved!Unused, Wizard!Least, Proved!Least,
         Wizard!Asked, Proved!Asked, Wizard!LoginRequest, Proved!LoginRequest, Wizard!Mutating,
         Proved!Mutating, Wizard!Doing, Proved!Doing, Wizard!Principal, Proved!Principal,
         Wizard!Served, Proved!Served, Wizard!Answered, Proved!Answered, Wizard!WizardGoes,
         Proved!WizardGoes, Wizard!Quietly, Proved!Quietly, Wizard!AccountHears,
         Proved!AccountHears, Wizard!LoginAwaited, Proved!LoginAwaited, Wizard!Failing,
         Proved!Failing, Wizard!Awaits, Proved!Awaits, Wizard!LoginOutcomes, Proved!LoginOutcomes,
         Wizard!WizardHears, Proved!WizardHears, Wizard!CloneAwaited, Proved!CloneAwaited,
         Wizard!Free, Proved!Free, Wizard!UnusedAfter, Proved!UnusedAfter, Wizard!Ids, Proved!Ids

\* The assumption on the constants is the one the instance makes.
LEMMA SameAssumption == Proved!WizardAssumption
  BY WindowAssumption DEF Wizard!WizardAssumption, Proved!WizardAssumption

\* The drafts of a behaviour of the window behave as their module says.
LEMMA DraftsRun == WindowSpec => Spec
  <1>1. WindowInit => Init
    BY DEF WindowInit
  <1>2. [WindowNext]_<<part, vars, wizardVars>> => [Next]_vars
    BY DEF WindowNext
  <1>. QED BY <1>1, <1>2, PTL DEF WindowSpec, Spec

\* The wizard of a behaviour of the window behaves as the module proved about.
LEMMA WizardRuns == WindowSpec => Proved!Spec
  <1>1. Proved!vars' = Proved!vars <=> wizardVars' = wizardVars
    BY DEF wizardVars, Proved!vars, Proved!windowVars, Proved!backendVars
  <1>2. WindowInit => Proved!Init
    BY SameInit DEF WindowInit
  <1>3. [WindowNext]_<<part, vars, wizardVars>> => [Proved!Next]_(Proved!vars)
    BY <1>1, SameNext DEF WindowNext
  <1>. QED BY <1>2, <1>3, PTL DEF WindowSpec, Proved!Spec

-----------------------------------------------------------------------------
(***************************************************************************)
(* The promises.                                                           *)
(***************************************************************************)

\* The wizard goes on with the directory the user gave last and a workspace it shows as
\* connected is the one local settings remember (connection-reducer.ts).
THEOREM WindowConnectsThePicked == WindowSpec => []ConnectsThePicked
  <1>1. Proved!GoesOnWithThePicked /\ Proved!ShownIsSaved => ConnectsThePicked
    BY DEF ConnectsThePicked, Wizard!GoesOnWithThePicked, Proved!GoesOnWithThePicked,
           Wizard!ShownIsSaved, Proved!ShownIsSaved
  <1>2. Proved!Spec => []Proved!GoesOnWithThePicked
    BY SameAssumption, Proved!GoesOnAsPicked
  <1>3. Proved!Spec => []Proved!ShownIsSaved
    BY SameAssumption, Proved!ConnectedIsSaved
  <1>. QED BY <1>1, <1>2, <1>3, WizardRuns, PTL

\* Every request of an editor, and every status of the wizard and of the account that only
\* an answer or an event ends, has it under way (document-authoring-reducer.ts,
\* connection-reducer.ts, account-session.ts).
THEOREM WindowWaitsForSomething == WindowSpec => []NothingIsAwaitedInVain
  <1>1. AnswersOwed /\ Proved!AwaitedIsUnderWay => NothingIsAwaitedInVain
    BY
       DEF NothingIsAwaitedInVain, Wizard!AwaitedIsUnderWay, Proved!AwaitedIsUnderWay, Wizard!CommandsOf, Proved!CommandsOf,
           Wizard!UnderWay, Proved!UnderWay, Wizard!LoginUnderWay, Proved!LoginUnderWay,
           Wizard!OnItsWay, Proved!OnItsWay, Wizard!CloneOutcomes, Proved!CloneOutcomes,
           Wizard!LoginOutcomes, Proved!LoginOutcomes, Wizard!Event, Proved!Event
  <1>2. Proved!Spec => []Proved!AwaitedIsUnderWay
    BY SameAssumption, Proved!NothingAwaitedInVain
  <1>3. Spec => []AnswersOwed
    BY AnswersAreOwed
  <1>. QED BY <1>1, <1>2, <1>3, DraftsRun, WizardRuns, PTL
=============================================================================
