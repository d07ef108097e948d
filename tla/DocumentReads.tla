---------------------------- MODULE DocumentReads ----------------------------
(***************************************************************************)
(* Reading documents in a session (commands/documents.rs, the context of a *)
(* session in state.rs): the document itself, its history page by page,    *)
(* and a version the history listed (documents/history.rs), while commits  *)
(* are made, HEAD goes back, the catalog follows late and the session is   *)
(* replaced.                                                               *)
(*                                                                         *)
(* A commit is its number; only first parents are followed, so a commit    *)
(* has one parent, or 0.  The work of a call is done at once, at any time  *)
(* between its two critical sections: commits never change, and it reads   *)
(* HEAD once.  The working directory holds the files of HEAD.              *)
(***************************************************************************)
EXTENDS Naturals, Sequences, FiniteSets

CONSTANTS
  Paths,      \* the paths of files; those of Markdown among them
  Markdown,
  Ids,        \* document ids in the front matter
  Calls,      \* the reads in flight at once, and the page
  Page,
  PageLimit,  \* DEFAULT_HISTORY_PAGE_LIMIT
  None,
  Bounds      \* bounds of the model, one of which a behaviour keeps to: commits, reads,
              \* pages asked for, times HEAD goes back, sessions

DocumentReadsAssumption ==
  /\ Markdown \subseteq Paths /\ None \notin Paths \cup Ids
  /\ PageLimit \in Nat \ {0} /\ Page \notin Calls
  /\ Bounds \subseteq [commits : Nat, reads : Nat, pages : Nat, resets : Nat, sessions : Nat]

VARIABLES
  commits,  \* each commit's parent, files, and the renames its diff finds
  head,
  catalog,  \* the ids of the documents the session knows, by path
  session,  \* number, issued versions, latest read, reads so far, open document
  call,
  window,   \* the selected path, the listed items, the next cursor
  left      \* what is left of the bounds

vars == <<commits, head, catalog, session, call, window, left>>

-----------------------------------------------------------------------------
(***************************************************************************)
(* What the commits hold.  A file is its document id, or None, and a       *)
(* number that tells its contents apart.                                   *)
(***************************************************************************)

NoFile == [id |-> None, text |-> 0]
Empty == [p \in Paths |-> NoFile]
Tree(c) == IF c = 0 THEN Empty ELSE commits[c].tree
Has(c, p) == Tree(c)[p] # NoFile
Parent(c) == commits[c].parent
Matches(c, p, id) == Has(c, p) /\ Tree(c)[p].id = id
\* commit_has_regular_blob, and blob_matches_document_id when the id is known.
IsDocument(c, p, id) == Has(c, p) /\ (id = None \/ Matches(c, p, id))

\* The ancestors of a commit, itself among them.
Reachable(c) ==
  LET R[d \in 0..Len(commits)] == IF d = 0 THEN {} ELSE {d} \cup R[Parent(d)] IN R[c]

(***************************************************************************)
(* commit_change: whether a commit changed the tracked file, and where the *)
(* file was before.                                                        *)
(***************************************************************************)
RenamedFrom(c, p) == {o \in Paths : <<o, p>> \in commits[c].renames}
Deleted(c) ==
  {o \in Paths : Has(Parent(c), o) /\ ~Has(c, o) /\ \A p \in Paths : o \notin RenamedFrom(c, p)}

Changed(c, p, id) ==
  /\ Tree(c)[p] # Tree(Parent(c))[p]
  /\ id = None \/ Matches(c, p, id)
Before(c, p, id) ==
  LET kept == {o \in RenamedFrom(c, p) : IsDocument(Parent(c), o, id)}
      moved == {o \in Deleted(c) : id # None /\ Matches(Parent(c), o, id)}
      one(S) == IF S = {} THEN None ELSE CHOOSE o \in S : TRUE
  IN IF RenamedFrom(c, p) # {} THEN one(kept)
     ELSE IF ~Has(Parent(c), p) THEN one(moved)
     ELSE IF IsDocument(Parent(c), p, id) THEN p ELSE None

\* The changes of a document from a commit back, newest first.
Item_Before(c, p, before) ==
  [commit |-> c, path |-> IF before = None THEN p ELSE before, before |-> before]
Item(c, p, before) == [commit |-> c, path |-> p, before |-> before]
Trail(from, path, id) ==
  LET W[c \in 0..Len(commits), p \in Paths] ==
        IF c = 0 THEN <<>>
        ELSE IF ~Changed(c, p, id) THEN W[Parent(c), p]
        ELSE LET before == Before(c, p, id)
             IN <<Item(c, p, before)>> \o (IF before = None THEN <<>> ELSE W[Parent(c), before])
  IN W[from, path]

(***************************************************************************)
(* walk_page: the items after the cursor, and the cursor of the last one   *)
(* when there are more.  A cursor must name a change of this document that *)
(* HEAD still has, and where the file was before it.                       *)
(***************************************************************************)
Cursor(item) == [commit |-> item.commit, path |-> item.before]
Failed == [failed |-> TRUE, items |-> <<>>, next |-> None]
Answer(items, next) == [failed |-> FALSE, items |-> items, next |-> next]
\* Where the page starts in the trail: validate_cursor_and_resume.
Resumed_AtCursor(trail, cursor) ==
  IF cursor = None THEN {1} ELSE {i \in 1..Len(trail) : Cursor(trail[i]) = cursor}
Resumed(trail, cursor) ==
  IF cursor = None THEN {1} ELSE {i + 1 : i \in {j \in 1..Len(trail) : Cursor(trail[j]) = cursor}}
HistoryPage(path, id, cursor) ==
  LET trail == Trail(head, path, id)
      starts == Resumed(trail, cursor)
      start == CHOOSE i \in starts : TRUE
      last == start + PageLimit - 1
  IN IF ~IsDocument(head, path, id) THEN Answer(<<>>, None)
     ELSE IF starts = {} \/ (cursor # None /\ cursor.path = None) THEN Failed
     ELSE IF Len(trail) > last
          THEN Answer(SubSeq(trail, start, last), Cursor(trail[last]))
          ELSE Answer(SubSeq(trail, start, Len(trail)), None)

\* read_version.
CanRead(commit, path) == path \in Markdown /\ commit \in Reachable(head) /\ Has(commit, path)

-----------------------------------------------------------------------------
(***************************************************************************)
(* The calls.  Each takes the session's context first, and its answer is   *)
(* published only while the context is still the active one.               *)
(***************************************************************************)

NewSession(n) == [n |-> n, issued |-> {}, latest |-> 0, reads |-> 0, opened |-> None]
NoWindow == [path |-> None, items |-> <<>>, next |-> None]
Idle == [op |-> "idle", session |-> 0, path |-> None, id |-> None, number |-> 0,
         cursor |-> None, answer |-> None, allowed |-> FALSE]
Missing == "missing"
Spend(what) == left[what] > 0 /\ left' = [left EXCEPT ![what] = @ - 1]
Active(k) == call[k].session = session.n
Registered(s) == [s EXCEPT !.reads = @ + 1, !.latest = s.reads + 1]
End(k) == call' = [call EXCEPT ![k] = Idle]

\* read_document: the window selects the path; the read is registered.
Select(k, p) ==
  /\ Spend("reads") /\ call[k] = Idle
  /\ session' = Registered(session)
  /\ call' = [call EXCEPT ![k] = [Idle EXCEPT !.op = "read", !.session = session.n, !.path = p,
                                              !.number = session.reads + 1]]
  /\ window' = [NoWindow EXCEPT !.path = p]
  /\ UNCHANGED <<commits, head, catalog>>

\* read_document_version of an item the window lists.
AskVersion(k, i) ==
  /\ Spend("reads") /\ call[k] = Idle
  /\ LET item == window.items[i] IN
     /\ session' = Registered(session)
     /\ call' = [call EXCEPT ![k] = [Idle EXCEPT
                   !.op = "version", !.session = session.n, !.path = item.path,
                   !.number = session.reads + 1,
                   !.cursor = [commit |-> item.commit, path |-> item.path],
                   !.allowed = <<item.commit, item.path>> \in session.issued]]
  /\ UNCHANGED <<commits, head, catalog, window>>

\* list_document_history of the selected document: the first page, or the next.
AskPage(append) ==
  /\ Spend("pages") /\ call[Page] = Idle /\ window.path # None
  /\ append => window.next # None
  /\ call' = [call EXCEPT ![Page] = [Idle EXCEPT
                !.op = IF catalog[window.path] = Missing THEN "refused" ELSE "page",
                !.session = session.n, !.path = window.path,
                !.id = IF catalog[window.path] = Missing THEN None ELSE catalog[window.path],
                !.cursor = IF append THEN window.next ELSE None]]
  /\ window' = IF append THEN window ELSE [NoWindow EXCEPT !.path = window.path]
  /\ UNCHANGED <<commits, head, catalog, session>>

\* The blocking part.
Work(k) ==
  /\ call[k].op \in {"read", "version", "page"} /\ call[k].answer = None
  /\ LET a == call[k] IN
     call' = [call EXCEPT ![k].answer =
       CASE a.op = "page" -> HistoryPage(a.path, a.id, a.cursor)
         [] a.op = "version" -> [failed |-> ~(a.allowed /\ CanRead(a.cursor.commit, a.path))]
         [] a.op = "read" -> [failed |-> ~Has(head, a.path)]]
  /\ UNCHANGED <<commits, head, catalog, session, window, left>>

\* set_open_document, when the read is still the latest.
Opens_Any(k) == TRUE
Opens(k) == session.latest = call[k].number
PublishRead(k) ==
  /\ call[k].op = "read" /\ call[k].answer # None
  /\ session' = IF /\ Active(k) /\ ~call[k].answer.failed /\ Opens(k)
                   /\ catalog[call[k].path] # Missing
                THEN [session EXCEPT !.opened = call[k].path] ELSE session
  /\ End(k) /\ UNCHANGED <<commits, head, catalog, window, left>>

PublishVersion(k) ==
  /\ call[k].op = "version" /\ call[k].answer # None
  /\ End(k) /\ UNCHANGED <<commits, head, catalog, session, window, left>>

\* issue_versions; the window appends the page to what it lists (historySucceeded).
PublishPage ==
  LET a == call[Page].answer
      ok == Active(Page) /\ call[Page].op = "page" /\ ~a.failed
  IN
  /\ call[Page].op = "refused" \/ (call[Page].op = "page" /\ a # None)
  /\ session' = IF ~ok THEN session
                ELSE [session EXCEPT !.issued = @ \cup
                        {<<a.items[i].commit, a.items[i].path>> : i \in DOMAIN a.items}]
  /\ window' = IF ~ok \/ window.path # call[Page].path THEN window
               ELSE [window EXCEPT !.items = @ \o a.items, !.next = a.next]
  /\ End(Page) /\ UNCHANGED <<commits, head, catalog, left>>

-----------------------------------------------------------------------------
(***************************************************************************)
(* What goes on meanwhile.                                                 *)
(***************************************************************************)

\* One change of a file per commit; git may see a removed and an added file as one
\* that moved.
NewCommit(tree, renames) ==
  /\ Spend("commits")
  /\ commits' = Append(commits, [parent |-> head, tree |-> tree, renames |-> renames])
  /\ head' = Len(commits) + 1
  /\ UNCHANGED <<catalog, session, call, window>>
Put(p, id, text) == [Tree(head) EXCEPT ![p] = [id |-> id, text |-> text]]
Commit ==
  \E p \in Paths :
    LET file == Tree(head)[p] IN
    \/ /\ ~Has(head, p)
       /\ \E id \in Ids \cup {None} : NewCommit(Put(p, id, 1), {})
    \/ /\ Has(head, p)
       /\ \/ NewCommit([Tree(head) EXCEPT ![p] = NoFile], {})
          \/ NewCommit(Put(p, file.id, 3 - file.text), {})
          \/ \E id \in (Ids \cup {None}) \ {file.id} : NewCommit(Put(p, id, file.text), {})
          \/ \E q \in Paths \ {p}, found \in BOOLEAN :
                /\ ~Has(head, q)
                /\ NewCommit([Put(q, file.id, file.text) EXCEPT ![p] = NoFile],
                             IF found THEN {<<p, q>>} ELSE {})

Reset ==
  /\ Spend("resets")
  /\ \E c \in Reachable(head) \ {head} : head' = c
  /\ UNCHANGED <<commits, catalog, session, call, window>>

\* The runtime indexes what HEAD's files hold, of Markdown.
Refresh ==
  /\ catalog' = [p \in Paths |-> IF p \in Markdown /\ Has(head, p) THEN Tree(head)[p].id
                                 ELSE Missing]
  /\ UNCHANGED <<commits, head, session, call, window, left>>

\* Another session becomes active; the window starts over.
Restart ==
  /\ Spend("sessions")
  /\ session' = NewSession(session.n + 1) /\ window' = NoWindow
  /\ UNCHANGED <<commits, head, catalog, call>>

-----------------------------------------------------------------------------
Init ==
  /\ \E p \in Markdown, id \in Ids \cup {None} :
       /\ commits = <<[parent |-> 0, tree |-> [Empty EXCEPT ![p] = [id |-> id, text |-> 1]],
                       renames |-> {}]>>
       /\ catalog = [q \in Paths |-> IF q = p THEN id ELSE Missing]
  /\ head = 1
  /\ session = NewSession(1) /\ window = NoWindow
  /\ call = [k \in Calls \cup {Page} |-> Idle]
  /\ left \in Bounds

Next ==
  \/ \E k \in Calls :
       \/ \E p \in Markdown : Select(k, p)
       \/ \E i \in DOMAIN window.items : AskVersion(k, i)
       \/ Work(k) \/ PublishRead(k) \/ PublishVersion(k)
  \/ \E append \in BOOLEAN : AskPage(append)
  \/ Work(Page) \/ PublishPage
  \/ Commit \/ Reset \/ Refresh \/ Restart

Spec == Init /\ [][Next]_vars

-----------------------------------------------------------------------------
(***************************************************************************)
(* However many pages were read and wherever HEAD went between them, the   *)
(* listed items are one history: each was left by the one before it, at    *)
(* the path it has there, with no change of that file in between.  Where   *)
(* the list ends is not promised: a document gone from HEAD ends it with   *)
(* an empty page.                                                          *)
(***************************************************************************)
HistoryIsWhole ==
  \A i \in DOMAIN window.items \ {1} :
    LET newer == window.items[i - 1]
        item == window.items[i]
    IN /\ item.commit \in Reachable(Parent(newer.commit))
       /\ Tree(item.commit)[item.path] = Tree(Parent(newer.commit))[item.path]
       /\ Has(item.commit, item.path)
       /\ \A c \in Reachable(Parent(newer.commit)) :
            c > item.commit => Tree(c)[item.path] = Tree(Parent(c))[item.path]

(***************************************************************************)
(* A version that was listed can be read in its session as long as HEAD    *)
(* has its commit: it is named by the path the file had then.  Only what   *)
(* was no Markdown file then cannot.                                       *)
(***************************************************************************)
ListedCanBeRead ==
  \A version \in session.issued :
    version[1] \in Reachable(head) /\ version[2] \in Markdown => CanRead(version[1], version[2])

(***************************************************************************)
(* The document that is open, for this session and for the next start, is  *)
(* the one that was asked for last of those that were answered: a slow     *)
(* read of another document does not take its place.                       *)
(***************************************************************************)
OpensAskedLast ==
  \A k \in Calls :
    session'.opened # session.opened /\ call[k].op = "read" /\ call'[k] = Idle
      /\ call[k].session = session.n =>
         \A other \in Calls \ {k} :
           call[other].op = "read" /\ call[other].session = session.n =>
             call[other].number < call[k].number
OpenedWasAskedLast == [][OpensAskedLast]_vars
=============================================================================
