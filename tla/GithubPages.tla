----------------------------- MODULE GithubPages -----------------------------
(***************************************************************************)
(* How the GitHub client reads what GitHub hands out page by page          *)
(* (src-tauri/src/github/client.rs): the items of a Project with their     *)
(* sub-issues, the repositories of all the installations of the GitHub     *)
(* App, and the Projects the account can see.  Every page is a request of  *)
(* its own; any of them may fail, and then the whole operation does.       *)
(*                                                                         *)
(* An item is what it takes to read it: whether GitHub shows it at all,    *)
(* whether it has content the board can use, and which of its sub-issues   *)
(* have theirs.  The bounds of the code are constants, to be small.        *)
(***************************************************************************)
EXTENDS Integers, Sequences, SequencesExt, FiniteSets

CONSTANTS MaxItems, MaxSubs,     \* bounds of the instances
          MaxLacking,            \* ... sub-issues of one item that lack a field
          ItemsPerPage,          \* items(first:100)
          ItemPages,             \* at most 5 pages of items
          FirstSubs,             \* SUB_ISSUES_FIRST
          SubsPerPage,           \* SUB_ISSUES_FOLLOW_UP_FIRST
          SubPages,              \* SUB_ISSUES_FOLLOW_UP_PAGES
          Budget,                \* SUB_ISSUES_FOLLOW_UP_BUDGET
          MaxInstalls, MaxRepositories,
          ReposPerPage,          \* per_page=100
          MaxOwners, MaxProjects,
          OwnersShown,           \* organizations(first:20)
          ProjectsShown          \* projectsV2(first:100)

GithubPagesAssumption ==
  /\ {MaxItems, MaxSubs, MaxLacking, MaxInstalls, MaxRepositories, MaxOwners, MaxProjects}
       \subseteq Nat
  /\ {ItemsPerPage, ItemPages, FirstSubs, SubsPerPage, SubPages, Budget, ReposPerPage,
      OwnersShown, ProjectsShown} \subseteq Nat \ {0}

VARIABLES op,         \* the operation: "items", "repositories" or "projects"
          project,    \* the Project on GitHub: a sequence of items
          installs,   \* the installations, by ID: repositories each gives access to
          owners,     \* who the account's Projects belong to: how many each has
          pc,         \* where the client is
          read,       \* what list_project_items has collected
          listed      \* what the window has got from list_repositories

vars == <<op, project, installs, owners, pc, read, listed>>

Smaller(a, b) == IF a < b THEN a ELSE b

SeqsUpTo(S, n) == UNION {[1 .. k -> S] : k \in 0 .. n}

(* A sub-issue is usable or lacks a field; an item that GitHub does not    *)
(* show is null in the answer.                                             *)
SubIssues ==
  {s \in SeqsUpTo(BOOLEAN, MaxSubs) : Len(SelectSeq(s, LAMBDA b: ~b)) <= MaxLacking}
ItemSet ==
  [kind : {"null", "unusable"}, subs : {<<>>}] \cup [kind : {"usable"}, subs : SubIssues]

NothingRead == [items |-> 0, got |-> <<>>, pages |-> 0, budget |-> Budget, gone |-> {},
                sub |-> 0, turns |-> 0, truncated |-> FALSE, dropped |-> 0, requests |-> 0]

NothingListed == [cursor |-> <<>>, pages |-> {}, twice |-> FALSE, truncated |-> FALSE]

Init ==
  /\ op \in {"items", "repositories", "projects"}
  /\ project \in IF op = "items" THEN SeqsUpTo(ItemSet, MaxItems) ELSE {<<>>}
  /\ installs \in IF op = "repositories"
                  THEN UNION {{[i \in 1 .. n |-> [id |-> i, repos |-> f[i]]] :
                                f \in [1 .. n -> 0 .. MaxRepositories]} : n \in 0 .. MaxInstalls}
                  ELSE {<<>>}
  /\ owners \in IF op = "projects" THEN SeqsUpTo(0 .. MaxProjects, MaxOwners) ELSE {<<>>}
  /\ pc = CASE op = "items" -> "page" [] op = "repositories" -> "installations"
            [] op = "projects" -> "projects"
  /\ read = NothingRead
  /\ listed = NothingListed

world == <<op, project, installs, owners>>

(* No token, no answer, an error status, or GraphQL's errors.              *)
Fails ==
  /\ pc \in {"page", "subs", "installations", "repositories", "projects"}
  /\ pc' = "failed"
  /\ UNCHANGED <<world, read, listed>>

(***************************************************************************)
(* list_project_items.                                                     *)
(***************************************************************************)
InPage == Smaller(ItemsPerPage, Len(project) - read.pages * ItemsPerPage)

(* A request for the next page of items; read.items counts down its nodes. *)
ReadPage ==
  /\ op = "items" /\ pc = "page"
  /\ read' = [read EXCEPT !.pages = @ + 1, !.items = InPage, !.requests = @ + 1]
  /\ pc' = "nodes"
  /\ UNCHANGED <<world, listed>>

(* The next node of the page that was read.                                *)
Node == project[Smaller(read.pages * ItemsPerPage, Len(project)) - read.items + 1]

Done(truncated) ==
  /\ read' = [read EXCEPT !.truncated = truncated]
  /\ pc' = "done"

(* collect_sub_issues keeps the usable ones of the answer and counts the   *)
(* others; r.sub is how many nodes have been looked at.                    *)
Kept(from, to) == Len(SelectSeq(SubSeq(Node.subs, from + 1, to), LAMBDA usable: usable))

Collected(r, to) ==
  [r EXCEPT !.sub = to,
            !.got[Len(r.got)] = @ + Kept(r.sub, to),
            !.dropped = @ + (to - r.sub - Kept(r.sub, to))]

(* A node that is null is passed over; one without what the board needs is *)
(* counted.                                                                *)
Skip_Silently ==
  /\ op = "items" /\ pc = "nodes" /\ read.items > 0 /\ Node.kind # "usable"
  /\ read' = [read EXCEPT !.items = @ - 1]
  /\ UNCHANGED <<world, pc, listed>>
Skip ==
  /\ op = "items" /\ pc = "nodes" /\ read.items > 0 /\ Node.kind # "usable"
  /\ read' = [read EXCEPT !.items = @ - 1,
                          !.dropped = @ + (IF Node.kind = "null" THEN 0 ELSE 1)]
  /\ UNCHANGED <<world, pc, listed>>

(* The item with the sub-issues that came along; without a node ID or a    *)
(* cursor the others cannot be followed up.                                *)
Take ==
  /\ op = "items" /\ pc = "nodes" /\ read.items > 0 /\ Node.kind = "usable"
  /\ LET fresh == [read EXCEPT !.sub = 0, !.turns = 0, !.got = Append(@, 0)]
         some == Collected(fresh, Smaller(FirstSubs, Len(Node.subs)))
         more == Len(Node.subs) > FirstSubs
     IN \/ /\ more
           /\ read' = some /\ pc' = "subs"
        \/ /\ read' = [some EXCEPT !.items = @ - 1, !.truncated = @ \/ more]
           /\ pc' = "nodes"
  /\ UNCHANGED <<world, listed>>

(* The item is complete, or its sub-issues are cut off.                    *)
TookSubs(r, complete) ==
  /\ read' = [r EXCEPT !.items = @ - 1, !.truncated = @ \/ ~complete]
  /\ pc' = "nodes"

(* fetch_remaining_sub_issues gives up after SubPages requests, or when    *)
(* all the items together have used up the budget.                         *)
SpentSubs == read.turns = SubPages \/ read.budget = 0

GiveUpSubs ==
  /\ op = "items" /\ pc = "subs" /\ SpentSubs
  /\ TookSubs(read, FALSE)
  /\ UNCHANGED <<world, listed>>

(* One more page of sub-issues; has_next_page may come without a cursor,   *)
(* and an issue that is gone has no more of them.                          *)
ReadSubs ==
  /\ op = "items" /\ pc = "subs" /\ ~SpentSubs
  /\ LET asked == [read EXCEPT !.budget = @ - 1, !.turns = @ + 1, !.requests = @ + 1]
         r == Collected(asked, Smaller(read.sub + SubsPerPage, Len(Node.subs)))
     IN \/ TookSubs([asked EXCEPT !.gone = @ \cup {Len(read.got)}], TRUE)
        \/ r.sub = Len(Node.subs) /\ TookSubs(r, TRUE)
        \/ r.sub < Len(Node.subs) /\ read' = r /\ pc' = "subs"
        \/ r.sub < Len(Node.subs) /\ TookSubs(r, FALSE)
  /\ UNCHANGED <<world, listed>>

(* The end of a page: the last one, or the last one that may be read, or   *)
(* one whose cursor is missing.                                            *)
HasNext == read.pages * ItemsPerPage < Len(project)

EndPage ==
  /\ op = "items" /\ pc = "nodes" /\ read.items = 0
  /\ IF ~HasNext THEN Done(read.truncated)
     ELSE IF read.pages = ItemPages THEN Done(TRUE)
     ELSE \/ UNCHANGED read /\ pc' = "page"
          \/ Done(TRUE)
  /\ UNCHANGED <<world, listed>>

(***************************************************************************)
(* list_repositories.  The cursor names an installation and a page.        *)
(***************************************************************************)
PageNumber == listed.cursor[2]

(* Where the installation of the cursor is among those there are now.      *)
Place == {i \in DOMAIN installs : installs[i].id = listed.cursor[1]}
Install == CHOOSE i \in Place : TRUE

(* list_installations, before every page; the first page of the first one  *)
(* comes first, and without any there is nothing to list.                  *)
ListInstallations ==
  /\ op = "repositories" /\ pc = "installations"
  /\ pc' = IF installs = <<>> /\ listed.cursor = <<>> THEN "done" ELSE "repositories"
  /\ listed' = IF listed.cursor = <<>> /\ installs # <<>>
               THEN [listed EXCEPT !.cursor = <<installs[1].id, 1>>] ELSE listed
  /\ UNCHANGED <<world, read>>

(* Where the list goes on after a page.                                    *)
NextCursor_FirstPage ==
  IF PageNumber * ReposPerPage < installs[Install].repos
  THEN <<listed.cursor[1], PageNumber + 1>>
  ELSE IF Install < Len(installs) THEN <<installs[Install + 1].id, PageNumber>>
  ELSE <<>>
NextCursor ==
  IF PageNumber * ReposPerPage < installs[Install].repos
  THEN <<listed.cursor[1], PageNumber + 1>>
  ELSE IF Install < Len(installs) THEN <<installs[Install + 1].id, 1>>
  ELSE <<>>

(* The window asks for the page of the cursor, and for the next one.       *)
ReadRepositories ==
  /\ op = "repositories" /\ pc = "repositories" /\ Place # {}
  /\ LET first == (PageNumber - 1) * ReposPerPage + 1
         last == Smaller(PageNumber * ReposPerPage, installs[Install].repos)
         page == {<<listed.cursor[1], r>> : r \in first .. last}
     IN listed' = [listed EXCEPT !.pages = @ \cup page,
                                 !.twice = @ \/ page \cap listed.pages # {},
                                 !.cursor = IF NextCursor = <<>> THEN @ ELSE NextCursor]
  /\ pc' = IF NextCursor = <<>> THEN "done" ELSE "installations"
  /\ UNCHANGED <<world, read>>

(* The access of the cursor's installation was taken away.                 *)
InstallationGone ==
  /\ op = "repositories" /\ pc = "repositories" /\ Place = {}
  /\ pc' = "failed"
  /\ UNCHANGED <<world, read, listed>>

(* Somebody uninstalls the App between two pages.                          *)
Uninstall ==
  /\ op = "repositories" /\ pc = "installations"
  /\ \E i \in DOMAIN installs : installs' = RemoveAt(installs, i)
  /\ UNCHANGED <<op, project, owners, pc, read, listed>>

(***************************************************************************)
(* list_projects: one request for the Projects of the organizations, the   *)
(* first so many of each; the account is one more owner.                   *)
(***************************************************************************)
Cut(n, shown) == n > shown

ListProjects ==
  /\ op = "projects" /\ pc = "projects"
  /\ LET shown == 1 .. Smaller(Len(owners), OwnersShown)
     IN listed' = [listed EXCEPT
          !.pages = {x \in shown \X (1 .. ProjectsShown) : x[2] <= owners[x[1]]},
          !.truncated = Cut(Len(owners), OwnersShown)
                          \/ \E o \in shown : Cut(owners[o], ProjectsShown)]
  /\ pc' = "done"
  /\ UNCHANGED <<world, read>>

Next ==
  \/ Fails
  \/ ReadPage \/ Skip \/ Take \/ GiveUpSubs \/ ReadSubs \/ EndPage
  \/ ListInstallations \/ ReadRepositories \/ InstallationGone \/ Uninstall
  \/ ListProjects

Spec == Init /\ [][Next]_vars

(***************************************************************************)
(* Properties.                                                             *)
(***************************************************************************)
(* What a complete list would have.                                        *)
Usable == SelectSeq(project, LAMBDA i: i.kind = "usable")
UsableSubs(i) == Len(SelectSeq(Usable[i].subs, LAMBDA usable: usable))
Unusable ==
  Len(SelectSeq(project, LAMBDA i: i.kind = "unusable"))
    + FoldLeft(LAMBDA n, i: n + Len(i.subs), 0, Usable)
    - FoldLeftDomain(LAMBDA n, i: n + UsableSubs(i), 0, Usable)

(* The list of a Project's items never hides that it is not whole: unless  *)
(* it says it is truncated it has every usable item with every usable      *)
(* sub-issue, and what is not usable is counted.  Two things the code      *)
(* leaves out without a mark: the rest of the sub-issues of an issue that  *)
(* was deleted meanwhile, and nodes that are null.                         *)
ListIsHonest ==
  op = "items" /\ pc = "done" /\ ~read.truncated =>
    /\ Len(read.got) = Len(Usable)
    /\ \A i \in DOMAIN Usable : i \in read.gone \/ read.got[i] = UsableSubs(i)
    /\ read.gone = {} => read.dropped = Unusable

(* It is never built from more requests than the pages and the common      *)
(* budget of the follow-ups allow.                                         *)
RequestsAreBounded == read.requests <= ItemPages + Budget

(* A list of Projects without the mark has all of them.                    *)
ProjectsAreWhole ==
  op = "projects" /\ pc = "done" /\ ~listed.truncated =>
    listed.pages = {x \in (DOMAIN owners) \X (1 .. MaxProjects) : x[2] <= owners[x[1]]}

(* Following the cursors to the end shows every repository of every        *)
(* installation that is still there, and none of them twice.               *)
EveryRepositoryOnce ==
  op = "repositories" =>
    /\ ~listed.twice
    /\ pc = "done" => \A i \in DOMAIN installs : \A r \in 1 .. installs[i].repos :
                        <<installs[i].id, r>> \in listed.pages
=============================================================================
