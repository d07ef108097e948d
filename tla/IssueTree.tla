------------------------------ MODULE IssueTree ------------------------------
(***************************************************************************)
(* How the flat list of a GitHub Project's items becomes the trees of the  *)
(* board (src-tauri/src/commands/project_board.rs, collect_issue_trees).   *)
(* Items name their sub-issues, in any shape GitHub lets people draw:      *)
(* shared children, cycles, children outside the project.  Item i has the  *)
(* URL i, in the order of the list; the URL 0 is outside the project.  The *)
(* state machine takes every project in turn and builds its board.         *)
(***************************************************************************)
EXTENDS Integers, Sequences, SequencesExt, FiniteSets

CONSTANTS Items,      \* the project has the items 1 .. Items
          MaxSubs,    \* sub-issues of one item (bound of the instances)
          MaxDepth,   \* MAX_TREE_DEPTH
          MaxNodes    \* MAX_COUNT_NODES

VARIABLES project,    \* item -> its sub-issues and whether its status maps
          board       \* the board, NoBoard before the synchronization

vars == <<project, board>>

(* ProjectBoard::empty: nothing was ever fetched.                          *)
NoBoard == [fetched |-> FALSE, issues |-> <<>>, skipped |-> 0, truncated |-> FALSE]

Index == 1 .. Items

(* One GithubProjectItem: map_status knows its status, or drops it.        *)
ItemSet == [subs : UNION {[1 .. n -> 0 .. Items] : n \in 0 .. MaxSubs},
            known : BOOLEAN]

Subs(url) == project[url].subs

(***************************************************************************)
(* count_descendants: the sub-issues below an item nobody has seen yet,    *)
(* with an explicit stack and at most MaxNodes of them.                    *)
(***************************************************************************)
SeenBefore(sub, seen) == sub \in seen

Found == [count : Nat, seen : SUBSET (0 .. Items), capped : BOOLEAN]

Walk[subs \in Seq(0 .. Items), stack \in Seq(Index), found \in Found] ==
  IF found.capped THEN found
  ELSE IF subs # <<>> THEN
    LET sub == Head(subs)
        push == IF sub \in Index THEN Append(stack, sub) ELSE stack
    IN IF SeenBefore(sub, found.seen) THEN Walk[Tail(subs), stack, found]
       ELSE Walk[Tail(subs), push,
                 [count  |-> found.count + 1,
                  seen   |-> found.seen \cup {sub},
                  capped |-> found.count + 1 >= MaxNodes]]
  ELSE IF stack # <<>> THEN Walk[Subs(Last(stack)), Front(stack), found]
  ELSE found

CountDescendants(item, seen) ==
  Walk[Subs(item), <<>>, [count |-> 0, seen |-> seen, capped |-> FALSE]]

(***************************************************************************)
(* build_tree.  The context is what all the roots of one synchronization   *)
(* share; a built subtree is [trees, cut, ctx].                            *)
(***************************************************************************)
Context == [skipped : Nat, truncated : BOOLEAN, rendered : SUBSET (0 .. Items),
            capped : BOOLEAN, count : Nat]

NoteSkipped(ctx, n) == [ctx EXCEPT !.skipped = @ + n]

(* Entering a node: it is counted, and the fallback will not take it.      *)
Entered_Once(ctx, url) ==
  [ctx EXCEPT !.count = @ + (IF url \in ctx.rendered THEN 0 ELSE 1),
              !.rendered = @ \cup {url}]
Entered(ctx, url) == [ctx EXCEPT !.count = @ + 1, !.rendered = @ \cup {url}]

(* The whole budget is spent: the node and all below it are hidden.        *)
OverBudget(url, ctx) ==
  LET below == CountDescendants(url, ctx.rendered)
  IN [trees |-> <<>>, cut |-> TRUE,
      ctx |-> [ctx EXCEPT !.skipped = @ + below.count + 1, !.rendered = below.seen,
                          !.truncated = TRUE, !.capped = TRUE]]

(* The node is at the depth limit: what is below it is hidden.             *)
DepthCut(url, ctx) ==
  LET below == CountDescendants(url, ctx.rendered)
  IN [trees |-> <<>>, cut |-> FALSE,
      ctx |-> [ctx EXCEPT !.skipped = @ + below.count, !.rendered = below.seen,
                          !.truncated = @ \/ Subs(url) # <<>>,
                          !.capped = @ \/ below.capped]]

(* An issue on the board: its children, and the mark for hidden ones.      *)
Issue(url, children, truncated) ==
  [url |-> url, children |-> children, truncated |-> truncated]

Marked_AtDepth(url, cut, below) == cut /\ Subs(url) # <<>>
Marked(url, cut, below) == (cut /\ Subs(url) # <<>>) \/ below.cut

(* An item whose status is unknown is dropped, its children take its place. *)
Placed(url, cut, below) ==
  IF project[url].known
  THEN [below EXCEPT !.trees = <<Issue(url, below.trees, Marked(url, cut, below))>>]
  ELSE [below EXCEPT !.ctx = NoteSkipped(@, 1)]

Missed_Silently(built) == built
Missed(built) == [built EXCEPT !.ctx = NoteSkipped(@, 1)]

(* A child that leads back up, or is not in the project, is missed; the    *)
(* others are built one after the other, with the context of the last one. *)
BuildTree[url \in Index, visiting \in SUBSET Index, depth \in 0 .. MaxDepth, before \in Context] ==
  LET ctx == Entered(before, url)
      cut == depth >= MaxDepth
      WithChild(built, sub) ==
        IF sub \in visiting \/ sub \notin Index THEN Missed(built)
        ELSE LET child == BuildTree[sub, visiting \cup {sub}, depth + 1, built.ctx]
             IN [trees |-> built.trees \o child.trees,
                 cut   |-> built.cut \/ child.cut,
                 ctx   |-> child.ctx]
  IN IF ctx.count > MaxNodes THEN OverBudget(url, ctx)
     ELSE Placed(url, cut,
            IF cut THEN DepthCut(url, ctx)
            ELSE FoldLeft(WithChild, [trees |-> <<>>, cut |-> FALSE, ctx |-> ctx], Subs(url)))

(***************************************************************************)
(* collect_issue_trees: the roots first, then whatever no root reached.    *)
(***************************************************************************)
ChildUrls == UNION {ToSet(Subs(i)) : i \in Index}

(* The issues of a board level by level, each with the issues above it.    *)
Levels(trees) ==
  LET At(issues, above) == [i \in DOMAIN issues |-> [issue |-> issues[i], above |-> above]]
      Level[n \in 0 .. MaxDepth + 1] ==
        IF n = 0 THEN At(trees, {})
        ELSE LET last == Level[n - 1]
             IN FlattenSeq([i \in DOMAIN last |->
                              At(last[i].issue.children, last[i].above \cup {last[i].issue.url})])
  IN [n \in 0 .. MaxDepth + 1 |-> Level[n]]
Placements(trees) == UNION {ToSet(level) : level \in Range(Levels(trees))}
ShownIn(trees) == {at.issue.url : at \in Placements(trees)}

(* One item is spread out as a root; record_rendered notes what it shows.  *)
AsRoot(all, url) ==
  LET built == BuildTree[url, {url}, 0, [all.ctx EXCEPT !.rendered = @ \cup {url}]]
  IN [issues |-> all.issues \o built.trees,
      ctx |-> [built.ctx EXCEPT !.rendered = @ \cup ShownIn(built.trees)]]

Spread(all, roots) ==
  FoldLeft(LAMBDA acc, url: IF url \in acc.ctx.rendered THEN acc ELSE AsRoot(acc, url),
           all, SetToSortSeq(roots, <))

NoItems == [issues |-> <<>>,
            ctx |-> [skipped |-> 0, truncated |-> FALSE, rendered |-> {},
                     capped |-> FALSE, count |-> 0]]

Fallback(all) ==
  IF all.ctx.capped
  THEN [all EXCEPT !.ctx = NoteSkipped(@, Cardinality(Index \ all.ctx.rendered))]
  ELSE Spread(all, Index)

CollectIssueTrees ==
  LET all == Fallback(Spread(NoItems, Index \ ChildUrls))
  IN [fetched |-> TRUE, issues |-> all.issues, skipped |-> all.ctx.skipped,
      truncated |-> all.ctx.truncated]

(* sync_project_board takes the list from GitHub and builds the board.     *)
Init == project \in [Index -> ItemSet] /\ board = NoBoard

Sync == ~board.fetched /\ board' = CollectIssueTrees /\ UNCHANGED project

Next == Sync

(***************************************************************************)
(* What the board tells its reader.                                        *)
(***************************************************************************)
Shown == ShownIn(board.issues)

Children(issue) == {issue.children[j].url : j \in DOMAIN issue.children}
EdgesIn(trees) == UNION {{at.issue.url} \X Children(at.issue) : at \in Placements(trees)}
SizeOf(trees) == FoldFunction(LAMBDA level, n : n + Len(level), 0, Levels(trees))

(* The number on the board is never smaller than what it hides: every item *)
(* is shown or counted as skipped, and a board that says it is complete    *)
(* (nothing skipped, not truncated) shows every item below every parent    *)
(* GitHub gives it.                                                        *)
HiddenIsCounted ==
  board.fetched =>
    /\ Cardinality(Index \ Shown) <= board.skipped
    /\ (board.skipped = 0 /\ ~board.truncated) =>
         EdgesIn(board.issues) = UNION {{p} \X ToSet(Subs(p)) : p \in Index}

(* However the items are tangled, the board has at most MaxNodes issues    *)
(* and is no deeper than the limit: children that several parents share    *)
(* and cycles cannot make it grow without end.                             *)
BoardIsBounded ==
  board.fetched =>
    /\ SizeOf(board.issues) <= MaxNodes
    /\ Levels(board.issues)[MaxDepth + 1] = <<>>

(* An issue that lacks one of its children of a known status, other than   *)
(* the ones a cycle leads back to, carries the mark "some are left out".   *)
HiddenChildrenAreMarked ==
  board.fetched =>
    \A at \in Placements(board.issues) :
      LET issue == at.issue
          expected == {c \in ToSet(Subs(issue.url)) \cap Index :
                         project[c].known /\ c \notin at.above \cup {issue.url}}
      IN expected \subseteq Children(issue) \/ issue.truncated

Spec == Init /\ [][Next]_vars
=============================================================================
