------------------------------ MODULE EventFeed ------------------------------
(***************************************************************************)
(* What the document event stream promises the window: the trees it shows  *)
(* are trees the runtime had, in the order the runtime had them, some may  *)
(* be skipped, and as long as the session is open the last one gets there. *)
(* Trees are numbered in the order the runtime adopts them.                *)
(***************************************************************************)
EXTENDS Naturals

VARIABLES
  current,   \* the tree of the runtime
  shown,     \* the tree on screen; 0 is the empty one before the session is up
  open       \* the window still follows the session

feedVars == <<current, shown, open>>

FeedInit == current = 1 /\ shown = 0 /\ open = TRUE

Adopt == open = TRUE /\ current' = current + 1 /\ UNCHANGED <<shown, open>>
Show == open = TRUE /\ shown' \in (shown + 1)..current /\ UNCHANGED <<current, open>>
Close == open = TRUE /\ open' = FALSE /\ UNCHANGED <<current, shown>>

FeedNext == Adopt \/ Show \/ Close

FeedSpec == FeedInit /\ [][FeedNext]_feedVars /\ WF_feedVars(Show)
=============================================================================
