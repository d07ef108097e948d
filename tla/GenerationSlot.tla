--------------------------- MODULE GenerationSlot ---------------------------
(***************************************************************************)
(* What the document runtime promises about its single generation slot,    *)
(* without saying how sessions start, index or stop.  The slot is empty or *)
(* held by one owner, a session id paired with a nonce.  A nonce is given  *)
(* out once, so an owner that left the slot never holds it again, even     *)
(* when its session id comes back.                                         *)
(***************************************************************************)
EXTENDS Naturals

CONSTANTS
  Sessions,     \* session ids chosen by the frontend
  NoSession,    \* the session id of an empty slot
  MaxNonce      \* bound of the model on the nonces given out

ASSUME SlotAssumption ==
  /\ NoSession \notin Sessions
  /\ MaxNonce \in Nat \ {0}

VARIABLES
  generation,   \* the slot: its kind and its owner
  nextNonce     \* the nonce of the next owner

slotVars == <<generation, nextNonce>>

Nonces == 1..MaxNonce
Kinds == {"none", "starting", "active"}
NoOwner == [session |-> NoSession, nonce |-> 0]
NoGeneration == [kind |-> "none", owner |-> NoOwner]
Owners == [session : Sessions, nonce : Nonces]

SlotTypeOK ==
  /\ generation \in [kind : Kinds, owner : Owners \cup {NoOwner}]
  /\ (generation.kind = "none") <=> (generation.owner = NoOwner)
  /\ nextNonce \in 1..(MaxNonce + 1)

SlotInit == generation = NoGeneration /\ nextNonce = 1

\* A new owner takes the slot, displacing whatever generation holds it.
ReserveSlot(s) ==
  /\ nextNonce \in Nonces
  /\ generation.owner.session # s
  /\ generation' = [kind |-> "starting", owner |-> [session |-> s, nonce |-> nextNonce]]
  /\ nextNonce' = nextNonce + 1

\* The starting owner, and no other, becomes active.
ActivateSlot(n) ==
  /\ generation.kind = "starting" /\ generation.owner.nonce = n
  /\ generation' = [generation EXCEPT !.kind = "active"]
  /\ UNCHANGED nextNonce

\* The slot is emptied, by the holder's handle or after it failed to start.
ReleaseSlot(n) ==
  /\ generation.kind # "none" /\ generation.owner.nonce = n
  /\ generation' = NoGeneration
  /\ UNCHANGED nextNonce

SlotNext ==
  \/ \E s \in Sessions : ReserveSlot(s)
  \/ \E n \in Nonces : ActivateSlot(n) \/ ReleaseSlot(n)

SlotSpec == SlotInit /\ [][SlotNext]_slotVars

=============================================================================
