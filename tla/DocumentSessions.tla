--------------------------- MODULE DocumentSessions ---------------------------
(***************************************************************************)
(* The document sessions as the commands manage them: the registry of      *)
(* state.rs with its pending and active session, the start, stop, logout   *)
(* and read commands that run over it concurrently, the listener task of   *)
(* each session, and the generation slot of the runtime, here as           *)
(* GenerationSlot promises it and DocumentRuntime implements it.           *)
(*                                                                         *)
(* A session is named by the start command that made it, as the code       *)
(* tells its contexts apart by pointer: two starts may use one session id. *)
(***************************************************************************)
EXTENDS GenerationSlot, FiniteSets

CONSTANTS
  Starts,       \* calls of start_document_session
  NoStart,
  Stopper,      \* stop_document_session, as the holder of the mutation lock
  MaxLogouts    \* bound of the model on logouts

ASSUME SessionsAssumption ==
  /\ NoStart \notin Starts
  /\ Stopper \notin Starts \cup {NoStart}
  /\ MaxLogouts \in Nat

VARIABLES
  registry,     \* DocumentCommandSessionState
  mutation,     \* who holds the mutation lock of the registry
  start,        \* where each start command is and what its cleanup guard holds
  listener,     \* the listener task of each session
  stopping,     \* the stop command and the session it took
  logout,       \* the logout command, a writer of the authenticated command gate
  logouts,      \* logouts so far
  signedIn,     \* an access token can be had
  reading       \* a read_document command and the session it registered in

vars == <<slotVars, registry, mutation, start, listener, stopping, logout, logouts,
          signedIn, reading>>

-----------------------------------------------------------------------------
MaybeStart == Starts \cup {NoStart}
StartPcs == {"none", "leased", "loading", "loaded", "replacing", "replaced", "reserved",
             "prepared", "listening", "activated", "dropping", "releasing", "over"}

\* gen is the runtime generation of the session; owns tells that the guard, and not
\* the registry, answers for it and for the listener; prev is the session it replaces.
NewStart == [pc |-> "none", session |-> NoSession, gen |-> 0, owns |-> FALSE, prev |-> NoStart]

Session(c) == IF c = NoStart THEN NoSession ELSE start[c].session
Gen(c) == IF c = NoStart THEN 0 ELSE start[c].gen

\* stop_generation, for each of the sessions cs.
StopGenerations(cs) ==
  IF generation.owner.nonce \in {Gen(c) : c \in cs \ {NoStart}} /\ generation.kind # "none"
  THEN ReleaseSlot(generation.owner.nonce)
  ELSE UNCHANGED slotVars

Cancelled(cs) ==
  [c \in Starts |-> IF c \in cs /\ listener[c] = "running" THEN "cancelled" ELSE listener[c]]

Ended(c) == c # NoStart => listener[c] = "done"

\* Holders of a read lease on the gate.
Leased == {c \in Starts : start[c].pc \notin {"none", "over"}}
GateFree == Leased = {} /\ reading.at = "none"
MayEnter == logout.at = "none" /\ signedIn

Init ==
  /\ SlotInit
  /\ registry = [pending |-> NoStart, active |-> NoStart]
  /\ mutation = NoStart
  /\ start = [c \in Starts |-> NewStart]
  /\ listener = [c \in Starts |-> "none"]
  /\ stopping = [at |-> "none", session |-> NoStart]
  /\ logout = [at |-> "none", session |-> NoStart]
  /\ logouts = 0
  /\ signedIn = TRUE
  /\ reading = [at |-> "none", session |-> NoStart, wrote |-> 0]

authVars == <<logout, logouts, signedIn>>
otherVars == <<stopping, authVars, reading>>

Step(c, from, to) ==
  /\ start[c].pc = from
  /\ start' = [start EXCEPT ![c] = [@ EXCEPT !.pc = to]]

-----------------------------------------------------------------------------
(***************************************************************************)
(* start_document_session.                                                 *)
(***************************************************************************)

\* The lease comes first; a caller that has no token leaves without a trace.
EnterStart(c, s) ==
  /\ MayEnter /\ start[c].pc = "none"
  /\ start' = [start EXCEPT ![c] = [@ EXCEPT !.pc = "leased", !.session = s]]
  /\ UNCHANGED <<slotVars, registry, mutation, listener, otherVars>>

MayReserve(c) ==
  registry.pending = NoStart /\ (registry.active # NoStart => Session(registry.active) # Session(c))

ReservePending(c) ==
  /\ IF MayReserve(c)
     THEN Step(c, "leased", "loading") /\ registry' = [registry EXCEPT !.pending = c]
     ELSE Step(c, "leased", "over") /\ UNCHANGED registry
  /\ UNCHANGED <<slotVars, mutation, listener, otherVars>>

LoadWorkspace(c) ==
  /\ Step(c, "loading", "loaded") \/ Step(c, "loading", "dropping")
  /\ UNCHANGED <<slotVars, registry, mutation, listener, otherVars>>

\* Under the mutation lock the previous session is taken out and told to end; the
\* start waits for its listener before it stops its generation.
TakePrevious(c) ==
  /\ mutation = NoStart /\ start[c].pc = "loaded"
  /\ IF registry.pending # c
     THEN /\ Step(c, "loaded", "dropping")
          /\ UNCHANGED <<registry, mutation, listener>>
     ELSE /\ start' = [start EXCEPT ![c] = [@ EXCEPT !.pc = "replacing", !.prev = registry.active]]
          /\ registry' = [registry EXCEPT !.active = NoStart]
          /\ mutation' = c
          /\ listener' = Cancelled({registry.active})
  /\ UNCHANGED <<slotVars, otherVars>>

StopPrevious(c) ==
  /\ start[c].pc = "replacing" /\ Ended(start[c].prev)
  /\ start' = [start EXCEPT ![c] = [@ EXCEPT !.pc = "replaced", !.prev = NoStart]]
  /\ StopGenerations({start[c].prev})
  /\ mutation' = NoStart
  /\ UNCHANGED <<registry, listener, otherVars>>

ReserveGeneration_NextNonce(c) ==
  /\ start[c].pc = "replaced"
  /\ ReserveSlot(start[c].session)
  /\ start' = [start EXCEPT ![c] = [@ EXCEPT !.pc = "reserved", !.gen = nextNonce']]
  /\ UNCHANGED <<registry, mutation, listener, otherVars>>

ReserveGeneration(c) ==
  /\ start[c].pc = "replaced"
  /\ ReserveSlot(start[c].session)
  /\ start' = [start EXCEPT ![c] = [@ EXCEPT !.pc = "reserved", !.gen = nextNonce]]
  /\ UNCHANGED <<registry, mutation, listener, otherVars>>

ReserveRefused(c) ==
  /\ generation.owner.session = start[c].session
  /\ Step(c, "replaced", "dropping")
  /\ UNCHANGED <<slotVars, registry, mutation, listener, otherVars>>

PrepareGeneration(c) ==
  /\ start[c].pc = "reserved"
  /\ ActivateSlot(start[c].gen)
  /\ start' = [start EXCEPT ![c] = [@ EXCEPT !.pc = "prepared", !.owns = TRUE]]
  /\ UNCHANGED <<registry, mutation, listener, otherVars>>

SpawnListener(c) ==
  /\ Step(c, "prepared", "listening")
  /\ listener' = [listener EXCEPT ![c] = "running"]
  /\ UNCHANGED <<slotVars, registry, mutation, otherVars>>

ActivatePending(c) ==
  /\ mutation = NoStart /\ start[c].pc = "listening"
  /\ IF registry.active = NoStart /\ registry.pending = c
     THEN /\ registry' = [pending |-> NoStart, active |-> c]
          /\ start' = [start EXCEPT ![c] = [@ EXCEPT !.pc = "activated", !.owns = FALSE]]
     ELSE /\ Step(c, "listening", "dropping")
          /\ UNCHANGED registry
  /\ UNCHANGED <<slotVars, mutation, listener, otherVars>>

ReturnStart(c) ==
  /\ Step(c, "activated", "over")
  /\ UNCHANGED <<slotVars, registry, mutation, listener, otherVars>>

\* The command fails, or its future is dropped, while it waits: a reservation that
\* was not completed is cancelled, the mutation lock released, the guard dropped.
AbortStart(c) ==
  /\ start[c].pc \in {"loading", "loaded", "replacing", "replaced", "reserved", "listening",
                      "activated"}
  /\ start' = [start EXCEPT ![c] = [@ EXCEPT !.pc = "dropping"]]
  /\ IF start[c].pc = "reserved" THEN StopGenerations({c}) ELSE UNCHANGED slotVars
  /\ mutation' = IF mutation = c THEN NoStart ELSE mutation
  /\ UNCHANGED <<registry, listener, otherVars>>

DropPlace_KeepsPending(c) ==
  /\ start[c].pc = "dropping"
  /\ start' = [start EXCEPT ![c] =
                 [@ EXCEPT !.pc = "releasing", !.owns = start[c].owns \/ registry.active = c]]
  /\ registry' = [registry EXCEPT !.active = IF @ = c THEN NoStart ELSE @]
  /\ UNCHANGED <<slotVars, mutation, listener, otherVars>>

\* The guard first gives up its place in the registry.
DropPlace(c) ==
  /\ start[c].pc = "dropping"
  /\ start' = [start EXCEPT ![c] =
                 [@ EXCEPT !.pc = "releasing", !.owns = start[c].owns \/ registry.active = c]]
  /\ registry' = [pending |-> IF registry.pending = c THEN NoStart ELSE registry.pending,
                  active |-> IF registry.active = c THEN NoStart ELSE registry.active]
  /\ UNCHANGED <<slotVars, mutation, listener, otherVars>>

Held(c) == {start[c].prev} \cup (IF start[c].owns THEN {c} ELSE {})

DropHeld_OwnOnly(c) ==
  /\ start[c].pc = "releasing"
  /\ StopGenerations({c})
  /\ listener' = Cancelled({c})
  /\ start' = [start EXCEPT ![c] = [@ EXCEPT !.pc = "over", !.owns = FALSE, !.prev = NoStart]]
  /\ UNCHANGED <<registry, mutation, otherVars>>

\* Then it stops whatever it still answers for, the session it was replacing included.
DropHeld(c) ==
  /\ start[c].pc = "releasing"
  /\ StopGenerations(Held(c))
  /\ listener' = Cancelled(Held(c))
  /\ start' = [start EXCEPT ![c] = [@ EXCEPT !.pc = "over", !.owns = FALSE, !.prev = NoStart]]
  /\ UNCHANGED <<registry, mutation, otherVars>>

\* forward_document_events notices that it was cancelled.
ListenerEnds(c) ==
  /\ listener[c] = "cancelled"
  /\ listener' = [listener EXCEPT ![c] = "done"]
  /\ UNCHANGED <<slotVars, registry, mutation, start, otherVars>>

-----------------------------------------------------------------------------
(***************************************************************************)
(* stop_document_session, which takes no lease, and logout.                *)
(***************************************************************************)

StopTakes_NoCancel ==
  /\ mutation = NoStart /\ registry.active # NoStart
  /\ mutation' = Stopper
  /\ stopping' = [at |-> "taken", session |-> registry.active]
  /\ registry' = [registry EXCEPT !.active = NoStart]
  /\ UNCHANGED <<slotVars, start, listener, authVars, reading>>

StopTakes ==
  /\ mutation = NoStart /\ registry.active # NoStart
  /\ mutation' = Stopper
  /\ stopping' = [at |-> "taken", session |-> registry.active]
  /\ registry' = [registry EXCEPT !.active = NoStart]
  /\ listener' = Cancelled({registry.active})
  /\ UNCHANGED <<slotVars, start, authVars, reading>>

StopStops ==
  /\ stopping.at = "taken"
  /\ StopGenerations({stopping.session})
  /\ stopping' = [stopping EXCEPT !.at = "waiting"]
  /\ UNCHANGED <<registry, mutation, start, listener, authVars, reading>>

StopEnds ==
  /\ stopping.at = "waiting" /\ Ended(stopping.session)
  /\ stopping' = [at |-> "none", session |-> NoStart]
  /\ mutation' = NoStart
  /\ UNCHANGED <<slotVars, registry, start, listener, authVars, reading>>

sessionVars == <<slotVars, registry, mutation, start, listener, stopping, reading>>

\* From here on the gate lets no new reader in.
RequestLogout ==
  /\ logout.at = "none" /\ logouts < MaxLogouts
  /\ logouts' = logouts + 1
  /\ logout' = [logout EXCEPT !.at = "waiting"]
  /\ UNCHANGED <<sessionVars, signedIn>>

\* The credentials could not be deleted: the sessions stay as they are.
LogoutFails ==
  /\ logout.at = "waiting" /\ GateFree
  /\ logout' = [logout EXCEPT !.at = "none"]
  /\ UNCHANGED <<sessionVars, logouts, signedIn>>

ClearForLogout_Ungated ==
  /\ logout.at = "waiting"
  /\ signedIn' = FALSE
  /\ logout' = [at |-> "cleared", session |-> registry.active]
  /\ registry' = [pending |-> NoStart, active |-> NoStart]
  /\ listener' = Cancelled({registry.active})
  /\ UNCHANGED <<slotVars, mutation, start, stopping, reading, logouts>>

ClearForLogout ==
  /\ logout.at = "waiting" /\ GateFree
  /\ signedIn' = FALSE
  /\ logout' = [at |-> "cleared", session |-> registry.active]
  /\ registry' = [pending |-> NoStart, active |-> NoStart]
  /\ listener' = Cancelled({registry.active})
  /\ UNCHANGED <<slotVars, mutation, start, stopping, reading, logouts>>

LogoutStops ==
  /\ logout.at = "cleared"
  /\ StopGenerations({logout.session})
  /\ logout' = [logout EXCEPT !.at = "draining"]
  /\ UNCHANGED <<registry, mutation, start, listener, stopping, reading, logouts, signedIn>>

LogoutEnds ==
  /\ logout.at = "draining" /\ Ended(logout.session)
  /\ logout' = [at |-> "none", session |-> NoStart]
  /\ UNCHANGED <<sessionVars, logouts, signedIn>>

SignIn ==
  /\ ~signedIn /\ logout.at = "none"
  /\ signedIn' = TRUE
  /\ UNCHANGED <<sessionVars, logout, logouts>>

-----------------------------------------------------------------------------
(***************************************************************************)
(* read_document, for the commands that register in a session, work        *)
(* without the lock, and then write to the runtime by session id.          *)
(***************************************************************************)

readVars == <<slotVars, registry, mutation, start, listener, stopping, authVars>>

BeginRead ==
  /\ MayEnter /\ reading.at = "none"
  /\ mutation = NoStart /\ registry.active # NoStart
  /\ reading' = [at |-> "reading", session |-> registry.active, wrote |-> 0]
  /\ UNCHANGED readVars

IsActive_ById(c) == registry.active # NoStart /\ Session(registry.active) = Session(c)
IsActive(c) == registry.active = c

\* The write goes to whatever generation the runtime has under the session's id.
FinishRead ==
  /\ reading.at = "reading" /\ mutation = NoStart
  /\ reading' =
       [reading EXCEPT !.at = "done",
                       !.wrote = IF /\ IsActive(reading.session)
                                    /\ generation.kind = "active"
                                    /\ generation.owner.session = Session(reading.session)
                                 THEN generation.owner.nonce ELSE 0]
  /\ UNCHANGED readVars

ReturnRead ==
  /\ reading.at = "done"
  /\ reading' = [at |-> "none", session |-> NoStart, wrote |-> 0]
  /\ UNCHANGED readVars

-----------------------------------------------------------------------------
StartSteps(c) ==
  \/ ReservePending(c) \/ LoadWorkspace(c) \/ TakePrevious(c) \/ StopPrevious(c)
  \/ ReserveGeneration(c) \/ ReserveRefused(c) \/ PrepareGeneration(c) \/ SpawnListener(c)
  \/ ActivatePending(c) \/ ReturnStart(c) \/ DropPlace(c) \/ DropHeld(c)

StopSteps == StopStops \/ StopEnds
LogoutSteps == LogoutFails \/ ClearForLogout \/ LogoutStops \/ LogoutEnds
ReadSteps == FinishRead \/ ReturnRead

Next ==
  \/ \E c \in Starts :
       \/ \E s \in Sessions : EnterStart(c, s)
       \/ StartSteps(c)
       \/ AbortStart(c)
       \/ ListenerEnds(c)
  \/ StopTakes
  \/ StopSteps
  \/ RequestLogout
  \/ LogoutSteps
  \/ SignIn
  \/ BeginRead
  \/ ReadSteps

Spec == Init /\ [][Next]_vars

-----------------------------------------------------------------------------
(***************************************************************************)
(* Properties.                                                             *)
(***************************************************************************)

\* Every variable keeps its type, and a start has the nonce it was given.
TypeOK ==
  /\ SlotTypeOK
  /\ registry \in [pending : MaybeStart, active : MaybeStart]
  /\ mutation \in MaybeStart \cup {Stopper}
  /\ start \in [Starts -> [pc : StartPcs, session : Sessions \cup {NoSession},
                           gen : 0..MaxNonce, owns : BOOLEAN, prev : MaybeStart]]
  /\ listener \in [Starts -> {"none", "running", "cancelled", "done"}]
  /\ stopping \in [at : {"none", "taken", "waiting"}, session : MaybeStart]
  /\ logout \in [at : {"none", "waiting", "cleared", "draining"}, session : MaybeStart]
  /\ logouts \in 0..MaxLogouts
  /\ signedIn \in BOOLEAN
  /\ reading \in [at : {"none", "reading", "done"}, session : MaybeStart, wrote : 0..MaxNonce]

\* Who will stop the session c: the registry it is active in, the guard of its own
\* start or of the start that replaces it, or the command that took it out.
AnsweredFor(c) ==
  \/ registry.active = c
  \/ start[c].owns \/ start[c].pc = "reserved"
  \/ \E d \in Starts : start[d].prev = c
  \/ stopping.session = c
  \/ logout.session = c

\* No generation and no listener is left running with nobody to stop it, wherever a
\* start fails or is dropped (DocumentStartCleanup).
NothingIsAbandoned ==
  /\ generation.kind # "none" =>
       \E c \in Starts : start[c].gen = generation.owner.nonce /\ AnsweredFor(c)
  /\ \A c \in Starts : listener[c] = "running" => AnsweredFor(c)

Idle == Leased = {} /\ stopping.at = "none" /\ logout.at = "none"

\* When no command is under way, the registry and the runtime agree: the active
\* session is the one that holds the slot and its listener runs, or there is neither;
\* and no pending place is left that would refuse every later start.
RegistryMatchesRuntime ==
  Idle =>
    /\ registry.pending = NoStart
    /\ (registry.active = NoStart) <=> (generation.kind = "none")
    /\ registry.active # NoStart =>
         /\ generation.kind = "active" /\ generation.owner.nonce = Gen(registry.active)
         /\ listener[registry.active] = "running"

\* After a logout and until the next sign-in no session runs, nor can one come up
\* from a start that was under way (logout_github_inner, docs/product/use-cases.md:32).
LogoutEndsSessions ==
  ~signedIn /\ logout.at = "none" =>
    /\ registry = [pending |-> NoStart, active |-> NoStart]
    /\ generation.kind # "none" => Gen(stopping.session) = generation.owner.nonce

\* A command writes only into the generation of the very session it registered in,
\* not into a later one that carries the same id (ensure_active_context).
WritesStayInSession ==
  reading.wrote # 0 => reading.wrote = Gen(reading.session)

\* The steps of commands and listeners that are under way: none of them can be taken
\* for ever, as a start goes through its places once.
Progress ==
  \/ \E c \in Starts : StartSteps(c) \/ ListenerEnds(c)
  \/ StopSteps
  \/ LogoutSteps
  \/ ReadSteps

\* Start, stop, logout and read, which wait for the mutation lock, the gate and the
\* listeners of each other, never wait in a circle: one of them can always go on, and
\* so each of them ends (lock_mutation, AuthenticatedCommandGate, listener.wait).
CommandsGoOn == ~(Idle /\ reading.at = "none") => ENABLED Progress
=============================================================================
