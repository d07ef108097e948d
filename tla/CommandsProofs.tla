---------------------------- MODULE CommandsProofs ----------------------------
(***************************************************************************)
(* The safety properties of DocumentSessions and that its sessions use the *)
(* generation slot as GenerationSlot allows, for every number of starts,   *)
(* session ids, nonces and logouts; then the promises of Authentication    *)
(* where its commands run beside those of the sessions: a behaviour of     *)
(* MCCommands is one of Authentication, because the other component's      *)
(* steps leave its variables alone.                                        *)
(***************************************************************************)
EXTENDS MCCommands, TLAPS

-----------------------------------------------------------------------------
(***************************************************************************)
(* The inductive invariant.                                                *)
(***************************************************************************)

\* Before a start has a generation, from TakePrevious to ActivatePending, after it was active
\* or gave up.
Early == {"none", "leased", "loading", "loaded", "replacing", "replaced"}
Replacing == {"replacing", "replaced", "reserved", "prepared", "listening"}
Past == {"activated", "dropping", "releasing", "over"}

Runs(c, kind) == generation.kind = kind /\ generation.owner.nonce = start[c].gen

\* What the place of a start says of the start itself.
StartsOK ==
  \A c \in Starts :
    /\ start[c].pc # "none" => start[c].session \in Sessions
    /\ start[c].pc \in Early => start[c].gen = 0
    /\ start[c].pc \in {"reserved", "prepared", "listening", "activated"} => start[c].gen # 0
    /\ start[c].owns => start[c].pc \in {"prepared", "listening", "dropping", "releasing"}
    /\ start[c].prev # NoStart => start[c].pc \in {"replacing", "dropping", "releasing"}
    /\ listener[c] # "none" => start[c].pc \in Past \cup {"listening"}

\* A nonce belongs to one start.
NoncesOK ==
  /\ \A c \in Starts : start[c].gen < nextNonce
  /\ \A c, d \in Starts : start[c].gen = start[d].gen /\ start[c].gen # 0 => c = d

\* From the removal of the previous session to its own activation a start holds the pending
\* place, and no session is active.
PlacesOK ==
  /\ \A c \in Starts :
       start[c].pc \in Replacing => registry.pending = c /\ registry.active = NoStart
  /\ registry.pending # NoStart =>
       start[registry.pending].pc \in {"loading", "loaded", "dropping"} \cup Replacing

\* A session that was active is not coming up.
WasActive(c) ==
  \/ registry.active = c
  \/ \E d \in Starts : start[d].prev = c
  \/ stopping.session = c \/ logout.session = c \/ reading.session = c
PastOK == \A c \in Starts : WasActive(c) => start[c].pc \in Past

\* The generation and the listener are those of the start that comes up, or of the active
\* session, which nobody else answers for.
ComingOK ==
  \A c \in Starts :
    /\ start[c].pc = "reserved" => Runs(c, "starting")
    /\ start[c].pc \in {"prepared", "listening"} => Runs(c, "active") /\ start[c].owns
    /\ start[c].pc = "listening" => listener[c] = "running"
ActiveOK ==
  \A c \in Starts : registry.active = c =>
    /\ Runs(c, "active") /\ listener[c] = "running"
    /\ start[c].pc # "releasing" /\ ~start[c].owns
    /\ \A d \in Starts : start[d].prev # c
    /\ stopping.session # c /\ logout.session # c

\* Who holds the mutation lock, and what a stop and a logout have done at each of their places.
Stopped(c) == generation.kind # "none" => generation.owner.nonce # Gen(c)
LocksOK ==
  /\ \A c \in Starts : start[c].pc = "replacing" => mutation = c
  /\ stopping.at # "none" => mutation = Stopper
  /\ stopping.at = "none" => stopping.session = NoStart
  /\ stopping.at = "waiting" => Stopped(stopping.session)
  /\ logout.at \in {"none", "waiting"} => logout.session = NoStart
  /\ logout.at = "draining" => Stopped(logout.session)
  /\ ~signedIn => /\ registry.pending = NoStart /\ registry.active = NoStart
                  /\ \A c \in Starts : start[c].pc \in {"none", "over"}
  /\ reading.at = "reading" => reading.session # NoStart

SessionsInv ==
  /\ TypeOK /\ StartsOK /\ NoncesOK /\ PlacesOK /\ PastOK /\ ComingOK /\ ActiveOK /\ LocksOK
  /\ NothingIsAbandoned /\ WritesStayInSession

-----------------------------------------------------------------------------
(***************************************************************************)
(* What the type invariant says of single values, and what a step does to  *)
(* the starts and to the slot.                                             *)
(***************************************************************************)
StartRecords ==
  [pc : StartPcs, session : Sessions \cup {NoSession}, gen : 0..MaxNonce, owns : BOOLEAN,
   prev : MaybeStart]

LEMMA TypeFacts ==
  ASSUME TypeOK
  PROVE  /\ registry.pending \in MaybeStart /\ registry.active \in MaybeStart
         /\ stopping.session \in MaybeStart /\ logout.session \in MaybeStart
         /\ reading.session \in MaybeStart
         /\ \A c \in Starts : /\ start[c].gen \in Nat /\ start[c].prev \in MaybeStart
                              /\ start[c].pc \in StartPcs
         /\ nextNonce \in Nat /\ generation.owner.nonce \in Nat
         /\ generation.kind # "none" => generation.owner.nonce # 0
         /\ NoStart \notin Starts /\ Stopper \notin Starts \cup {NoStart}
         /\ start \in [Starts -> StartRecords]
BY SessionsAssumption, SlotAssumption
   DEF TypeOK, SlotTypeOK, Owners, Nonces, NoOwner, StartRecords

\* The record of the start c after a step that touches no other.
Becomes(c, pc, s, gen, owns, prev) ==
  /\ \A d \in Starts \ {c} : start'[d] = start[d]
  /\ start'[c].pc = pc /\ start'[c].session = s /\ start'[c].gen = gen
  /\ start'[c].owns = owns /\ start'[c].prev = prev

\* stop_generation leaves no generation of cs in the slot and no other one out of it.
Stops(cs) ==
  /\ nextNonce' = nextNonce
  /\ generation'.kind # "none" =>
       generation' = generation /\ \A c \in cs \ {NoStart} : generation.owner.nonce # Gen(c)
  /\ \/ generation' = generation
     \/ /\ generation'.kind = "none" /\ generation.kind # "none"
        /\ \E c \in cs \ {NoStart} : generation.owner.nonce = Gen(c)

LEMMA StopGenerationsStops ==
  ASSUME TypeOK, NEW cs, StopGenerations(cs)
  PROVE  Stops(cs) /\ SlotTypeOK'
<1>1. CASE /\ generation.owner.nonce \in {Gen(c) : c \in cs \ {NoStart}}
           /\ generation.kind # "none"
  <2>1. generation' = NoGeneration /\ nextNonce' = nextNonce
    BY <1>1 DEF StopGenerations, ReleaseSlot
  <2> QED BY <1>1, <2>1 DEF TypeOK, SlotTypeOK, Stops, NoGeneration, NoOwner, Kinds
<1>2. CASE ~(/\ generation.owner.nonce \in {Gen(c) : c \in cs \ {NoStart}}
             /\ generation.kind # "none")
  <2>1. generation' = generation /\ nextNonce' = nextNonce
    BY <1>2 DEF StopGenerations, slotVars
  <2> QED BY <1>2, <2>1 DEF TypeOK, SlotTypeOK, Stops
<1> QED BY <1>1, <1>2

\* It leaves the generation of a start outside cs in the slot.
LEMMA StopsOthers ==
  ASSUME TypeOK, NoncesOK, NEW cs \in SUBSET MaybeStart, Stops(cs),
         NEW d \in Starts \ cs, generation.kind # "none", generation.owner.nonce = start[d].gen
  PROVE  generation' = generation
BY TypeFacts DEF Stops, NoncesOK, Gen, MaybeStart

-----------------------------------------------------------------------------
(***************************************************************************)
(* Every step preserves the invariant.                                     *)
(***************************************************************************)

LEMMA EnterStartInv ==
  ASSUME SessionsInv, NEW c \in Starts, NEW s \in Sessions, EnterStart(c, s)
  PROVE  SessionsInv'
<1>1. /\ TypeOK /\ StartsOK /\ NoncesOK /\ PlacesOK /\ PastOK /\ ComingOK /\ ActiveOK
      /\ LocksOK /\ NothingIsAbandoned /\ WritesStayInSession
  BY DEF SessionsInv
<1>2. start[c].pc = "none" /\ signedIn
  BY DEF EnterStart, MayEnter
<1>3. UNCHANGED <<generation, nextNonce, registry, mutation, listener, stopping, logout,
      logouts, signedIn, reading>>
  BY DEF EnterStart, slotVars, otherVars, authVars
<1>4. Becomes(c, "leased", s, start[c].gen, start[c].owns,
          start[c].prev)
  BY <1>1, TypeFacts DEF EnterStart, Becomes, StartRecords
<1>5. start' \in [Starts -> StartRecords]
  BY ZenonT(60), <1>1, TypeFacts DEF EnterStart, StartRecords, StartPcs, MaybeStart
<1>6. TypeOK'
  BY <1>1, <1>3, <1>5 DEF TypeOK, SlotTypeOK, StartRecords
<1>7. (StartsOK /\ NoncesOK)'
  BY <1>1, <1>2, <1>3, <1>4, <1>5, TypeFacts DEF Becomes, StartsOK, Early, Past, NoncesOK
<1>8. (PlacesOK /\ PastOK)'
  BY <1>1, <1>2, <1>3, <1>4, <1>5, TypeFacts
  DEF Becomes, PlacesOK, Replacing, MaybeStart, PastOK, WasActive, Past
<1>9. (ComingOK /\ ActiveOK)'
  BY <1>1, <1>2, <1>3, <1>4, <1>5, TypeFacts DEF Becomes, ComingOK, Runs, ActiveOK
<1>10. (LocksOK /\ WritesStayInSession)'
  BY <1>1, <1>2, <1>3, <1>4, <1>5, TypeFacts
  DEF Becomes, LocksOK, Stopped, Gen, MaybeStart, WritesStayInSession
<1>11. NothingIsAbandoned'
  BY <1>1, <1>2, <1>3, <1>4, <1>5, TypeFacts DEF Becomes, NothingIsAbandoned, AnsweredFor
<1> QED BY <1>6, <1>7, <1>8, <1>9, <1>10, <1>11 DEF SessionsInv

LEMMA ReservePendingInv ==
  ASSUME SessionsInv, NEW c \in Starts, ReservePending(c), MayReserve(c)
  PROVE  SessionsInv'
<1>1. /\ TypeOK /\ StartsOK /\ NoncesOK /\ PlacesOK /\ PastOK /\ ComingOK /\ ActiveOK
      /\ LocksOK /\ NothingIsAbandoned /\ WritesStayInSession
  BY DEF SessionsInv
<1>2. start[c].pc = "leased" /\ registry.pending = NoStart
  BY DEF ReservePending, MayReserve, Step
<1>3. UNCHANGED <<generation, nextNonce, mutation, listener, stopping, logout, logouts,
      signedIn, reading>>
  BY DEF ReservePending, slotVars, otherVars, authVars
<1>4. registry'.pending = c /\ registry'.active = registry.active
  BY <1>1 DEF ReservePending, TypeOK
<1>5. Becomes(c, "loading", start[c].session, start[c].gen, start[c].owns,
          start[c].prev)
  BY <1>1, TypeFacts DEF ReservePending, Step, Becomes, StartRecords
<1>6. start' \in [Starts -> StartRecords]
  BY <1>1, TypeFacts DEF ReservePending, Step, StartRecords, StartPcs, MaybeStart
<1>7. TypeOK'
  BY <1>1, <1>3, <1>6 DEF TypeOK, SlotTypeOK, StartRecords, MaybeStart, ReservePending
<1>8. (StartsOK /\ NoncesOK)'
  BY <1>1, <1>2, <1>3, <1>4, <1>5, <1>6, TypeFacts DEF Becomes, StartsOK, Early, Past, NoncesOK
<1>9. (PlacesOK /\ PastOK)'
  BY <1>1, <1>2, <1>3, <1>4, <1>5, <1>6, TypeFacts
  DEF Becomes, PlacesOK, Replacing, MaybeStart, PastOK, WasActive, Past
<1>10. (ComingOK /\ ActiveOK)'
  BY <1>1, <1>2, <1>3, <1>4, <1>5, <1>6, TypeFacts DEF Becomes, ComingOK, Runs, ActiveOK
<1>11. (LocksOK /\ WritesStayInSession)'
  BY <1>1, <1>2, <1>3, <1>4, <1>5, <1>6, TypeFacts
  DEF Becomes, LocksOK, Stopped, Gen, MaybeStart, WritesStayInSession
<1>12. NothingIsAbandoned'
  BY <1>1, <1>2, <1>3, <1>4, <1>5, <1>6, TypeFacts DEF Becomes, NothingIsAbandoned, AnsweredFor
<1> QED BY <1>7, <1>8, <1>9, <1>10, <1>11, <1>12 DEF SessionsInv
\* The steps that move a start on, or end it, and do nothing else.
LEMMA MovingInv ==
  ASSUME SessionsInv, NEW c \in Starts, NEW from \in StartPcs, NEW to \in StartPcs,
         Step(c, from, to),
         <<from, to>> \in {<<"leased", "over">>, <<"loading", "loaded">>, <<"loading", "dropping">>,
                          <<"loaded", "dropping">>, <<"replaced", "dropping">>,
                          <<"listening", "dropping">>, <<"activated", "over">>},
         UNCHANGED <<slotVars, registry, mutation, listener, otherVars>>
  PROVE  SessionsInv'
<1>1. /\ TypeOK /\ StartsOK /\ NoncesOK /\ PlacesOK /\ PastOK /\ ComingOK /\ ActiveOK
      /\ LocksOK /\ NothingIsAbandoned /\ WritesStayInSession
  BY DEF SessionsInv
<1>2. start[c].pc = from
  BY DEF Step
<1>3. UNCHANGED <<generation, nextNonce, registry, mutation, listener, stopping, logout,
      logouts, signedIn, reading>>
  BY DEF slotVars, otherVars, authVars
<1>4. Becomes(c, to, start[c].session, start[c].gen, start[c].owns,
          start[c].prev)
  BY <1>1, TypeFacts DEF Step, Becomes, StartRecords
<1>5. start' \in [Starts -> StartRecords]
  BY <1>1, TypeFacts DEF Step, StartRecords, StartPcs, MaybeStart
<1>6. TypeOK'
  BY <1>1, <1>3, <1>5 DEF TypeOK, SlotTypeOK, StartRecords
<1>7. (StartsOK /\ NoncesOK)'
  BY <1>1, <1>2, <1>3, <1>4, <1>5, TypeFacts DEF Becomes, StartsOK, Early, Past, NoncesOK
<1>8. (PlacesOK /\ PastOK)'
  BY <1>1, <1>2, <1>3, <1>4, <1>5, TypeFacts
  DEF Becomes, PlacesOK, Replacing, MaybeStart, PastOK, WasActive, Past
<1>9. (ComingOK /\ ActiveOK)'
  BY <1>1, <1>2, <1>3, <1>4, <1>5, TypeFacts DEF Becomes, ComingOK, Runs, ActiveOK
<1>10. (LocksOK /\ WritesStayInSession)'
  BY <1>1, <1>2, <1>3, <1>4, <1>5, TypeFacts
  DEF Becomes, LocksOK, Stopped, Gen, MaybeStart, WritesStayInSession
<1>11. NothingIsAbandoned'
  BY <1>1, <1>2, <1>3, <1>4, <1>5, TypeFacts DEF Becomes, NothingIsAbandoned, AnsweredFor
<1> QED BY <1>6, <1>7, <1>8, <1>9, <1>10, <1>11 DEF SessionsInv

LEMMA TakePreviousInv ==
  ASSUME SessionsInv, NEW c \in Starts, TakePrevious(c), registry.pending = c
  PROVE  SessionsInv'
<1>1. /\ TypeOK /\ StartsOK /\ NoncesOK /\ PlacesOK /\ PastOK /\ ComingOK /\ ActiveOK
      /\ LocksOK /\ NothingIsAbandoned /\ WritesStayInSession
  BY DEF SessionsInv
<1>2. start[c].pc = "loaded" /\ mutation = NoStart
  BY DEF TakePrevious
<1>3. UNCHANGED <<generation, nextNonce, stopping, logout, logouts, signedIn, reading>>
  BY DEF TakePrevious, slotVars, otherVars, authVars
<1>4. registry'.pending = c /\ registry'.active = NoStart /\ mutation' = c
  BY <1>1 DEF TakePrevious, TypeOK
<1>5. /\ start' = [start EXCEPT ![c] = [@ EXCEPT !.pc = "replacing", !.prev = registry.active]]
      /\ listener' = Cancelled({registry.active})
  BY DEF TakePrevious
<1>6. Becomes(c, "replacing", start[c].session, start[c].gen, start[c].owns,
          registry.active)
  BY <1>1, <1>5, TypeFacts DEF Becomes, StartRecords
<1>7. start' \in [Starts -> StartRecords]
  <2>1. start[c] \in StartRecords
    BY <1>1, TypeFacts
  <2>2. [start[c] EXCEPT !.pc = "replacing", !.prev = registry.active] \in StartRecords
    BY <1>1, <2>1, TypeFacts DEF StartRecords, StartPcs, MaybeStart
  <2> QED BY <1>1, <2>2, TypeFacts, <1>5
<1>8. TypeOK'
  BY <1>1, <1>3, <1>4, <1>5, <1>7
  DEF TypeOK, SlotTypeOK, StartRecords, MaybeStart, TakePrevious, Cancelled
<1>9. (StartsOK /\ NoncesOK)'
  BY <1>1, <1>2, <1>3, <1>4, <1>5, <1>6, <1>7, TypeFacts
  DEF Becomes, StartsOK, Early, Past, NoncesOK, Cancelled
<1>10. (PlacesOK /\ PastOK)'
  BY <1>1, <1>2, <1>3, <1>4, <1>5, <1>6, <1>7, TypeFacts
  DEF Becomes, PlacesOK, Replacing, MaybeStart, PastOK, WasActive, Past
<1>11. (ComingOK /\ ActiveOK)'
  BY <1>1, <1>2, <1>3, <1>4, <1>5, <1>6, <1>7, TypeFacts
  DEF Becomes, ComingOK, Runs, ActiveOK, Cancelled, PlacesOK, Replacing
<1>12. (LocksOK /\ WritesStayInSession)'
  BY <1>1, <1>2, <1>3, <1>4, <1>5, <1>6, <1>7, TypeFacts
  DEF Becomes, LocksOK, Stopped, Gen, MaybeStart, WritesStayInSession, PlacesOK, Replacing
<1>13. NothingIsAbandoned'
  BY <1>1, <1>2, <1>3, <1>4, <1>5, <1>6, <1>7, TypeFacts
  DEF Becomes, NothingIsAbandoned, AnsweredFor, Cancelled, StartsOK
<1> QED BY <1>8, <1>9, <1>10, <1>11, <1>12, <1>13 DEF SessionsInv

LEMMA StopPreviousInv ==
  ASSUME SessionsInv, NEW c \in Starts, StopPrevious(c)
  PROVE  SessionsInv'
<1>1. /\ TypeOK /\ StartsOK /\ NoncesOK /\ PlacesOK /\ PastOK /\ ComingOK /\ ActiveOK
      /\ LocksOK /\ NothingIsAbandoned /\ WritesStayInSession
  BY DEF SessionsInv
<1>2. start[c].pc = "replacing" /\ Ended(start[c].prev)
  BY DEF StopPrevious
<1>3. UNCHANGED <<registry, listener, stopping, logout, logouts, signedIn, reading>>
  BY DEF StopPrevious, otherVars, authVars
<1>4. mutation' = NoStart
  BY DEF StopPrevious
<1>5. Stops({start[c].prev}) /\ SlotTypeOK'
  BY <1>1, StopGenerationsStops DEF StopPrevious
<1>6. Becomes(c, "replaced", start[c].session, start[c].gen, start[c].owns,
          NoStart)
  BY <1>1, TypeFacts DEF StopPrevious, Becomes, StartRecords
<1>7. start' \in [Starts -> StartRecords]
  BY ZenonT(60), <1>1, TypeFacts DEF StopPrevious, StartRecords, StartPcs, MaybeStart
<1>8. TypeOK'
  BY <1>1, <1>3, <1>4, <1>5, <1>7 DEF TypeOK, StartRecords, MaybeStart
<1>9. (StartsOK /\ NoncesOK)'
  BY <1>1, <1>2, <1>3, <1>4, <1>5, <1>6, <1>7, TypeFacts
  DEF Becomes, StartsOK, Early, Past, NoncesOK, Stops
<1>10. (PlacesOK /\ PastOK)'
  BY <1>1, <1>2, <1>3, <1>4, <1>5, <1>6, <1>7, TypeFacts
  DEF Becomes, PlacesOK, Replacing, MaybeStart, PastOK, WasActive, Past
<1>11. (ComingOK /\ ActiveOK)'
  BY <1>1, <1>2, <1>3, <1>4, <1>5, <1>6, <1>7, TypeFacts
  DEF Becomes, ComingOK, Runs, ActiveOK, Stops, Gen, PlacesOK, Replacing
<1>12. (LocksOK /\ WritesStayInSession)'
  BY <1>1, <1>2, <1>3, <1>4, <1>5, <1>6, <1>7, TypeFacts
  DEF Becomes, LocksOK, Stopped, Gen, MaybeStart, WritesStayInSession, Stops
<1>13. NothingIsAbandoned'
  BY <1>1, <1>2, <1>3, <1>4, <1>5, <1>6, <1>7, TypeFacts
  DEF Becomes, NothingIsAbandoned, AnsweredFor, Stops, Gen, Ended
<1> QED BY <1>8, <1>9, <1>10, <1>11, <1>12, <1>13 DEF SessionsInv

LEMMA ReserveGenerationInv ==
  ASSUME SessionsInv, NEW c \in Starts, ReserveGeneration(c)
  PROVE  SessionsInv'
<1>1. /\ TypeOK /\ StartsOK /\ NoncesOK /\ PlacesOK /\ PastOK /\ ComingOK /\ ActiveOK
      /\ LocksOK /\ NothingIsAbandoned /\ WritesStayInSession
  BY DEF SessionsInv
<1>2. start[c].pc = "replaced" /\ nextNonce \in Nonces
  BY DEF ReserveGeneration, ReserveSlot
<1>3. UNCHANGED <<registry, mutation, listener, stopping, logout, logouts, signedIn,
      reading>>
  BY DEF ReserveGeneration, otherVars, authVars
<1>4. /\ generation'.kind = "starting" /\ generation'.owner.nonce = nextNonce
      /\ nextNonce' = nextNonce + 1
  BY DEF ReserveGeneration, ReserveSlot
<1>5. SlotTypeOK'
  BY <1>1, <1>2, SlotAssumption
  DEF TypeOK, SlotTypeOK, StartsOK, ReserveGeneration, ReserveSlot, Kinds, Owners, Nonces, NoOwner
<1>6. nextNonce \in 0..MaxNonce /\ nextNonce # 0
  BY <1>2, SlotAssumption DEF Nonces
<1>7. Becomes(c, "reserved", start[c].session, nextNonce, start[c].owns,
          start[c].prev)
  BY <1>1, <1>6, TypeFacts DEF ReserveGeneration, Becomes, StartRecords
<1>8. start' \in [Starts -> StartRecords]
  BY ZenonT(60), <1>1, <1>6, TypeFacts DEF ReserveGeneration, StartRecords, StartPcs, MaybeStart
<1>9. TypeOK'
  BY <1>1, <1>3, <1>5, <1>8 DEF TypeOK, StartRecords
<1>10. (StartsOK /\ NoncesOK)'
  BY <1>1, <1>2, <1>3, <1>4, <1>5, <1>6, <1>7, <1>8, TypeFacts
  DEF Becomes, StartsOK, Early, Past, NoncesOK
<1>11. (PlacesOK /\ PastOK)'
  BY <1>1, <1>2, <1>3, <1>4, <1>5, <1>6, <1>7, <1>8, TypeFacts
  DEF Becomes, PlacesOK, Replacing, MaybeStart, PastOK, WasActive, Past
<1>12. (ComingOK /\ ActiveOK)'
  BY <1>1, <1>2, <1>3, <1>4, <1>5, <1>6, <1>7, <1>8, TypeFacts
  DEF Becomes, ComingOK, Runs, ActiveOK, PlacesOK, Replacing, NoncesOK
<1>13. (LocksOK /\ WritesStayInSession)'
  BY <1>1, <1>2, <1>3, <1>4, <1>5, <1>6, <1>7, <1>8, TypeFacts
  DEF Becomes, LocksOK, Stopped, Gen, MaybeStart, WritesStayInSession, NoncesOK, PastOK,
      WasActive, Past
<1>14. NothingIsAbandoned'
  BY <1>1, <1>2, <1>3, <1>4, <1>5, <1>6, <1>7, <1>8, TypeFacts
  DEF Becomes, NothingIsAbandoned, AnsweredFor, NoncesOK
<1> QED BY <1>9, <1>10, <1>11, <1>12, <1>13, <1>14 DEF SessionsInv

LEMMA PrepareGenerationInv ==
  ASSUME SessionsInv, NEW c \in Starts, PrepareGeneration(c)
  PROVE  SessionsInv'
<1>1. /\ TypeOK /\ StartsOK /\ NoncesOK /\ PlacesOK /\ PastOK /\ ComingOK /\ ActiveOK
      /\ LocksOK /\ NothingIsAbandoned /\ WritesStayInSession
  BY DEF SessionsInv
<1>2. start[c].pc = "reserved" /\ Runs(c, "starting")
  BY DEF PrepareGeneration, ActivateSlot, Runs
<1>3. UNCHANGED <<registry, mutation, listener, stopping, logout, logouts, signedIn,
      reading>>
  BY DEF PrepareGeneration, otherVars, authVars
<1>4. /\ generation'.kind = "active" /\ generation'.owner = generation.owner
      /\ nextNonce' = nextNonce
  BY <1>1 DEF PrepareGeneration, ActivateSlot, TypeOK, SlotTypeOK
<1>5. SlotTypeOK'
  BY <1>1, <1>2, <1>4
  DEF TypeOK, SlotTypeOK, PrepareGeneration, ActivateSlot, Kinds, Runs
<1>6. Becomes(c, "prepared", start[c].session, start[c].gen, TRUE,
          start[c].prev)
  BY <1>1, TypeFacts DEF PrepareGeneration, Becomes, StartRecords
<1>7. start' \in [Starts -> StartRecords]
  BY ZenonT(60), <1>1, TypeFacts DEF PrepareGeneration, StartRecords, StartPcs, MaybeStart
<1>8. TypeOK'
  BY <1>1, <1>3, <1>5, <1>7 DEF TypeOK, StartRecords
<1>9. (StartsOK /\ NoncesOK)'
  BY <1>1, <1>2, <1>3, <1>4, <1>5, <1>6, <1>7, TypeFacts
  DEF Becomes, StartsOK, Early, Past, NoncesOK
<1>10. (PlacesOK /\ PastOK)'
  BY <1>1, <1>2, <1>3, <1>4, <1>5, <1>6, <1>7, TypeFacts
  DEF Becomes, PlacesOK, Replacing, MaybeStart, PastOK, WasActive, Past
<1>11. (ComingOK /\ ActiveOK)'
  BY <1>1, <1>2, <1>3, <1>4, <1>5, <1>6, <1>7, TypeFacts
  DEF Becomes, ComingOK, Runs, ActiveOK, PlacesOK, Replacing
<1>12. (LocksOK /\ WritesStayInSession)'
  BY <1>1, <1>2, <1>3, <1>4, <1>5, <1>6, <1>7, TypeFacts
  DEF Becomes, LocksOK, Stopped, Gen, MaybeStart, WritesStayInSession, Runs, NoncesOK, StartsOK,
      PastOK, WasActive, Past
<1>13. NothingIsAbandoned'
  BY <1>1, <1>2, <1>3, <1>4, <1>5, <1>6, <1>7, TypeFacts
  DEF Becomes, NothingIsAbandoned, AnsweredFor, Runs
<1> QED BY <1>8, <1>9, <1>10, <1>11, <1>12, <1>13 DEF SessionsInv

LEMMA SpawnListenerInv ==
  ASSUME SessionsInv, NEW c \in Starts, SpawnListener(c)
  PROVE  SessionsInv'
<1>1. /\ TypeOK /\ StartsOK /\ NoncesOK /\ PlacesOK /\ PastOK /\ ComingOK /\ ActiveOK
      /\ LocksOK /\ NothingIsAbandoned /\ WritesStayInSession
  BY DEF SessionsInv
<1>2. start[c].pc = "prepared"
  BY DEF SpawnListener, Step
<1>3. UNCHANGED <<generation, nextNonce, registry, mutation, stopping, logout, logouts,
      signedIn, reading>>
  BY DEF SpawnListener, slotVars, otherVars, authVars
<1>4. /\ \A d \in Starts : listener'[d] = IF d = c THEN "running" ELSE listener[d]
      /\ listener' \in [Starts -> {"none", "running", "cancelled", "done"}]
  BY <1>1 DEF SpawnListener, TypeOK
<1>5. Becomes(c, "listening", start[c].session, start[c].gen, start[c].owns,
          start[c].prev)
  BY <1>1, TypeFacts DEF SpawnListener, Step, Becomes, StartRecords
<1>6. start' \in [Starts -> StartRecords]
  BY <1>1, TypeFacts DEF SpawnListener, Step, StartRecords, StartPcs, MaybeStart
<1>7. TypeOK'
  BY <1>1, <1>3, <1>4, <1>6 DEF TypeOK, SlotTypeOK, StartRecords
<1>8. (StartsOK /\ NoncesOK)'
  BY <1>1, <1>2, <1>3, <1>4, <1>5, <1>6, TypeFacts DEF Becomes, StartsOK, Early, Past, NoncesOK
<1>9. (PlacesOK /\ PastOK)'
  BY <1>1, <1>2, <1>3, <1>4, <1>5, <1>6, TypeFacts
  DEF Becomes, PlacesOK, Replacing, MaybeStart, PastOK, WasActive, Past
<1>10. (ComingOK /\ ActiveOK)'
  BY <1>1, <1>2, <1>3, <1>4, <1>5, <1>6, TypeFacts DEF Becomes, ComingOK, Runs, ActiveOK
<1>11. (LocksOK /\ WritesStayInSession)'
  BY <1>1, <1>2, <1>3, <1>4, <1>5, <1>6, TypeFacts
  DEF Becomes, LocksOK, Stopped, Gen, MaybeStart, WritesStayInSession
<1>12. NothingIsAbandoned'
  BY <1>1, <1>2, <1>3, <1>4, <1>5, <1>6, TypeFacts
  DEF Becomes, NothingIsAbandoned, AnsweredFor, ComingOK
<1> QED BY <1>7, <1>8, <1>9, <1>10, <1>11, <1>12 DEF SessionsInv

LEMMA ActivatePendingInv ==
  ASSUME SessionsInv, NEW c \in Starts, ActivatePending(c),
         registry.active = NoStart, registry.pending = c
  PROVE  SessionsInv'
<1>1. /\ TypeOK /\ StartsOK /\ NoncesOK /\ PlacesOK /\ PastOK /\ ComingOK /\ ActiveOK
      /\ LocksOK /\ NothingIsAbandoned /\ WritesStayInSession
  BY DEF SessionsInv
<1>2. start[c].pc = "listening"
  BY DEF ActivatePending
<1>3. UNCHANGED <<generation, nextNonce, mutation, listener, stopping, logout, logouts,
      signedIn, reading>>
  BY DEF ActivatePending, slotVars, otherVars, authVars
<1>4. registry' = [pending |-> NoStart, active |-> c]
  BY DEF ActivatePending
<1>5. start' = [start EXCEPT ![c] = [@ EXCEPT !.pc = "activated", !.owns = FALSE]]
  BY DEF ActivatePending
<1>6. Becomes(c, "activated", start[c].session, start[c].gen, FALSE, start[c].prev)
  BY <1>5, TypeFacts, <1>1 DEF Becomes, StartRecords
<1>7. start' \in [Starts -> StartRecords]
  <2>1. start[c] \in StartRecords
    BY <1>1, TypeFacts
  <2>2. [start[c] EXCEPT !.pc = "activated", !.owns = FALSE] \in StartRecords
    BY <1>1, <2>1, TypeFacts DEF StartRecords, StartPcs, MaybeStart
  <2> QED BY <1>1, <2>2, TypeFacts, <1>5
<1>8. TypeOK'
  BY <1>1, <1>3, <1>4, <1>7 DEF TypeOK, SlotTypeOK, StartRecords, MaybeStart
<1>9. (StartsOK /\ NoncesOK)'
  BY <1>1, <1>2, <1>3, <1>4, <1>5, <1>6, <1>7, TypeFacts
  DEF Becomes, StartsOK, Early, Past, NoncesOK
<1>10. (PlacesOK /\ PastOK)'
  BY <1>1, <1>2, <1>3, <1>4, <1>5, <1>6, <1>7, TypeFacts
  DEF Becomes, PlacesOK, Replacing, MaybeStart, PastOK, WasActive, Past
<1>11. (ComingOK /\ ActiveOK)'
  BY <1>1, <1>2, <1>3, <1>4, <1>5, <1>6, <1>7, TypeFacts
  DEF Becomes, ComingOK, Runs, ActiveOK, PastOK, WasActive, Past
<1>12. (LocksOK /\ WritesStayInSession)'
  BY <1>1, <1>2, <1>3, <1>4, <1>5, <1>6, <1>7, TypeFacts
  DEF Becomes, LocksOK, Stopped, Gen, MaybeStart, WritesStayInSession
<1>13. NothingIsAbandoned'
  BY <1>1, <1>2, <1>3, <1>4, <1>5, <1>6, <1>7, TypeFacts
  DEF Becomes, NothingIsAbandoned, AnsweredFor
<1> QED BY <1>8, <1>9, <1>10, <1>11, <1>12, <1>13 DEF SessionsInv

LEMMA AbortStartInv ==
  ASSUME SessionsInv, NEW c \in Starts, AbortStart(c)
  PROVE  SessionsInv'
<1>1. /\ TypeOK /\ StartsOK /\ NoncesOK /\ PlacesOK /\ PastOK /\ ComingOK /\ ActiveOK
      /\ LocksOK /\ NothingIsAbandoned /\ WritesStayInSession
  BY DEF SessionsInv
<1>2. start[c].pc \in {"loading", "loaded", "replacing", "replaced", "reserved", "listening",
                     "activated"}
  BY DEF AbortStart
<1>3. UNCHANGED <<registry, listener, stopping, logout, logouts, signedIn, reading>>
  BY DEF AbortStart, otherVars, authVars
<1>4. mutation' = IF mutation = c THEN NoStart ELSE mutation
  BY DEF AbortStart
<1>5. /\ SlotTypeOK'
      /\ Stops(IF start[c].pc = "reserved" THEN {c} ELSE {})
  <2>1. CASE start[c].pc = "reserved"
    BY <1>1, <2>1, StopGenerationsStops DEF AbortStart
  <2>2. CASE start[c].pc # "reserved"
    BY <1>1, <2>2 DEF AbortStart, Stops, slotVars, TypeOK, SlotTypeOK
  <2> QED BY <2>1, <2>2
<1>6. Becomes(c, "dropping", start[c].session, start[c].gen, start[c].owns,
          start[c].prev)
  BY <1>1, TypeFacts DEF AbortStart, Becomes, StartRecords
<1>7. start' \in [Starts -> StartRecords]
  BY <1>1, TypeFacts DEF AbortStart, StartRecords, StartPcs, MaybeStart
<1>8. TypeOK'
  BY <1>1, <1>3, <1>4, <1>5, <1>7, SessionsAssumption DEF TypeOK, StartRecords, MaybeStart
<1>9. (StartsOK /\ NoncesOK)'
  BY <1>1, <1>2, <1>3, <1>4, <1>5, <1>6, <1>7, TypeFacts
  DEF Becomes, StartsOK, Early, Past, NoncesOK, Stops
<1>10. (PlacesOK /\ PastOK)'
  BY <1>1, <1>2, <1>3, <1>4, <1>5, <1>6, <1>7, TypeFacts
  DEF Becomes, PlacesOK, Replacing, MaybeStart, PastOK, WasActive, Past
<1>11. (ComingOK /\ ActiveOK)'
  BY <1>1, <1>2, <1>3, <1>4, <1>5, <1>6, <1>7, TypeFacts
  DEF Becomes, ComingOK, Runs, ActiveOK, Stops, Gen, PlacesOK, Replacing
<1>12. (LocksOK /\ WritesStayInSession)'
  BY <1>1, <1>2, <1>3, <1>4, <1>5, <1>6, <1>7, TypeFacts
  DEF Becomes, LocksOK, Stopped, Gen, MaybeStart, WritesStayInSession, Stops
<1>13. NothingIsAbandoned'
  BY <1>1, <1>2, <1>3, <1>4, <1>5, <1>6, <1>7, TypeFacts
  DEF Becomes, NothingIsAbandoned, AnsweredFor, Stops, Gen, StartsOK, Past
<1> QED BY <1>8, <1>9, <1>10, <1>11, <1>12, <1>13 DEF SessionsInv

LEMMA DropPlaceInv ==
  ASSUME SessionsInv, NEW c \in Starts, DropPlace(c)
  PROVE  SessionsInv'
<1>1. /\ TypeOK /\ StartsOK /\ NoncesOK /\ PlacesOK /\ PastOK /\ ComingOK /\ ActiveOK
      /\ LocksOK /\ NothingIsAbandoned /\ WritesStayInSession
  BY DEF SessionsInv
<1>2. start[c].pc = "dropping"
  BY DEF DropPlace
<1>3. UNCHANGED <<generation, nextNonce, mutation, listener, stopping, logout, logouts,
      signedIn, reading>>
  BY DEF DropPlace, slotVars, otherVars, authVars
<1>4. /\ registry'.pending = IF registry.pending = c THEN NoStart ELSE registry.pending
      /\ registry'.active = IF registry.active = c THEN NoStart ELSE registry.active
      /\ registry' \in [pending : MaybeStart, active : MaybeStart]
  BY <1>1 DEF DropPlace, TypeOK, MaybeStart
<1>5. Becomes(c, "releasing", start[c].session, start[c].gen, start[c].owns \/ registry.active = c,
          start[c].prev)
  BY <1>1, TypeFacts DEF DropPlace, Becomes, StartRecords
<1>6. start' \in [Starts -> StartRecords]
  <2>1. start[c] \in StartRecords
    BY <1>1, TypeFacts
  <2>2. [start[c] EXCEPT !.pc = "releasing", !.owns = start[c].owns \/ registry.active = c]
          \in StartRecords
    BY <1>1, <2>1, TypeFacts DEF StartRecords, StartPcs, MaybeStart
  <2> QED BY <1>1, <2>2, TypeFacts DEF DropPlace
<1>7. TypeOK'
  BY <1>1, <1>3, <1>4, <1>6 DEF TypeOK, SlotTypeOK, StartRecords
<1>8. (StartsOK /\ NoncesOK)'
  BY <1>1, <1>2, <1>3, <1>4, <1>5, <1>6, TypeFacts DEF Becomes, StartsOK, Early, Past, NoncesOK
<1>9. (PlacesOK /\ PastOK)'
  BY <1>1, <1>2, <1>3, <1>4, <1>5, <1>6, TypeFacts
  DEF Becomes, PlacesOK, Replacing, MaybeStart, PastOK, WasActive, Past
<1>10. (ComingOK /\ ActiveOK)'
  BY <1>1, <1>2, <1>3, <1>4, <1>5, <1>6, TypeFacts DEF Becomes, ComingOK, Runs, ActiveOK
<1>11. (LocksOK /\ WritesStayInSession)'
  BY <1>1, <1>2, <1>3, <1>4, <1>5, <1>6, TypeFacts
  DEF Becomes, LocksOK, Stopped, Gen, MaybeStart, WritesStayInSession
<1>12. NothingIsAbandoned'
  <2>1. \A d \in Starts : AnsweredFor(d) => AnsweredFor(d)'
    BY <1>1, <1>2, <1>3, <1>4, <1>5, TypeFacts DEF Becomes, AnsweredFor
  <2> QED BY <1>1, <1>3, <1>5, <2>1 DEF NothingIsAbandoned, Becomes
<1> QED BY <1>7, <1>8, <1>9, <1>10, <1>11, <1>12 DEF SessionsInv

LEMMA DropHeldInv ==
  ASSUME SessionsInv, NEW c \in Starts, DropHeld(c)
  PROVE  SessionsInv'
<1>1. /\ TypeOK /\ StartsOK /\ NoncesOK /\ PlacesOK /\ PastOK /\ ComingOK /\ ActiveOK
      /\ LocksOK /\ NothingIsAbandoned /\ WritesStayInSession
  BY DEF SessionsInv
<1>2. start[c].pc = "releasing"
  BY DEF DropHeld
<1>3. UNCHANGED <<registry, mutation, stopping, logout, logouts, signedIn, reading>>
  BY DEF DropHeld, otherVars, authVars
<1>4. listener' = Cancelled(Held(c))
  BY DEF DropHeld
<1>5. Stops(Held(c)) /\ SlotTypeOK'
  BY <1>1, StopGenerationsStops DEF DropHeld
<1>6. Becomes(c, "over", start[c].session, start[c].gen, FALSE,
          NoStart)
  BY <1>1, TypeFacts DEF DropHeld, Becomes, StartRecords
<1>7. start' \in [Starts -> StartRecords]
  <2>1. start[c] \in StartRecords
    BY <1>1, TypeFacts
  <2>2. [start[c] EXCEPT !.pc = "over", !.owns = FALSE, !.prev = NoStart] \in StartRecords
    BY <1>1, <2>1, TypeFacts DEF StartRecords, StartPcs, MaybeStart
  <2> QED BY <1>1, <2>2, TypeFacts DEF DropHeld
<1>8. /\ Held(c) \in SUBSET MaybeStart
      /\ \A d \in Starts : d \in Held(c) => start[d].pc \in Past /\ registry.active # d
  BY <1>1, <1>2, TypeFacts DEF Held, MaybeStart, PastOK, WasActive, Past, ActiveOK
<1>9. \A d \in Starts : start[d].pc \in {"reserved", "prepared", "listening"} \/ registry.active = d
        => generation' = generation /\ listener'[d] = listener[d]
  BY <1>1, <1>4, <1>5, <1>8, StopsOthers DEF ComingOK, ActiveOK, Runs, Past, Cancelled
<1>10. TypeOK'
  BY <1>1, <1>3, <1>4, <1>5, <1>7 DEF TypeOK, StartRecords, MaybeStart, Cancelled
<1>11. (StartsOK /\ NoncesOK)'
  BY <1>1, <1>2, <1>3, <1>4, <1>5, <1>6, <1>7, <1>8, <1>9, TypeFacts
  DEF Becomes, StartsOK, Early, Past, NoncesOK, Cancelled, Stops
<1>12. (PlacesOK /\ PastOK)'
  BY <1>1, <1>2, <1>3, <1>4, <1>5, <1>6, <1>7, <1>8, <1>9, TypeFacts
  DEF Becomes, PlacesOK, Replacing, MaybeStart, PastOK, WasActive, Past
<1>13. (ComingOK /\ ActiveOK)'
  BY <1>1, <1>2, <1>3, <1>4, <1>5, <1>6, <1>7, <1>8, <1>9, TypeFacts
  DEF Becomes, ComingOK, Runs, ActiveOK
<1>14. (LocksOK /\ WritesStayInSession)'
  BY <1>1, <1>2, <1>3, <1>4, <1>5, <1>6, <1>7, <1>8, <1>9, TypeFacts
  DEF Becomes, LocksOK, Stopped, Gen, MaybeStart, WritesStayInSession, Stops, PlacesOK,
      Replacing
<1>15. NothingIsAbandoned'
  BY <1>1, <1>2, <1>3, <1>4, <1>5, <1>6, <1>7, <1>8, <1>9, TypeFacts
  DEF Becomes, NothingIsAbandoned, AnsweredFor, Stops, Gen, Held, Cancelled
<1> QED BY <1>10, <1>11, <1>12, <1>13, <1>14, <1>15 DEF SessionsInv

LEMMA ListenerEndsInv ==
  ASSUME SessionsInv, NEW c \in Starts, ListenerEnds(c)
  PROVE  SessionsInv'
<1>1. /\ TypeOK /\ StartsOK /\ NoncesOK /\ PlacesOK /\ PastOK /\ ComingOK /\ ActiveOK
      /\ LocksOK /\ NothingIsAbandoned /\ WritesStayInSession
  BY DEF SessionsInv
<1>2. /\ listener[c] = "cancelled"
      /\ \A d \in Starts : listener'[d] = IF d = c THEN "done" ELSE listener[d]
      /\ listener' \in [Starts -> {"none", "running", "cancelled", "done"}]
  BY <1>1 DEF ListenerEnds, TypeOK
<1>3. UNCHANGED <<generation, nextNonce, registry, mutation, start, stopping, logout,
      logouts, signedIn, reading>>
  BY DEF ListenerEnds, slotVars, otherVars, authVars
<1>4. TypeOK'
  BY <1>1, <1>2, <1>3 DEF TypeOK, SlotTypeOK
<1>5. (StartsOK /\ NoncesOK /\ PlacesOK /\ PastOK /\ ComingOK /\ ActiveOK)'
  BY <1>1, <1>2, <1>3, TypeFacts
  DEF StartsOK, Early, Past, NoncesOK, PlacesOK, Replacing, MaybeStart, PastOK, WasActive,
      ComingOK, Runs, ActiveOK
<1>6. (LocksOK /\ NothingIsAbandoned /\ WritesStayInSession)'
  BY <1>1, <1>2, <1>3, TypeFacts
  DEF LocksOK, Stopped, Gen, MaybeStart, NothingIsAbandoned, AnsweredFor, WritesStayInSession
<1> QED BY <1>4, <1>5, <1>6 DEF SessionsInv

LEMMA StopTakesInv ==
  ASSUME SessionsInv, StopTakes
  PROVE  SessionsInv'
<1>1. /\ TypeOK /\ StartsOK /\ NoncesOK /\ PlacesOK /\ PastOK /\ ComingOK /\ ActiveOK
      /\ LocksOK /\ NothingIsAbandoned /\ WritesStayInSession
  BY DEF SessionsInv
<1>2. /\ mutation = NoStart /\ registry.active # NoStart /\ mutation' = Stopper
      /\ stopping'.at = "taken" /\ stopping'.session = registry.active
      /\ listener' = Cancelled({registry.active})
  BY DEF StopTakes
<1>3. UNCHANGED <<generation, nextNonce, start, logout, logouts, signedIn, reading>>
  BY DEF StopTakes, slotVars, authVars
<1>4. registry'.pending = registry.pending /\ registry'.active = NoStart
  BY <1>1 DEF StopTakes, TypeOK
<1>5. TypeOK'
  BY <1>1, <1>2, <1>3 DEF TypeOK, SlotTypeOK, MaybeStart, StopTakes, Cancelled
<1>6. (StartsOK /\ NoncesOK /\ PlacesOK /\ PastOK /\ ComingOK /\ ActiveOK)'
  BY <1>1, <1>2, <1>3, <1>4, TypeFacts
  DEF StartsOK, Early, Past, NoncesOK, PlacesOK, Replacing, MaybeStart, PastOK, WasActive,
      ComingOK, Runs, ActiveOK, Cancelled
<1>7. (LocksOK /\ WritesStayInSession)'
  BY <1>1, <1>2, <1>3, <1>4, TypeFacts
  DEF LocksOK, Stopped, Gen, MaybeStart, WritesStayInSession
<1>8. NothingIsAbandoned'
  <2>1. \A d \in Starts : AnsweredFor(d) => AnsweredFor(d)'
    BY <1>1, <1>2, <1>3, <1>4, TypeFacts DEF LocksOK, AnsweredFor
  <2> QED BY <1>1, <1>2, <1>3, <2>1 DEF NothingIsAbandoned, Cancelled
<1> QED BY <1>5, <1>6, <1>7, <1>8 DEF SessionsInv

LEMMA StopStopsInv ==
  ASSUME SessionsInv, StopStops
  PROVE  SessionsInv'
<1>1. /\ TypeOK /\ StartsOK /\ NoncesOK /\ PlacesOK /\ PastOK /\ ComingOK /\ ActiveOK
      /\ LocksOK /\ NothingIsAbandoned /\ WritesStayInSession
  BY DEF SessionsInv
<1>2. stopping.at = "taken" /\ stopping'.at = "waiting"
      /\ stopping'.session = stopping.session
  BY <1>1 DEF StopStops, TypeOK
<1>3. UNCHANGED <<registry, mutation, start, listener, logout, logouts, signedIn, reading>>
  BY DEF StopStops, authVars
<1>4. Stops({stopping.session}) /\ SlotTypeOK'
  BY <1>1, StopGenerationsStops DEF StopStops
<1>5. \A d \in Starts : start[d].pc \in {"reserved", "prepared", "listening"} \/ registry.active = d
        => generation' = generation
  BY <1>1, <1>4, TypeFacts, StopsOthers
  DEF ComingOK, ActiveOK, Runs, PastOK, WasActive, Past, MaybeStart
<1>6. TypeOK'
  BY <1>1, <1>3, <1>4 DEF TypeOK, StopStops
<1>7. (StartsOK /\ NoncesOK /\ PlacesOK /\ PastOK /\ ComingOK /\ ActiveOK)'
  BY <1>1, <1>2, <1>3, <1>4, <1>5, TypeFacts
  DEF StartsOK, Early, Past, NoncesOK, PlacesOK, Replacing, MaybeStart, PastOK, WasActive,
      ComingOK, Runs, ActiveOK, Stops
<1>8. (LocksOK /\ NothingIsAbandoned /\ WritesStayInSession)'
  BY <1>1, <1>2, <1>3, <1>4, <1>5, TypeFacts
  DEF LocksOK, Stopped, Gen, MaybeStart, NothingIsAbandoned, AnsweredFor, WritesStayInSession,
      Stops
<1> QED BY <1>6, <1>7, <1>8 DEF SessionsInv

LEMMA StopEndsInv ==
  ASSUME SessionsInv, StopEnds
  PROVE  SessionsInv'
<1>1. /\ TypeOK /\ StartsOK /\ NoncesOK /\ PlacesOK /\ PastOK /\ ComingOK /\ ActiveOK
      /\ LocksOK /\ NothingIsAbandoned /\ WritesStayInSession
  BY DEF SessionsInv
<1>2. /\ stopping.at = "waiting" /\ Ended(stopping.session) /\ mutation' = NoStart
      /\ stopping'.at = "none" /\ stopping'.session = NoStart
  BY DEF StopEnds
<1>3. UNCHANGED <<generation, nextNonce, registry, start, listener, logout, logouts,
      signedIn, reading>>
  BY DEF StopEnds, slotVars, authVars
<1>4. TypeOK'
  BY <1>1, <1>2, <1>3 DEF TypeOK, SlotTypeOK, MaybeStart, StopEnds
<1>5. (StartsOK /\ NoncesOK /\ PlacesOK /\ PastOK /\ ComingOK /\ ActiveOK)'
  BY <1>1, <1>2, <1>3, TypeFacts
  DEF StartsOK, Early, Past, NoncesOK, PlacesOK, Replacing, MaybeStart, PastOK, WasActive,
      ComingOK, Runs, ActiveOK
<1>6. (LocksOK /\ NothingIsAbandoned /\ WritesStayInSession)'
  BY <1>1, <1>2, <1>3, TypeFacts
  DEF LocksOK, Stopped, Gen, MaybeStart, NothingIsAbandoned, AnsweredFor, WritesStayInSession,
      Ended
<1> QED BY <1>4, <1>5, <1>6 DEF SessionsInv

LEMMA RequestLogoutInv ==
  ASSUME SessionsInv, RequestLogout
  PROVE  SessionsInv'
<1>1. /\ TypeOK /\ StartsOK /\ NoncesOK /\ PlacesOK /\ PastOK /\ ComingOK /\ ActiveOK
      /\ LocksOK /\ NothingIsAbandoned /\ WritesStayInSession
  BY DEF SessionsInv
<1>2. /\ logout.at = "none" /\ logout'.at = "waiting" /\ logout'.session = logout.session
      /\ logout' \in [at : {"none", "waiting", "cleared", "draining"}, session : MaybeStart]
  BY <1>1 DEF RequestLogout, TypeOK
<1>3. logouts' \in 0..MaxLogouts
  BY <1>1, SessionsAssumption DEF RequestLogout, TypeOK
<1>4. UNCHANGED <<generation, nextNonce, registry, mutation, start, listener, stopping,
      signedIn, reading>>
  BY DEF RequestLogout, sessionVars, slotVars
<1>5. TypeOK'
  BY <1>1, <1>2, <1>3, <1>4 DEF TypeOK, SlotTypeOK
<1>6. (StartsOK /\ NoncesOK /\ PlacesOK /\ PastOK /\ ComingOK /\ ActiveOK)'
  BY <1>1, <1>2, <1>3, <1>4, TypeFacts
  DEF StartsOK, Early, Past, NoncesOK, PlacesOK, Replacing, MaybeStart, PastOK, WasActive,
      ComingOK, Runs, ActiveOK
<1>7. (LocksOK /\ NothingIsAbandoned /\ WritesStayInSession)'
  BY <1>1, <1>2, <1>3, <1>4, TypeFacts
  DEF LocksOK, Stopped, Gen, MaybeStart, NothingIsAbandoned, AnsweredFor, WritesStayInSession
<1> QED BY <1>5, <1>6, <1>7 DEF SessionsInv

LEMMA LogoutFailsInv ==
  ASSUME SessionsInv, LogoutFails
  PROVE  SessionsInv'
<1>1. /\ TypeOK /\ StartsOK /\ NoncesOK /\ PlacesOK /\ PastOK /\ ComingOK /\ ActiveOK
      /\ LocksOK /\ NothingIsAbandoned /\ WritesStayInSession
  BY DEF SessionsInv
<1>2. /\ logout.at = "waiting" /\ logout'.at = "none" /\ logout'.session = logout.session
      /\ logout' \in [at : {"none", "waiting", "cleared", "draining"}, session : MaybeStart]
  BY <1>1 DEF LogoutFails, TypeOK
<1>3. UNCHANGED <<generation, nextNonce, registry, mutation, start, listener, stopping,
      logouts, signedIn, reading>>
  BY DEF LogoutFails, sessionVars, slotVars
<1>4. TypeOK'
  BY <1>1, <1>2, <1>3 DEF TypeOK, SlotTypeOK
<1>5. (StartsOK /\ NoncesOK /\ PlacesOK /\ PastOK /\ ComingOK /\ ActiveOK)'
  BY <1>1, <1>2, <1>3, TypeFacts
  DEF StartsOK, Early, Past, NoncesOK, PlacesOK, Replacing, MaybeStart, PastOK, WasActive,
      ComingOK, Runs, ActiveOK
<1>6. (LocksOK /\ NothingIsAbandoned /\ WritesStayInSession)'
  BY <1>1, <1>2, <1>3, TypeFacts
  DEF LocksOK, Stopped, Gen, MaybeStart, NothingIsAbandoned, AnsweredFor, WritesStayInSession
<1> QED BY <1>4, <1>5, <1>6 DEF SessionsInv

LEMMA ClearForLogoutInv ==
  ASSUME SessionsInv, ClearForLogout
  PROVE  SessionsInv'
<1>1. /\ TypeOK /\ StartsOK /\ NoncesOK /\ PlacesOK /\ PastOK /\ ComingOK /\ ActiveOK
      /\ LocksOK /\ NothingIsAbandoned /\ WritesStayInSession
  BY DEF SessionsInv
<1>2. /\ logout.at = "waiting" /\ logout'.at = "cleared" /\ logout'.session = registry.active
      /\ registry'.pending = NoStart /\ registry'.active = NoStart /\ signedIn' = FALSE
      /\ listener' = Cancelled({registry.active})
  BY DEF ClearForLogout
<1>3. UNCHANGED <<generation, nextNonce, mutation, start, stopping, logouts, reading>>
  BY DEF ClearForLogout, slotVars
<1>4. \A c \in Starts : start[c].pc \in {"none", "over"}
  BY DEF ClearForLogout, GateFree, Leased
<1>5. TypeOK'
  BY <1>1, <1>2, <1>3, TypeFacts DEF TypeOK, SlotTypeOK, MaybeStart, ClearForLogout, Cancelled
<1>6. (StartsOK /\ NoncesOK /\ PlacesOK /\ PastOK /\ ComingOK /\ ActiveOK)'
  BY <1>1, <1>2, <1>3, <1>4, TypeFacts
  DEF StartsOK, Early, Past, NoncesOK, PlacesOK, Replacing, MaybeStart, PastOK, WasActive,
      ComingOK, Runs, ActiveOK, Cancelled
<1>7. (LocksOK /\ NothingIsAbandoned /\ WritesStayInSession)'
  BY <1>1, <1>2, <1>3, <1>4, TypeFacts
  DEF LocksOK, Stopped, Gen, MaybeStart, NothingIsAbandoned, AnsweredFor, WritesStayInSession,
      Cancelled
<1> QED BY <1>5, <1>6, <1>7 DEF SessionsInv

LEMMA LogoutStopsInv ==
  ASSUME SessionsInv, LogoutStops
  PROVE  SessionsInv'
<1>1. /\ TypeOK /\ StartsOK /\ NoncesOK /\ PlacesOK /\ PastOK /\ ComingOK /\ ActiveOK
      /\ LocksOK /\ NothingIsAbandoned /\ WritesStayInSession
  BY DEF SessionsInv
<1>2. logout.at = "cleared" /\ logout'.at = "draining"
      /\ logout'.session = logout.session
  BY <1>1 DEF LogoutStops, TypeOK
<1>3. UNCHANGED <<registry, mutation, start, listener, stopping, logouts, signedIn,
      reading>>
  BY DEF LogoutStops, authVars
<1>4. Stops({logout.session}) /\ SlotTypeOK'
  BY <1>1, StopGenerationsStops DEF LogoutStops
<1>5. \A d \in Starts : start[d].pc \in {"reserved", "prepared", "listening"} \/ registry.active = d
        => generation' = generation
  BY <1>1, <1>4, TypeFacts, StopsOthers
  DEF ComingOK, ActiveOK, Runs, PastOK, WasActive, Past, MaybeStart
<1>6. TypeOK'
  BY <1>1, <1>3, <1>4 DEF TypeOK, LogoutStops
<1>7. (StartsOK /\ NoncesOK /\ PlacesOK /\ PastOK /\ ComingOK /\ ActiveOK)'
  BY <1>1, <1>2, <1>3, <1>4, <1>5, TypeFacts
  DEF StartsOK, Early, Past, NoncesOK, PlacesOK, Replacing, MaybeStart, PastOK, WasActive,
      ComingOK, Runs, ActiveOK, Stops
<1>8. (LocksOK /\ NothingIsAbandoned /\ WritesStayInSession)'
  BY <1>1, <1>2, <1>3, <1>4, <1>5, TypeFacts
  DEF LocksOK, Stopped, Gen, MaybeStart, NothingIsAbandoned, AnsweredFor, WritesStayInSession,
      Stops
<1> QED BY <1>6, <1>7, <1>8 DEF SessionsInv

LEMMA LogoutEndsInv ==
  ASSUME SessionsInv, LogoutEnds
  PROVE  SessionsInv'
<1>1. /\ TypeOK /\ StartsOK /\ NoncesOK /\ PlacesOK /\ PastOK /\ ComingOK /\ ActiveOK
      /\ LocksOK /\ NothingIsAbandoned /\ WritesStayInSession
  BY DEF SessionsInv
<1>2. /\ logout.at = "draining" /\ Ended(logout.session)
      /\ logout'.at = "none" /\ logout'.session = NoStart
  BY DEF LogoutEnds
<1>3. UNCHANGED <<generation, nextNonce, registry, mutation, start, listener, stopping,
      logouts, signedIn, reading>>
  BY DEF LogoutEnds, sessionVars, slotVars
<1>4. TypeOK'
  BY <1>1, <1>2, <1>3 DEF TypeOK, SlotTypeOK, MaybeStart, LogoutEnds
<1>5. (StartsOK /\ NoncesOK /\ PlacesOK /\ PastOK /\ ComingOK /\ ActiveOK)'
  BY <1>1, <1>2, <1>3, TypeFacts
  DEF StartsOK, Early, Past, NoncesOK, PlacesOK, Replacing, MaybeStart, PastOK, WasActive,
      ComingOK, Runs, ActiveOK
<1>6. (LocksOK /\ NothingIsAbandoned /\ WritesStayInSession)'
  BY <1>1, <1>2, <1>3, TypeFacts
  DEF LocksOK, Stopped, Gen, MaybeStart, NothingIsAbandoned, AnsweredFor, WritesStayInSession,
      Ended
<1> QED BY <1>4, <1>5, <1>6 DEF SessionsInv

LEMMA SignInInv ==
  ASSUME SessionsInv, SignIn
  PROVE  SessionsInv'
<1>1. /\ TypeOK /\ StartsOK /\ NoncesOK /\ PlacesOK /\ PastOK /\ ComingOK /\ ActiveOK
      /\ LocksOK /\ NothingIsAbandoned /\ WritesStayInSession
  BY DEF SessionsInv
<1>2. signedIn' = TRUE
  BY DEF SignIn
<1>3. UNCHANGED <<generation, nextNonce, registry, mutation, start, listener, stopping,
      logout, logouts, reading>>
  BY DEF SignIn, sessionVars, slotVars
<1>4. TypeOK'
  BY <1>1, <1>2, <1>3 DEF TypeOK, SlotTypeOK
<1>5. (StartsOK /\ NoncesOK /\ PlacesOK /\ PastOK /\ ComingOK /\ ActiveOK)'
  BY <1>1, <1>2, <1>3, TypeFacts
  DEF StartsOK, Early, Past, NoncesOK, PlacesOK, Replacing, MaybeStart, PastOK, WasActive,
      ComingOK, Runs, ActiveOK
<1>6. (LocksOK /\ NothingIsAbandoned /\ WritesStayInSession)'
  BY <1>1, <1>2, <1>3, TypeFacts
  DEF LocksOK, Stopped, Gen, MaybeStart, NothingIsAbandoned, AnsweredFor, WritesStayInSession
<1> QED BY <1>4, <1>5, <1>6 DEF SessionsInv

LEMMA BeginReadInv ==
  ASSUME SessionsInv, BeginRead
  PROVE  SessionsInv'
<1>1. /\ TypeOK /\ StartsOK /\ NoncesOK /\ PlacesOK /\ PastOK /\ ComingOK /\ ActiveOK
      /\ LocksOK /\ NothingIsAbandoned /\ WritesStayInSession
  BY DEF SessionsInv
<1>2. /\ registry.active # NoStart
      /\ reading' = [at |-> "reading", session |-> registry.active, wrote |-> 0]
  BY DEF BeginRead
<1>3. UNCHANGED <<generation, nextNonce, registry, mutation, start, listener, stopping,
      logout, logouts, signedIn>>
  BY DEF BeginRead, readVars, slotVars, authVars
<1>4. TypeOK'
  BY <1>1, <1>2, <1>3, TypeFacts, SlotAssumption DEF TypeOK, SlotTypeOK
<1>5. (StartsOK /\ NoncesOK /\ PlacesOK /\ PastOK /\ ComingOK /\ ActiveOK)'
  BY <1>1, <1>2, <1>3, TypeFacts
  DEF StartsOK, Early, Past, NoncesOK, PlacesOK, Replacing, MaybeStart, PastOK, WasActive,
      ComingOK, Runs, ActiveOK
<1>6. (LocksOK /\ NothingIsAbandoned /\ WritesStayInSession)'
  BY <1>1, <1>2, <1>3, TypeFacts
  DEF LocksOK, Stopped, Gen, MaybeStart, NothingIsAbandoned, AnsweredFor, WritesStayInSession
<1> QED BY <1>4, <1>5, <1>6 DEF SessionsInv

LEMMA FinishReadInv ==
  ASSUME SessionsInv, FinishRead
  PROVE  SessionsInv'
<1>1. /\ TypeOK /\ StartsOK /\ NoncesOK /\ PlacesOK /\ PastOK /\ ComingOK /\ ActiveOK
      /\ LocksOK /\ NothingIsAbandoned /\ WritesStayInSession
  BY DEF SessionsInv
<1>2. reading.at = "reading" /\ reading'.at = "done" /\ reading'.session = reading.session
  BY <1>1 DEF FinishRead, TypeOK
<1>3. /\ reading'.wrote \in 0..MaxNonce
      /\ reading'.wrote # 0 =>
           registry.active = reading.session /\ reading'.wrote = generation.owner.nonce
  BY <1>1, SlotAssumption DEF FinishRead, IsActive, TypeOK, SlotTypeOK, Owners, Nonces, NoOwner
<1>4. UNCHANGED <<generation, nextNonce, registry, mutation, start, listener, stopping,
      logout, logouts, signedIn>>
  BY DEF FinishRead, readVars, slotVars, authVars
<1>5. TypeOK'
  BY <1>1, <1>2, <1>3, <1>4 DEF TypeOK, SlotTypeOK, FinishRead
<1>6. (StartsOK /\ NoncesOK /\ PlacesOK /\ PastOK /\ ComingOK /\ ActiveOK)'
  BY <1>1, <1>2, <1>3, <1>4, TypeFacts
  DEF StartsOK, Early, Past, NoncesOK, PlacesOK, Replacing, MaybeStart, PastOK, WasActive,
      ComingOK, Runs, ActiveOK
<1>7. (LocksOK /\ NothingIsAbandoned /\ WritesStayInSession)'
  BY <1>1, <1>2, <1>3, <1>4, TypeFacts
  DEF LocksOK, Stopped, Gen, MaybeStart, NothingIsAbandoned, AnsweredFor, WritesStayInSession,
      ActiveOK, Runs
<1> QED BY <1>5, <1>6, <1>7 DEF SessionsInv

LEMMA ReturnReadInv ==
  ASSUME SessionsInv, ReturnRead
  PROVE  SessionsInv'
<1>1. /\ TypeOK /\ StartsOK /\ NoncesOK /\ PlacesOK /\ PastOK /\ ComingOK /\ ActiveOK
      /\ LocksOK /\ NothingIsAbandoned /\ WritesStayInSession
  BY DEF SessionsInv
<1>2. reading' = [at |-> "none", session |-> NoStart, wrote |-> 0]
  BY DEF ReturnRead
<1>3. UNCHANGED <<generation, nextNonce, registry, mutation, start, listener, stopping,
      logout, logouts, signedIn>>
  BY DEF ReturnRead, readVars, slotVars, authVars
<1>4. TypeOK'
  BY <1>1, <1>2, <1>3, SlotAssumption DEF TypeOK, SlotTypeOK, MaybeStart
<1>5. (StartsOK /\ NoncesOK /\ PlacesOK /\ PastOK /\ ComingOK /\ ActiveOK)'
  BY <1>1, <1>2, <1>3, TypeFacts
  DEF StartsOK, Early, Past, NoncesOK, PlacesOK, Replacing, MaybeStart, PastOK, WasActive,
      ComingOK, Runs, ActiveOK
<1>6. (LocksOK /\ NothingIsAbandoned /\ WritesStayInSession)'
  BY <1>1, <1>2, <1>3, TypeFacts
  DEF LocksOK, Stopped, Gen, MaybeStart, NothingIsAbandoned, AnsweredFor, WritesStayInSession
<1> QED BY <1>4, <1>5, <1>6 DEF SessionsInv

-----------------------------------------------------------------------------
(***************************************************************************)
(* The steps of a start, and all steps together.                           *)
(***************************************************************************)

LEMMA StartStepsInv ==
  ASSUME SessionsInv, NEW c \in Starts, StartSteps(c)
  PROVE  SessionsInv'
<1>1. CASE ReservePending(c)
  <2>1. CASE MayReserve(c)
    BY <1>1, <2>1, ReservePendingInv
  <2>2. CASE ~MayReserve(c)
    BY <1>1, <2>2, MovingInv DEF ReservePending, StartPcs
  <2> QED BY <2>1, <2>2
<1>2. CASE LoadWorkspace(c)
  BY <1>2, MovingInv DEF LoadWorkspace, StartPcs
<1>3. CASE TakePrevious(c)
  <2>1. CASE registry.pending = c
    BY <1>3, <2>1, TakePreviousInv
  <2>2. CASE registry.pending # c
    BY <1>3, <2>2, MovingInv DEF TakePrevious, StartPcs
  <2> QED BY <2>1, <2>2
<1>4. CASE StopPrevious(c)
  BY <1>4, StopPreviousInv
<1>5. CASE ReserveGeneration(c)
  BY <1>5, ReserveGenerationInv
<1>6. CASE ReserveRefused(c)
  BY <1>6, MovingInv DEF ReserveRefused, StartPcs
<1>7. CASE PrepareGeneration(c)
  BY <1>7, PrepareGenerationInv
<1>8. CASE SpawnListener(c)
  BY <1>8, SpawnListenerInv
<1>9. CASE ActivatePending(c)
  <2>1. CASE registry.active = NoStart /\ registry.pending = c
    BY <1>9, <2>1, ActivatePendingInv
  <2>2. CASE ~(registry.active = NoStart /\ registry.pending = c)
    BY <1>9, <2>2, MovingInv DEF ActivatePending, StartPcs
  <2> QED BY <2>1, <2>2
<1>10. CASE ReturnStart(c)
  BY <1>10, MovingInv DEF ReturnStart, StartPcs
<1>11. CASE DropPlace(c)
  BY <1>11, DropPlaceInv
<1>12. CASE DropHeld(c)
  BY <1>12, DropHeldInv
<1> QED BY <1>1, <1>2, <1>3, <1>4, <1>5, <1>6, <1>7, <1>8, <1>9, <1>10, <1>11, <1>12 DEF StartSteps

LEMMA NextInv == SessionsInv /\ [Next]_vars => SessionsInv'
<1> SUFFICES ASSUME SessionsInv, [Next]_vars PROVE SessionsInv'
  OBVIOUS
<1>1. ASSUME NEW c \in Starts, NEW s \in Sessions, EnterStart(c, s) PROVE SessionsInv'
  BY <1>1, EnterStartInv
<1>2. ASSUME NEW c \in Starts, StartSteps(c) PROVE SessionsInv'
  BY <1>2, StartStepsInv
<1>3. ASSUME NEW c \in Starts, AbortStart(c) PROVE SessionsInv'
  BY <1>3, AbortStartInv
<1>4. ASSUME NEW c \in Starts, ListenerEnds(c) PROVE SessionsInv'
  BY <1>4, ListenerEndsInv
<1>5. CASE StopTakes
  BY <1>5, StopTakesInv
<1>6. CASE StopSteps
  BY <1>6, StopStopsInv, StopEndsInv DEF StopSteps
<1>7. CASE RequestLogout
  BY <1>7, RequestLogoutInv
<1>8. CASE LogoutSteps
  BY <1>8, LogoutFailsInv, ClearForLogoutInv, LogoutStopsInv, LogoutEndsInv DEF LogoutSteps
<1>9. CASE SignIn
  BY <1>9, SignInInv
<1>10. CASE BeginRead
  BY <1>10, BeginReadInv
<1>11. CASE ReadSteps
  BY <1>11, FinishReadInv, ReturnReadInv DEF ReadSteps
<1>12. CASE UNCHANGED vars
  <2>1. UNCHANGED <<generation, nextNonce, registry, mutation, start, listener, stopping, logout,
                    logouts, signedIn, reading>>
    BY <1>12 DEF vars, slotVars
  <2>2. (TypeOK /\ StartsOK /\ NoncesOK)'
    BY <2>1 DEF SessionsInv, TypeOK, SlotTypeOK, StartsOK, NoncesOK
  <2>3. (PlacesOK /\ PastOK /\ ComingOK /\ ActiveOK)'
    BY <2>1 DEF SessionsInv, PlacesOK, PastOK, WasActive, ComingOK, ActiveOK, Runs
  <2>4. (LocksOK /\ NothingIsAbandoned /\ WritesStayInSession)'
    BY <2>1 DEF SessionsInv, LocksOK, Stopped, Gen, NothingIsAbandoned, AnsweredFor,
                WritesStayInSession
  <2> QED BY <2>2, <2>3, <2>4 DEF SessionsInv
<1> QED BY <1>1, <1>2, <1>3, <1>4, <1>5, <1>6, <1>7, <1>8, <1>9, <1>10, <1>11, <1>12 DEF Next

LEMMA InitInv == Init => SessionsInv
<1> SUFFICES ASSUME Init PROVE SessionsInv
  OBVIOUS
<1>1. TypeOK
  BY SessionsAssumption, SlotAssumption
     DEF Init, TypeOK, SlotInit, SlotTypeOK, NoGeneration, NoOwner, Kinds, NewStart, StartPcs,
         MaybeStart
<1>2. \A c \in Starts : /\ start[c].pc = "none" /\ start[c].gen = 0 /\ ~start[c].owns
                        /\ start[c].prev = NoStart /\ listener[c] = "none"
  BY DEF Init, NewStart
<1>3. /\ registry.pending = NoStart /\ registry.active = NoStart
      /\ stopping.at = "none" /\ stopping.session = NoStart
      /\ logout.at = "none" /\ logout.session = NoStart /\ signedIn = TRUE
      /\ reading.at = "none" /\ reading.session = NoStart /\ reading.wrote = 0
      /\ generation.kind = "none" /\ nextNonce = 1
  BY DEF Init, SlotInit, NoGeneration
<1>4. StartsOK /\ NoncesOK /\ PlacesOK
  BY <1>2, <1>3 DEF StartsOK, NoncesOK, PlacesOK, Replacing, Early
<1>5. PastOK /\ ComingOK /\ ActiveOK
  BY <1>2, <1>3, SessionsAssumption DEF PastOK, WasActive, ComingOK, ActiveOK
<1>6. LocksOK /\ NothingIsAbandoned /\ WritesStayInSession
  BY <1>2, <1>3 DEF LocksOK, NothingIsAbandoned, WritesStayInSession
<1> QED BY <1>1, <1>4, <1>5, <1>6 DEF SessionsInv

-----------------------------------------------------------------------------
(***************************************************************************)
(* The theorems.                                                           *)
(***************************************************************************)

\* The invariant holds of every behaviour of the session commands.
THEOREM Invariance == Spec => []SessionsInv
<1>1. Init => SessionsInv
  BY InitInv
<1>2. SessionsInv /\ [Next]_vars => SessionsInv'
  BY NextInv
<1> QED BY <1>1, <1>2, PTL DEF Spec

\* Every variable of the session commands keeps its type.
THEOREM TypeCorrectness == Spec => []TypeOK
<1>1. SessionsInv => TypeOK
  BY DEF SessionsInv
<1> QED BY <1>1, Invariance, PTL

\* Wherever a start, a stop or a logout is, whichever start failed or was dropped, each generation
\* and each running listener has somebody who will stop it (DocumentStartCleanup).
THEOREM NothingAbandoned == Spec => []NothingIsAbandoned
<1>1. SessionsInv => NothingIsAbandoned
  BY DEF SessionsInv
<1> QED BY <1>1, Invariance, PTL

\* A command that registered in a session writes into the generation of that session and no later
\* one, even when a later one has the same id (ensure_active_context).
THEOREM WritesStay == Spec => []WritesStayInSession
<1>1. SessionsInv => WritesStayInSession
  BY DEF SessionsInv
<1> QED BY <1>1, Invariance, PTL

\* Nobody who is idle answers for a session, unless it is the active one.
LEMMA IdleAnswers ==
  ASSUME SessionsInv, Idle, NEW c \in Starts, AnsweredFor(c)
  PROVE  registry.active = c
<1>1. \A d \in Starts : start[d].pc \in {"none", "over"}
  BY DEF Idle, Leased
<1>2. stopping.session = NoStart /\ logout.session = NoStart
  BY DEF SessionsInv, LocksOK, Idle
<1>3. ~start[c].owns /\ \A d \in Starts : start[d].prev = NoStart
  BY <1>1 DEF SessionsInv, StartsOK
<1> QED BY <1>1, <1>2, <1>3, SessionsAssumption DEF AnsweredFor

\* When no command is under way, the active session is the one that holds the generation, with
\* its listener running, or there is neither, and no pending place is left (state.rs).
THEOREM RegistryMatches == Spec => []RegistryMatchesRuntime
<1>1. SessionsInv => RegistryMatchesRuntime
  <2> SUFFICES ASSUME SessionsInv, Idle
               PROVE  /\ registry.pending = NoStart
                      /\ (registry.active = NoStart) <=> (generation.kind = "none")
                      /\ registry.active # NoStart =>
                           /\ generation.kind = "active"
                           /\ generation.owner.nonce = Gen(registry.active)
                           /\ listener[registry.active] = "running"
    BY DEF RegistryMatchesRuntime
  <2>1. \A d \in Starts : start[d].pc \in {"none", "over"}
    BY DEF Idle, Leased
  <2>2. registry.pending \in MaybeStart /\ registry.active \in MaybeStart
    BY TypeFacts DEF SessionsInv
  <2>3. registry.pending = NoStart
    BY <2>1, <2>2 DEF SessionsInv, PlacesOK, Replacing, MaybeStart
  <2>4. registry.active # NoStart =>
          /\ generation.kind = "active" /\ generation.owner.nonce = Gen(registry.active)
          /\ listener[registry.active] = "running"
    BY <2>2 DEF SessionsInv, ActiveOK, Runs, Gen, MaybeStart
  <2>5. generation.kind # "none" => registry.active # NoStart
    BY IdleAnswers, SessionsAssumption DEF SessionsInv, NothingIsAbandoned
  <2> QED BY <2>3, <2>4, <2>5
<1> QED BY <1>1, Invariance, PTL

\* After a logout and until the next sign-in no session is active or pending, and no generation is
\* left but one that a stop command is about to end (logout_github_inner).
THEOREM LogoutEndsThem == Spec => []LogoutEndsSessions
<1>1. SessionsInv => LogoutEndsSessions
  <2> SUFFICES ASSUME SessionsInv, ~signedIn, logout.at = "none"
               PROVE  /\ registry = [pending |-> NoStart, active |-> NoStart]
                      /\ generation.kind # "none" =>
                           Gen(stopping.session) = generation.owner.nonce
    BY DEF LogoutEndsSessions
  <2>1. /\ registry.pending = NoStart /\ registry.active = NoStart /\ logout.session = NoStart
        /\ \A d \in Starts : start[d].pc \in {"none", "over"}
    BY DEF SessionsInv, LocksOK
  <2>2. registry = [pending |-> NoStart, active |-> NoStart]
    BY <2>1 DEF SessionsInv, TypeOK
  <2>3. \A c \in Starts : AnsweredFor(c) => stopping.session = c
    BY <2>1, SessionsAssumption DEF SessionsInv, StartsOK, AnsweredFor
  <2>4. generation.kind # "none" => Gen(stopping.session) = generation.owner.nonce
    BY <2>3, SessionsAssumption DEF SessionsInv, NothingIsAbandoned, Gen
  <2> QED BY <2>2, <2>4
<1> QED BY <1>1, Invariance, PTL

\* What the commands do with the runtime is what its slot allows: a session starts with a fresh
\* nonce, becomes active while it holds the slot, and is stopped by its own nonce.
THEOREM SessionsUseTheSlot == Spec => SlotSpec
<1>1. Init => SlotInit
  BY DEF Init
<1>2. ASSUME SessionsInv, [Next]_vars PROVE [SlotNext]_slotVars
  <2>1. ASSUME NEW cs, StopGenerations(cs) PROVE [SlotNext]_slotVars
    <3>1. CASE UNCHANGED slotVars
      BY <3>1
    <3>2. CASE ReleaseSlot(generation.owner.nonce)
      BY <3>2, <1>2 DEF SessionsInv, TypeOK, SlotTypeOK, SlotNext, ReleaseSlot, Owners, NoOwner
    <3> QED BY <2>1, <3>1, <3>2 DEF StopGenerations
  <2>2. ASSUME NEW c \in Starts, StartSteps(c) PROVE [SlotNext]_slotVars
    <3>1. CASE ReserveGeneration(c)
      BY <3>1, <1>2 DEF ReserveGeneration, SessionsInv, StartsOK, SlotNext
    <3>2. CASE PrepareGeneration(c)
      BY <3>2, <1>2 DEF PrepareGeneration, ActivateSlot, SessionsInv, TypeOK, SlotTypeOK, SlotNext,
                        Owners, NoOwner
    <3>3. CASE StopPrevious(c) \/ DropHeld(c)
      BY <3>3, <2>1 DEF StopPrevious, DropHeld
    <3>4. CASE ReservePending(c) \/ LoadWorkspace(c) \/ TakePrevious(c) \/ ReserveRefused(c)
                 \/ SpawnListener(c) \/ ActivatePending(c) \/ ReturnStart(c) \/ DropPlace(c)
      BY <3>4 DEF ReservePending, LoadWorkspace, TakePrevious, ReserveRefused, SpawnListener,
                  ActivatePending, ReturnStart, DropPlace
    <3> QED BY <2>2, <3>1, <3>2, <3>3, <3>4 DEF StartSteps
  <2>3. ASSUME NEW c \in Starts, AbortStart(c) PROVE [SlotNext]_slotVars
    BY <2>3, <2>1 DEF AbortStart
  <2>4. CASE StopSteps \/ LogoutSteps
    BY <2>4, <2>1 DEF StopSteps, StopStops, StopEnds, LogoutSteps, LogoutFails, ClearForLogout,
                      LogoutStops, LogoutEnds, sessionVars
  <2>5. CASE \/ \E c \in Starts : ListenerEnds(c) \/ \E s \in Sessions : EnterStart(c, s)
             \/ StopTakes \/ RequestLogout \/ SignIn \/ BeginRead \/ ReadSteps
    BY <2>5 DEF ListenerEnds, EnterStart, StopTakes, RequestLogout, SignIn, BeginRead, ReadSteps,
                FinishRead, ReturnRead, sessionVars, readVars
  <2>6. CASE UNCHANGED vars
    BY <2>6 DEF vars
  <2> QED BY <1>2, <2>2, <2>3, <2>4, <2>5, <2>6 DEF Next
<1> QED BY <1>1, <1>2, Invariance, PTL DEF Spec, SlotSpec

-----------------------------------------------------------------------------
(***************************************************************************)
(* The sign-in beside the sessions.                                        *)
(***************************************************************************)

Proved == INSTANCE AuthenticationProofs WITH logout <- signOut

\* The instance that is checked and the one that is proved about have the same
\* definitions, under two names.
LEMMA SameInit == Auth!Init <=> Proved!Init
  BY
     DEF Auth!Init, Proved!Init, Auth!Lives, Proved!Lives, Auth!NoTokens, Proved!NoTokens,
         Auth!NoCall, Proved!NoCall, Auth!Unsigned, Proved!Unsigned, Auth!Jobs, Proved!Jobs,
         Auth!NewLogin, Proved!NewLogin, Auth!IdleGetter, Proved!IdleGetter, Auth!IdleProbe,
         Proved!IdleProbe

LEMMA SameNext == Auth!Next <=> Proved!Next
  BY
     DEF Auth!Next, Proved!Next, Auth!RegisterLogin, Proved!RegisterLogin, Auth!At, Proved!At,
         Auth!Goto, Proved!Goto, Auth!credentialVars, Proved!credentialVars, Auth!otherVars,
         Proved!otherVars, Auth!keychainVars, Proved!keychainVars, Auth!BeginStep,
         Proved!BeginStep, Auth!BeginRefused, Proved!BeginRefused, Auth!MutationFree,
         Proved!MutationFree, Auth!Refuse, Proved!Refuse, Auth!FinishRequest, Proved!FinishRequest,
         Auth!BeginLogin, Proved!BeginLogin, Auth!LockFree, Proved!LockFree,
         Auth!InvalidateLifecycle, Proved!InvalidateLifecycle, Auth!Jobs, Proved!Jobs,
         Auth!Revoked, Proved!Revoked, Auth!GetterRevoked, Proved!GetterRevoked,
         Auth!DeviceCodeArrives, Proved!DeviceCodeArrives, Auth!DeviceCodeFails,
         Proved!DeviceCodeFails, Auth!CancelLogin, Proved!CancelLogin, Auth!Cancelling,
         Proved!Cancelling, Auth!Cancelled, Proved!Cancelled, Auth!RunStep, Proved!RunStep,
         Auth!RunStarts, Proved!RunStarts, Auth!Over, Proved!Over, Auth!Emit, Proved!Emit,
         Auth!Outcome, Proved!Outcome, Auth!RunCancelled, Proved!RunCancelled, Auth!StopAsked,
         Proved!StopAsked, Auth!EndRun, Proved!EndRun, Auth!FinishJob, Proved!FinishJob,
         Auth!RunFails, Proved!RunFails, Auth!Authorized, Proved!Authorized, Auth!SaveCredentials,
         Proved!SaveCredentials, Auth!MaySave, Proved!MaySave, Auth!JobIsCurrent,
         Proved!JobIsCurrent, Auth!Establish, Proved!Establish, Auth!Established,
         Proved!Established, Auth!NoTokens, Proved!NoTokens, Auth!SignedIn, Proved!SignedIn,
         Auth!EmitAuthenticated, Proved!EmitAuthenticated, Auth!CleanUp, Proved!CleanUp,
         Auth!LoginUnderWay, Proved!LoginUnderWay, Auth!LoginActive, Proved!LoginActive,
         Auth!HasBeginReservation, Proved!HasBeginReservation, Auth!Unsigned, Proved!Unsigned,
         Auth!Callers, Proved!Callers, Auth!RequestToken, Proved!RequestToken, Auth!Answer,
         Proved!Answer, Auth!IdleGetter, Proved!IdleGetter, Auth!Probed, Proved!Probed,
         Auth!IdleProbe, Proved!IdleProbe, Auth!loginVars, Proved!loginVars, Auth!GetterStep,
         Proved!GetterStep, Auth!EnterRefresh, Proved!EnterRefresh, Auth!GetterReturns,
         Proved!GetterReturns, Auth!LoadCredentials, Proved!LoadCredentials, Auth!RefreshIsCurrent,
         Proved!RefreshIsCurrent, Auth!GetterGoto, Proved!GetterGoto, Auth!NoneFound,
         Proved!NoneFound, Auth!InvalidFound, Proved!InvalidFound, Auth!ValidFound,
         Proved!ValidFound, Auth!PublishLoaded, Proved!PublishLoaded, Auth!RefreshAbandoned,
         Proved!RefreshAbandoned, Auth!RefreshRefused, Proved!RefreshRefused, Auth!RefreshGranted,
         Proved!RefreshGranted, Auth!MayRotate, Proved!MayRotate, Auth!DeleteIfCurrent,
         Proved!DeleteIfCurrent, Auth!DropRequest, Proved!DropRequest, Auth!NoCall, Proved!NoCall,
         Auth!DetachedEnds, Proved!DetachedEnds, Auth!ProbeStart, Proved!ProbeStart,
         Auth!ProbeStep, Proved!ProbeStep, Auth!ProbeGeneration, Proved!ProbeGeneration,
         Auth!ProbeAnswered, Proved!ProbeAnswered, Auth!ProbeEnds, Proved!ProbeEnds,
         Auth!ProbeMayWrite, Proved!ProbeMayWrite, Auth!RequestLogout, Proved!RequestLogout,
         Auth!Logout, Proved!Logout, Auth!Expire, Proved!Expire, Auth!Aged, Proved!Aged,
         Auth!Older, Proved!Older

\* The authentication of a behaviour of the commands behaves as the module proved about.
LEMMA SignInRuns == CommandsSpec => Proved!Spec
  <1>1. Proved!vars' = Proved!vars <=> signInVars' = signInVars
    BY DEF signInVars, Proved!vars, Proved!credentialVars, Proved!loginVars, Proved!otherVars,
           Proved!keychainVars
  <1>2. CommandsInit => Proved!Init
    BY SameInit DEF CommandsInit
  <1>3. [CommandsNext]_<<vars, part, signInVars>> => [Proved!Next]_(Proved!vars)
    BY <1>1, SameNext DEF CommandsNext
  <1>. QED BY <1>2, <1>3, PTL DEF CommandsSpec, Proved!Spec

\* The assumption on the constants is the one the instance makes.
LEMMA SameAssumption == Proved!AuthenticationAssumption
  BY CommandsAssumption DEF Auth!AuthenticationAssumption, Proved!AuthenticationAssumption

-----------------------------------------------------------------------------
(***************************************************************************)
(* The promises.                                                           *)
(***************************************************************************)

\* A logout that succeeded leaves no credentials, and none come back without a new login
\* (AuthService::logout in auth/service.rs).
THEOREM LogoutDeletes == CommandsSpec => []LogoutDeletesCredentials
  <1>1. Proved!LogoutDeletesCredentials => LogoutDeletesCredentials
    BY DEF LogoutDeletesCredentials, Auth!LogoutDeletesCredentials, Proved!LogoutDeletesCredentials,
           Auth!NoTokens, Proved!NoTokens
  <1>2. Proved!Spec => []Proved!LogoutDeletesCredentials
    BY SameAssumption, Proved!LogoutDeletes
  <1>. QED BY <1>1, <1>2, SignInRuns, PTL

\* Accounts do not mix, in the keychain or in the principal (AuthService::run,
\* begin_github_auth).
THEOREM AccountsApart == CommandsSpec => []AccountsDoNotMix
  <1>1. Proved!LastLoginOwnsTheStore /\ Proved!NoPrincipalDuringLogin => AccountsDoNotMix
    BY DEF AccountsDoNotMix, Auth!LastLoginOwnsTheStore, Proved!LastLoginOwnsTheStore,
           Auth!NoPrincipalDuringLogin, Proved!NoPrincipalDuringLogin,
           Auth!LoginUnderWay, Proved!LoginUnderWay, Auth!LoginActive, Proved!LoginActive,
           Auth!HasBeginReservation, Proved!HasBeginReservation
  <1>2. Proved!Spec => [](Proved!LastLoginOwnsTheStore /\ Proved!NoPrincipalDuringLogin)
    BY SameAssumption, Proved!AccountsApart
  <1>. QED BY <1>1, <1>2, SignInRuns, PTL

\* A cancellation that was accepted leaves nothing of the login behind
\* (cancel_github_auth, AuthService::run).
THEOREM CancelKeeps == CommandsSpec => []CancelLeavesNothing
  <1>1. Proved!CancelLeavesNothing => CancelLeavesNothing
    BY DEF CancelLeavesNothing, Auth!CancelLeavesNothing, Proved!CancelLeavesNothing
  <1>2. Proved!Spec => []Proved!CancelLeavesNothing
    BY SameAssumption, Proved!CancelKeeps
  <1>. QED BY <1>1, <1>2, SignInRuns, PTL

\* Every login that is over was answered (LifecycleAuthEventSink).
THEOREM LoginsAnswered == CommandsSpec => []EveryLoginIsAnswered
  <1>1. Proved!EveryLoginIsAnswered => EveryLoginIsAnswered
    BY DEF EveryLoginIsAnswered, Auth!EveryLoginIsAnswered, Proved!EveryLoginIsAnswered,
           Auth!At, Proved!At
  <1>2. Proved!Spec => []Proved!EveryLoginIsAnswered
    BY SameAssumption, Proved!LoginsAnswered
  <1>. QED BY <1>1, <1>2, SignInRuns, PTL

=============================================================================
