------------------------- MODULE AuthenticationProofs -------------------------
(***************************************************************************)
(* What a sign-in, a logout and a token rotation that overlap leave in the *)
(* keychain and tell the window, for every set of logins and every number  *)
(* of generations: the types, the inductive invariant, and the promises of *)
(* Authentication that follow from it.                                     *)
(***************************************************************************)
EXTENDS Authentication, TLAPS

(***************************************************************************)
(* The inductive invariant.                                                *)
(***************************************************************************)

Generation == lifecycle.generation

\* Where a login is before it stored anything, while its run lasts, while the program
\* tells its window that it is signed in, and where the window was told something.
Early == {"unused", "registered", "requesting", "starting", "polling", "identified", "refused"}
Running == {"starting", "polling", "identified", "saved"}
Signing == {"saved", "emitting", "cleaning"}
Told == {"cleaning", "over", "unclean"}

\* The job of a login runs until its command failed or its window was told the outcome.
JobOK(r) ==
  /\ jobs[r] = "free" <=> login[r].pc \in {"unused", "refused"} \cup Told
  /\ told[r] = "nothing" <=> login[r].pc \notin Told
  /\ login[r].cancelled => jobs[r] # "running" /\ told[r] \in {"nothing", "cancelled"}
  /\ login[r].pc = "unused" => ~login[r].cancelled
  /\ login[r].pc \in {"unused", "registered"} => login[r].gen = 0

\* A generation belongs to the one login or logout that began it.
GenerationsOK ==
  /\ Generation >= 1
  /\ logout.gen <= Generation /\ getter.gen <= Generation /\ detached.gen <= Generation
  /\ \A r \in Logins :
       /\ login[r].gen <= Generation
       /\ login[r].gen = Generation => logout.gen # Generation
  /\ \A r, q \in Logins : login[r].gen = Generation /\ login[q].gen = Generation => r = q

\* What is active or reserved is the login of the present generation, and no token
\* request entered under it.
ActivityOK(r) ==
  /\ lifecycle.active[r] # 0 => login[r].pc \in Running /\ login[r].gen = Generation
  /\ login[r].pc \in Running /\ login[r].gen = Generation => lifecycle.active[r] # 0
  /\ login[r].pc = "starting" /\ lifecycle.active[r] # 0 => r \in lifecycle.pending
  /\ reserved[r] # 0 <=> login[r].pc = "requesting"
  /\ login[r].pc \in {"requesting", "saved"} => login[r].gen = Generation
  /\ login[r].pc = "requesting" => reserved[r] = Generation /\ logout.pc = "idle"
  /\ login[r].pc \in Running \cup {"requesting"} /\ login[r].gen = Generation =>
       getter.gen # Generation /\ detached.gen # Generation

LoginsOK == GenerationsOK /\ \A r \in Logins : JobOK(r) /\ ActivityOK(r)

\* After a logout nothing that can come back is in the keychain or on its way there.
LoggedOutOK ==
  logout.gen = Generation /\ ~stray =>
    /\ store = NoTokens
    /\ getter.pc = "refreshing" => getter.gen # Generation
    /\ detached.op = "save" => detached.gen # Generation

\* After a login nothing else is.
LoggedInOK(r) ==
  login[r].gen = Generation /\ (login[r].pc \in Signing \/ told[r] = "authenticated") /\ ~stray =>
    /\ store.by \in {r, Nobody}
    /\ getter.pc = "refreshing" /\ getter.gen = Generation => getter.tokens.by = r
    /\ detached.op = "save" /\ detached.gen = Generation => detached.tokens.by = r

\* Only tokens that are old are rotated, and only a rotation stores them late.
RotationOK ==
  /\ getter.pc = "refreshing" => getter.tokens.life # "fresh" /\ getter.tokens.by # Nobody
  /\ detached.op # "save" => detached.tokens = NoTokens

\* Tokens are nowhere before their login stored them, too young to be rotated until the
\* window was told, and gone with the login that was cancelled.
TokensOK(r) ==
  /\ login[r].pc \in Early => store.by # r /\ getter.tokens.by # r /\ detached.tokens.by # r
  /\ login[r].pc \in Signing =>
       /\ store.by = r => store.life = "fresh"
       /\ getter.tokens.by = r => getter.tokens.life = "fresh"
       /\ detached.tokens.by # r
  /\ login[r].cancelled /\ login[r].pc = "over" /\ login[r].gen = Generation =>
       /\ store.by # r /\ detached.tokens.by # r
       /\ getter.pc = "refreshing" => getter.tokens.by # r

KeychainOK == LoggedOutOK /\ RotationOK /\ \A r \in Logins : LoggedInOK(r) /\ TokensOK(r)

AuthInv == TypeOK /\ LoginsOK /\ KeychainOK /\ NoPrincipalDuringLogin

-----------------------------------------------------------------------------
(***************************************************************************)
(* The types.                                                              *)
(***************************************************************************)

LoginStates == [pc : LoginPcs, gen : Nat, cancelled : BOOLEAN, revoked : BOOLEAN]
TokenStates == Tokens \cup {NoTokens}
Lifecycles == [generation : Nat, active : [Jobs -> Nat], pending : SUBSET Logins]

\* Moving a login on, or ending its run.
LEMMA LoginMoves ==
  ASSUME TypeOK, NEW r \in Logins, NEW pc \in LoginPcs
  PROVE  /\ Goto(r, pc) =>
              /\ login' \in [Logins -> LoginStates]
              /\ login'[r] = [login[r] EXCEPT !.pc = pc]
              /\ \A q \in Logins \ {r} : login'[q] = login[q]
         /\ Over(r) =>
              /\ login' \in [Logins -> LoginStates]
              /\ login'[r] = [login[r] EXCEPT !.pc = "over", !.revoked = FALSE]
              /\ \A q \in Logins \ {r} : login'[q] = login[q]
  <1>1. login \in [Logins -> LoginStates] /\ login[r] \in LoginStates
    BY DEF TypeOK, LoginStates
  <1>2. ASSUME Goto(r, pc)
        PROVE  /\ login' \in [Logins -> LoginStates]
               /\ login'[r] = [login[r] EXCEPT !.pc = pc]
               /\ \A q \in Logins \ {r} : login'[q] = login[q]
    <2>1. login' = [login EXCEPT ![r] = [login[r] EXCEPT !.pc = pc]]
      BY <1>2 DEF Goto
    <2>2. [login[r] EXCEPT !.pc = pc] \in LoginStates
      BY <1>1 DEF LoginStates
    <2>. QED BY <1>1, <2>1, <2>2
  <1>3. ASSUME Over(r)
        PROVE  /\ login' \in [Logins -> LoginStates]
               /\ login'[r] = [login[r] EXCEPT !.pc = "over", !.revoked = FALSE]
               /\ \A q \in Logins \ {r} : login'[q] = login[q]
    <2>1. login' = [login EXCEPT ![r] = [login[r] EXCEPT !.pc = "over", !.revoked = FALSE]]
      BY <1>1, <1>3 DEF Over
    <2>2. [login[r] EXCEPT !.pc = "over", !.revoked = FALSE] \in LoginStates
      BY <1>1 DEF LoginStates, LoginPcs
    <2>. QED BY <1>1, <2>1, <2>2
  <1>. QED BY <1>2, <1>3

\* Ending the job of a login, with or without a word to the window.
LEMMA JobEnds ==
  ASSUME TypeOK, NEW r \in Logins, FinishRequest(r)
  PROVE  /\ jobs' \in [Logins -> {"free", "running", "cancelling"}] /\ jobs'[r] = "free"
         /\ \A q \in Logins \ {r} : jobs'[q] = jobs[q]
  BY DEF TypeOK, FinishRequest

LEMMA EmitTells ==
  ASSUME TypeOK, NEW r \in Logins, NEW event \in {"authenticated", "failed", "cancelled"},
         Emit(r, event)
  PROVE  /\ jobs' \in [Logins -> {"free", "running", "cancelling"}] /\ jobs'[r] = "free"
         /\ told' \in [Logins -> {"nothing", "authenticated", "failed", "cancelled"}]
         /\ told'[r] = Outcome(r, event)
         /\ \A q \in Logins \ {r} : jobs'[q] = jobs[q] /\ told'[q] = told[q]
  <1>1. told \in [Logins -> {"nothing", "authenticated", "failed", "cancelled"}]
    BY DEF TypeOK
  <1>2. Outcome(r, event) \in {"nothing", "authenticated", "failed", "cancelled"}
    BY <1>1 DEF Outcome
  <1>3. told' = [told EXCEPT ![r] = Outcome(r, event)]
    BY DEF Emit
  <1>. HIDE DEF Outcome
  <1>4. /\ told' \in [Logins -> {"nothing", "authenticated", "failed", "cancelled"}]
        /\ told'[r] = Outcome(r, event) /\ \A q \in Logins \ {r} : told'[q] = told[q]
    BY <1>1, <1>2, <1>3
  <1>. QED BY <1>4, JobEnds DEF Emit

\* Ending a job of the lifecycle.
LEMMA ActiveEnds ==
  ASSUME TypeOK, NEW j \in Jobs, FinishJob(j)
  PROVE  /\ lifecycle' \in Lifecycles /\ lifecycle'.generation = lifecycle.generation
         /\ lifecycle'.pending = lifecycle.pending /\ lifecycle'.active[j] = 0
         /\ \A k \in Jobs \ {j} : lifecycle'.active[k] = lifecycle.active[k]
  <1>1. lifecycle \in Lifecycles /\ lifecycle.active \in [Jobs -> Nat]
    BY DEF TypeOK, Lifecycles
  <1>2. lifecycle' = [lifecycle EXCEPT !.active = [lifecycle.active EXCEPT ![j] = 0]]
    BY DEF FinishJob
  <1>3. [lifecycle.active EXCEPT ![j] = 0] \in [Jobs -> Nat]
    BY <1>1
  <1>. QED BY <1>1, <1>2, <1>3 DEF Lifecycles

-----------------------------------------------------------------------------
(***************************************************************************)
(* Steps of one login.                                                     *)
(***************************************************************************)

\* The other logins, and the generation, are left alone.
OthersKept(r) ==
  /\ lifecycle'.generation = lifecycle.generation
  /\ \A q \in Logins \ {r} :
       /\ login'[q] = login[q] /\ jobs'[q] = jobs[q] /\ told'[q] = told[q]
       /\ reserved'[q] = reserved[q] /\ lifecycle'.active[q] = lifecycle.active[q]
       /\ q \in lifecycle'.pending <=> q \in lifecycle.pending

\* A login does not leave its generation, and its entry among the active or reserved ones
\* is not a new one.
OwnStep(r) ==
  /\ OthersKept(r)
  /\ login'[r].gen = login[r].gen
  /\ lifecycle'.active[r] # 0 => lifecycle.active[r] # 0 \/ reserved[r] = Generation
  /\ reserved'[r] = Generation => lifecycle.active[r] # 0 \/ reserved[r] = Generation

LEMMA OneLogin ==
  ASSUME LoginsOK, NEW r \in Logins, OthersKept(r), login'[r].gen = login[r].gen,
         UNCHANGED <<getter, detached, logout>>, JobOK(r)', ActivityOK(r)'
  PROVE  LoginsOK'
  <1>1. ASSUME NEW q \in Logins \ {r} PROVE JobOK(q)' /\ ActivityOK(q)'
    <2>1. JobOK(q) /\ ActivityOK(q)
      BY DEF LoginsOK
    <2>2. JobOK(q)'
      BY <2>1 DEF JobOK, OthersKept
    <2>3. ActivityOK(q)'
      BY <2>1 DEF ActivityOK, OthersKept, Generation
    <2>. QED BY <2>2, <2>3
  <1>2. \A q \in Logins : login'[q].gen = login[q].gen
    BY DEF OthersKept
  <1>3. GenerationsOK'
    <2>1. GenerationsOK /\ Generation' = Generation
      BY DEF LoginsOK, OthersKept, Generation
    <2>. QED BY <1>2, <2>1 DEF GenerationsOK
  <1>. QED BY <1>1, <1>3 DEF LoginsOK

\* What keeps the principal empty: no login is under way that was not.
LEMMA UnderWay ==
  ASSUME NEW r \in Logins, OwnStep(r), LoginUnderWay'
  PROVE  LoginUnderWay
  <1>1. PICK q \in Logins : lifecycle'.active[q] # 0 \/ reserved'[q] = lifecycle.generation
    BY DEF LoginUnderWay, LoginActive, HasBeginReservation, OwnStep, OthersKept
  <1>2. lifecycle.active[q] # 0 \/ reserved[q] = lifecycle.generation
    BY <1>1 DEF OwnStep, OthersKept, Generation
  <1>. QED BY <1>2 DEF LoginUnderWay, LoginActive, HasBeginReservation

\* A step that touches neither the keychain nor what may still be written there.
LEMMA QuietMove ==
  ASSUME AuthInv, NEW r \in Logins, OwnStep(r), TypeOK', JobOK(r)', ActivityOK(r)',
         UNCHANGED <<store, principal, getter, detached, stray, logout>>,
         login'[r].pc \in Early => login[r].pc \in Early,
         login'[r].pc \in Signing => login[r].pc \in Signing,
         told'[r] = "authenticated" => told[r] = "authenticated" \/ login[r].pc = "emitting",
         login'[r].cancelled /\ login'[r].pc = "over" /\ login[r].gen = Generation =>
           login[r].pc \in Early
  PROVE  AuthInv'
  <1>1. LoginsOK'
    BY OneLogin DEF AuthInv, OwnStep
  <1>2. NoPrincipalDuringLogin'
    BY UnderWay DEF AuthInv, NoPrincipalDuringLogin
  <1>3. Generation' = Generation
    BY DEF OwnStep, OthersKept, Generation
  <1>4. LoggedOutOK' /\ RotationOK'
    BY <1>3 DEF AuthInv, KeychainOK, LoggedOutOK, RotationOK, NoTokens
  <1>5. ASSUME NEW q \in Logins \ {r} PROVE LoggedInOK(q)' /\ TokensOK(q)'
    <2>1. /\ LoggedInOK(q) /\ TokensOK(q)
          /\ login'[q] = login[q] /\ jobs'[q] = jobs[q] /\ told'[q] = told[q]
      BY DEF AuthInv, KeychainOK, OwnStep, OthersKept
    <2>. QED BY <1>3, <2>1 DEF LoggedInOK, TokensOK
  <1>6. LoggedInOK(r)'
    <2>1. LoggedInOK(r) /\ login'[r].gen = login[r].gen
      BY DEF AuthInv, KeychainOK, OwnStep
    <2>2. (login'[r].pc \in Signing \/ told'[r] = "authenticated") =>
            (login[r].pc \in Signing \/ told[r] = "authenticated")
      BY DEF Signing
    <2>. QED BY <1>3, <2>1, <2>2 DEF LoggedInOK
  <1>7. TokensOK(r)'
    <2>1. TokensOK(r) /\ login'[r].gen = login[r].gen
      BY DEF AuthInv, KeychainOK, OwnStep
    <2>. QED BY <1>3, <2>1 DEF TokensOK
  <1>. QED BY <1>1, <1>2, <1>4, <1>5, <1>6, <1>7 DEF AuthInv, KeychainOK

\* The types after a step of a login that leaves the rest alone.
LEMMA LoginTyped ==
  ASSUME TypeOK, UNCHANGED otherVars,
         store' \in TokenStates, session' \in [kind : Kinds, tokens : TokenStates],
         principal' \in Accounts \cup {Nobody}, lifecycle' \in Lifecycles,
         reserved' \in [Logins -> Nat],
         jobs' \in [Logins -> {"free", "running", "cancelling"}],
         login' \in [Logins -> LoginStates],
         told' \in [Logins -> {"nothing", "authenticated", "failed", "cancelled"}]
  PROVE  TypeOK'
  BY DEF TypeOK, otherVars, keychainVars, TokenStates, LoginStates, Lifecycles, Tokens, NoTokens

\* What is known of a login before it moves.
LEMMA LoginKnown ==
  ASSUME AuthInv, NEW r \in Logins
  PROVE  /\ TypeOK /\ GenerationsOK /\ JobOK(r) /\ ActivityOK(r) /\ LoggedInOK(r) /\ TokensOK(r)
         /\ LoggedOutOK /\ RotationOK
         /\ store \in TokenStates /\ session \in [kind : Kinds, tokens : TokenStates]
         /\ principal \in Accounts \cup {Nobody} /\ lifecycle \in Lifecycles
         /\ reserved \in [Logins -> Nat] /\ lifecycle.active \in [Jobs -> Nat]
         /\ jobs \in [Logins -> {"free", "running", "cancelling"}]
         /\ login \in [Logins -> LoginStates] /\ login[r] \in LoginStates
         /\ told \in [Logins -> {"nothing", "authenticated", "failed", "cancelled"}]
         /\ Generation \in Nat /\ r \in Jobs
  BY DEF AuthInv, LoginsOK, KeychainOK, TypeOK, TokenStates, Lifecycles, LoginStates, Jobs, Generation

LEMMA RegisterLoginStep ==
  ASSUME AuthInv, NEW r \in Logins, RegisterLogin(r)
  PROVE  AuthInv'
  <1>1. /\ TypeOK /\ JobOK(r) /\ ActivityOK(r) /\ login[r] \in LoginStates
        /\ jobs \in [Logins -> {"free", "running", "cancelling"}]
    BY LoginKnown
  <1>2. /\ login[r].pc = "unused" /\ Goto(r, "registered") /\ jobs' = [jobs EXCEPT ![r] = "running"]
        /\ UNCHANGED <<store, session, principal, lifecycle, reserved, told, otherVars>>
    BY DEF RegisterLogin, At, credentialVars
  <1>3. /\ login' \in [Logins -> LoginStates] /\ login'[r] = [login[r] EXCEPT !.pc = "registered"]
        /\ \A q \in Logins \ {r} : login'[q] = login[q]
    BY <1>1, <1>2, LoginMoves DEF LoginPcs
  <1>4. /\ jobs' \in [Logins -> {"free", "running", "cancelling"}] /\ jobs'[r] = "running"
        /\ \A q \in Logins \ {r} : jobs'[q] = jobs[q]
    BY <1>1, <1>2
  <1>5. /\ login'[r].pc = "registered" /\ login'[r].gen = login[r].gen
        /\ login'[r].cancelled = login[r].cancelled
    BY <1>1, <1>3 DEF LoginStates
  <1>6. TypeOK'
    BY <1>2, <1>3, <1>4, LoginKnown, LoginTyped
  <1>7. JobOK(r)'
    BY <1>1, <1>2, <1>4, <1>5 DEF JobOK, Told
  <1>8. ActivityOK(r)'
    BY <1>1, <1>2, <1>5 DEF ActivityOK, Running, Generation, otherVars, keychainVars
  <1>9. OwnStep(r)
    BY <1>2, <1>3, <1>4, <1>5 DEF OwnStep, OthersKept
  <1>. QED BY <1>2, <1>5, <1>6, <1>7, <1>8, <1>9, QuietMove
           DEF otherVars, keychainVars, Early, Signing

\* A login whose command failed before it ran.
LEMMA RefuseKeeps ==
  ASSUME AuthInv, NEW r \in Logins, login[r].pc \in {"registered", "requesting"}, Refuse(r),
         UNCHANGED <<credentialVars, lifecycle, told, otherVars>>,
         reserved' = [reserved EXCEPT ![r] = 0]
  PROVE  AuthInv'
  <1>1. /\ TypeOK /\ JobOK(r) /\ ActivityOK(r) /\ login[r] \in LoginStates
        /\ reserved \in [Logins -> Nat] /\ Generation \in Nat /\ GenerationsOK
    BY LoginKnown
  <1>2. /\ UNCHANGED <<store, session, principal, lifecycle, told, otherVars>>
        /\ Goto(r, "refused") /\ FinishRequest(r)
    BY DEF credentialVars, Refuse
  <1>3. /\ login' \in [Logins -> LoginStates] /\ login'[r] = [login[r] EXCEPT !.pc = "refused"]
        /\ \A q \in Logins \ {r} : login'[q] = login[q]
    BY <1>1, <1>2, LoginMoves DEF LoginPcs
  <1>4. /\ jobs' \in [Logins -> {"free", "running", "cancelling"}] /\ jobs'[r] = "free"
        /\ \A q \in Logins \ {r} : jobs'[q] = jobs[q]
    BY <1>1, <1>2, JobEnds
  <1>5. /\ login'[r].pc = "refused" /\ login'[r].gen = login[r].gen
        /\ login'[r].cancelled = login[r].cancelled
    BY <1>1, <1>3 DEF LoginStates
  <1>6. /\ reserved' \in [Logins -> Nat] /\ reserved'[r] = 0
        /\ \A q \in Logins \ {r} : reserved'[q] = reserved[q]
    BY <1>1
  <1>7. TypeOK'
    BY <1>2, <1>3, <1>4, <1>6, LoginKnown, LoginTyped
  <1>8. JobOK(r)'
    BY <1>1, <1>2, <1>4, <1>5 DEF JobOK, Told
  <1>9. ActivityOK(r)'
    BY <1>1, <1>2, <1>5, <1>6 DEF ActivityOK, Running, Generation, otherVars, keychainVars
  <1>10. OwnStep(r)
    BY <1>1, <1>2, <1>3, <1>4, <1>5, <1>6 DEF OwnStep, OthersKept, GenerationsOK
  <1>. QED BY <1>2, <1>5, <1>7, <1>8, <1>9, <1>10, QuietMove
           DEF otherVars, keychainVars, Early, Signing

LEMMA BeginRefusedStep ==
  ASSUME AuthInv, NEW r \in Logins, BeginRefused(r)
  PROVE  AuthInv'
  <1>1. reserved \in [Logins -> Nat] /\ ActivityOK(r) /\ login[r].pc = "registered"
    BY LoginKnown DEF BeginRefused, At
  <1>2. reserved[r] = 0
    BY <1>1 DEF ActivityOK
  <1>3. reserved' = [reserved EXCEPT ![r] = 0]
    BY <1>1, <1>2 DEF BeginRefused
  <1>. QED BY <1>1, <1>3, RefuseKeeps DEF BeginRefused

LEMMA DeviceCodeFailsStep ==
  ASSUME AuthInv, NEW r \in Logins, DeviceCodeFails(r)
  PROVE  AuthInv'
  BY RefuseKeeps DEF DeviceCodeFails, At

\* The reserved login becomes active.
LEMMA DeviceCodeArrivesStep ==
  ASSUME AuthInv, NEW r \in Logins, DeviceCodeArrives(r)
  PROVE  AuthInv'
  <1>1. /\ TypeOK /\ JobOK(r) /\ ActivityOK(r) /\ login[r] \in LoginStates
        /\ reserved \in [Logins -> Nat] /\ Generation \in Nat /\ GenerationsOK
        /\ lifecycle \in Lifecycles /\ lifecycle.active \in [Jobs -> Nat] /\ r \in Jobs
    BY LoginKnown
  <1>2. login[r].pc = "requesting" /\ lifecycle.generation = login[r].gen
    BY <1>1 DEF DeviceCodeArrives, At, ActivityOK, Generation
  <1>3. /\ UNCHANGED <<store, session, principal, jobs, told, otherVars>>
        /\ Goto(r, "starting") /\ reserved' = [reserved EXCEPT ![r] = 0]
        /\ lifecycle' = [lifecycle EXCEPT !.active[r] = login[r].gen, !.pending = @ \cup {r}]
    BY <1>2 DEF DeviceCodeArrives, credentialVars
  <1>4. /\ login' \in [Logins -> LoginStates] /\ login'[r] = [login[r] EXCEPT !.pc = "starting"]
        /\ \A q \in Logins \ {r} : login'[q] = login[q]
    BY <1>1, <1>3, LoginMoves DEF LoginPcs
  <1>5. /\ login'[r].pc = "starting" /\ login'[r].gen = login[r].gen
        /\ login'[r].cancelled = login[r].cancelled /\ login[r].gen \in Nat
    BY <1>1, <1>4 DEF LoginStates
  <1>6. /\ reserved' \in [Logins -> Nat] /\ reserved'[r] = 0
        /\ \A q \in Logins \ {r} : reserved'[q] = reserved[q]
    BY <1>1, <1>3
  <1>7. /\ lifecycle' \in Lifecycles /\ lifecycle'.generation = lifecycle.generation
        /\ lifecycle'.pending = lifecycle.pending \cup {r}
        /\ lifecycle'.active[r] = login[r].gen
        /\ \A q \in Logins \ {r} : lifecycle'.active[q] = lifecycle.active[q]
    <2>1. lifecycle'.active = [lifecycle.active EXCEPT ![r] = login[r].gen]
          /\ lifecycle'.generation = lifecycle.generation
          /\ lifecycle'.pending = lifecycle.pending \cup {r}
      BY <1>1, <1>3 DEF Lifecycles
    <2>2. [lifecycle.active EXCEPT ![r] = login[r].gen] \in [Jobs -> Nat]
      BY <1>1, <1>5
    <2>3. lifecycle' \in Lifecycles
      BY <1>1, <1>3, <2>2 DEF Lifecycles
    <2>4. \A q \in Logins \ {r} : q \in Jobs
      BY DEF Jobs
    <2>. QED BY <1>1, <2>1, <2>3, <2>4
  <1>8. TypeOK'
    BY <1>3, <1>4, <1>6, <1>7, LoginKnown, LoginTyped
  <1>9. JobOK(r)'
    BY <1>1, <1>2, <1>3, <1>5 DEF JobOK, Told
  <1>10. ActivityOK(r)'
    BY <1>1, <1>2, <1>3, <1>5, <1>6, <1>7
       DEF ActivityOK, Running, Generation, otherVars, keychainVars, GenerationsOK
  <1>11. OwnStep(r)
    <2>1. reserved[r] = Generation
      BY <1>1, <1>2 DEF ActivityOK
    <2>2. \A q \in Logins \ {r} : q \in lifecycle'.pending <=> q \in lifecycle.pending
      BY <1>7
    <2>. QED BY <1>3, <1>4, <1>5, <1>6, <1>7, <2>1, <2>2 DEF OwnStep, OthersKept
  <1>. QED BY <1>2, <1>3, <1>5, <1>8, <1>9, <1>10, <1>11, QuietMove
           DEF otherVars, keychainVars, Early, Signing

LEMMA CancelLoginStep ==
  ASSUME AuthInv, NEW r \in Logins, CancelLogin(r)
  PROVE  AuthInv'
  <1>1. /\ TypeOK /\ JobOK(r) /\ ActivityOK(r) /\ login[r] \in LoginStates
        /\ login \in [Logins -> LoginStates]
        /\ jobs \in [Logins -> {"free", "running", "cancelling"}]
    BY LoginKnown
  <1>2. /\ UNCHANGED <<store, session, principal, lifecycle, reserved, told, otherVars>>
        /\ jobs[r] = "running" /\ jobs' = Cancelling({r}) /\ login' = Cancelled({r})
    BY DEF CancelLogin, credentialVars
  <1>3. /\ login' \in [Logins -> LoginStates]
        /\ login'[r] = [login[r] EXCEPT !.cancelled = TRUE]
        /\ \A q \in Logins \ {r} : login'[q] = login[q]
    <2>1. \A q \in Logins : [login[q] EXCEPT !.cancelled = TRUE] \in LoginStates
      BY <1>1 DEF LoginStates
    <2>. QED BY <1>1, <1>2, <2>1 DEF Cancelled
  <1>4. /\ jobs' \in [Logins -> {"free", "running", "cancelling"}] /\ jobs'[r] = "cancelling"
        /\ \A q \in Logins \ {r} : jobs'[q] = jobs[q]
    BY <1>1, <1>2 DEF Cancelling
  <1>5. login'[r].pc = login[r].pc /\ login'[r].gen = login[r].gen
    BY <1>1, <1>3 DEF LoginStates
  <1>6. TypeOK'
    BY <1>2, <1>3, <1>4, LoginKnown, LoginTyped
  <1>7. login[r].pc \notin {"unused", "refused"} \cup Told /\ told[r] = "nothing"
    BY <1>1, <1>2 DEF JobOK
  <1>8. JobOK(r)'
    BY <1>1, <1>2, <1>4, <1>5, <1>7 DEF JobOK, Told
  <1>9. ActivityOK(r)'
    BY <1>1, <1>2, <1>5 DEF ActivityOK, Running, Generation, otherVars, keychainVars
  <1>10. OwnStep(r)
    BY <1>2, <1>3, <1>4, <1>5 DEF OwnStep, OthersKept
  <1>. QED BY <1>2, <1>5, <1>6, <1>7, <1>8, <1>9, <1>10, QuietMove
           DEF otherVars, keychainVars, Early, Signing, Told

\* A run that ends before it stored anything.
LEMMA EndRunKeeps ==
  ASSUME AuthInv, NEW r \in Logins, NEW event \in {"failed", "cancelled"},
         login[r].pc \in {"polling", "identified"}, EndRun(r, event),
         UNCHANGED <<credentialVars, reserved, otherVars>>
  PROVE  AuthInv'
  <1>1. /\ TypeOK /\ JobOK(r) /\ ActivityOK(r) /\ login[r] \in LoginStates /\ r \in Jobs
        /\ jobs \in [Logins -> {"free", "running", "cancelling"}]
    BY LoginKnown
  <1>2. /\ UNCHANGED <<store, session, principal, reserved, otherVars>>
        /\ FinishJob(r) /\ Emit(r, event) /\ Over(r)
    BY DEF credentialVars, EndRun
  <1>3. /\ login' \in [Logins -> LoginStates]
        /\ login'[r] = [login[r] EXCEPT !.pc = "over", !.revoked = FALSE]
        /\ \A q \in Logins \ {r} : login'[q] = login[q]
    BY <1>1, <1>2, LoginMoves DEF LoginPcs
  <1>4. /\ jobs' \in [Logins -> {"free", "running", "cancelling"}] /\ jobs'[r] = "free"
        /\ told' \in [Logins -> {"nothing", "authenticated", "failed", "cancelled"}]
        /\ told'[r] = Outcome(r, event)
        /\ \A q \in Logins \ {r} : jobs'[q] = jobs[q] /\ told'[q] = told[q]
    BY <1>1, <1>2, EmitTells
  <1>5. /\ login'[r].pc = "over" /\ login'[r].gen = login[r].gen
        /\ login'[r].cancelled = login[r].cancelled
    BY <1>1, <1>3 DEF LoginStates
  <1>6. /\ lifecycle' \in Lifecycles /\ lifecycle'.generation = lifecycle.generation
        /\ lifecycle'.pending = lifecycle.pending /\ lifecycle'.active[r] = 0
        /\ \A q \in Logins \ {r} : lifecycle'.active[q] = lifecycle.active[q]
    BY <1>1, <1>2, ActiveEnds DEF Jobs
  <1>7. TypeOK'
    BY <1>2, <1>3, <1>4, <1>6, LoginKnown, LoginTyped
  <1>8. told'[r] \in {"failed", "cancelled"} /\ (login[r].cancelled => told'[r] = "cancelled")
    BY <1>1, <1>4 DEF Outcome, JobOK, Told
  <1>9. JobOK(r)'
    BY <1>4, <1>5, <1>8 DEF JobOK, Told
  <1>10. ActivityOK(r)'
    BY <1>1, <1>2, <1>5, <1>6 DEF ActivityOK, Running
  <1>11. OwnStep(r)
    BY <1>2, <1>3, <1>4, <1>5, <1>6 DEF OwnStep, OthersKept
  <1>. QED BY <1>2, <1>5, <1>7, <1>8, <1>9, <1>10, <1>11, QuietMove
           DEF otherVars, keychainVars, Early, Signing

LEMMA RunEndsStep ==
  ASSUME AuthInv, NEW r \in Logins, RunCancelled(r) \/ RunFails(r)
  PROVE  AuthInv'
  BY EndRunKeeps DEF RunCancelled, RunFails

\* The task finds its authorization, or an invalidation took it.
LEMMA RunStartsStep ==
  ASSUME AuthInv, NEW r \in Logins, RunStarts(r)
  PROVE  AuthInv'
  <1>1. /\ TypeOK /\ JobOK(r) /\ ActivityOK(r) /\ login[r] \in LoginStates /\ r \in Jobs
        /\ jobs \in [Logins -> {"free", "running", "cancelling"}]
        /\ told \in [Logins -> {"nothing", "authenticated", "failed", "cancelled"}]
        /\ lifecycle \in Lifecycles
    BY LoginKnown
  <1>2. /\ login[r].pc = "starting"
        /\ lifecycle' = [lifecycle EXCEPT !.pending = lifecycle.pending \ {r}]
        /\ UNCHANGED <<store, session, principal, reserved, otherVars>>
    BY DEF RunStarts, At, credentialVars
  <1>3. /\ lifecycle' \in Lifecycles /\ lifecycle'.generation = lifecycle.generation
        /\ lifecycle'.pending = lifecycle.pending \ {r} /\ lifecycle'.active = lifecycle.active
    BY <1>1, <1>2 DEF Lifecycles
  <1>4. \A q \in Logins \ {r} : q \in lifecycle'.pending <=> q \in lifecycle.pending
    BY <1>3
  <1>5. CASE r \in lifecycle.pending
    <2>1. Goto(r, "polling") /\ jobs' = jobs /\ told' = told
      BY <1>5 DEF RunStarts
    <2>2. /\ login' \in [Logins -> LoginStates] /\ login'[r] = [login[r] EXCEPT !.pc = "polling"]
          /\ \A q \in Logins \ {r} : login'[q] = login[q]
      BY <1>1, <2>1, LoginMoves DEF LoginPcs
    <2>3. /\ login'[r].pc = "polling" /\ login'[r].gen = login[r].gen
          /\ login'[r].cancelled = login[r].cancelled
      BY <1>1, <2>2 DEF LoginStates
    <2>4. TypeOK'
      BY <1>1, <1>2, <1>3, <2>1, <2>2, LoginKnown, LoginTyped
    <2>5. JobOK(r)'
      BY <1>1, <1>2, <2>1, <2>3 DEF JobOK, Told
    <2>6. ActivityOK(r)'
      BY <1>1, <1>2, <1>3, <2>3 DEF ActivityOK, Running, Generation, otherVars, keychainVars
    <2>7. OwnStep(r)
      BY <1>2, <1>3, <1>4, <2>1, <2>2, <2>3 DEF OwnStep, OthersKept
    <2>. QED BY <1>2, <2>1, <2>3, <2>4, <2>5, <2>6, <2>7, QuietMove
             DEF otherVars, keychainVars, Early, Signing
  <1>6. CASE r \notin lifecycle.pending
    <2>. DEFINE event == IF login[r].cancelled THEN "cancelled" ELSE "failed"
    <2>1. Over(r) /\ Emit(r, event) /\ event \in {"authenticated", "failed", "cancelled"}
      BY <1>6 DEF RunStarts
    <2>. HIDE DEF event
    <2>2. /\ login' \in [Logins -> LoginStates]
          /\ login'[r] = [login[r] EXCEPT !.pc = "over", !.revoked = FALSE]
          /\ \A q \in Logins \ {r} : login'[q] = login[q]
      BY <1>1, <2>1, LoginMoves DEF LoginPcs
    <2>3. /\ jobs' \in [Logins -> {"free", "running", "cancelling"}] /\ jobs'[r] = "free"
          /\ told' \in [Logins -> {"nothing", "authenticated", "failed", "cancelled"}]
          /\ told'[r] = Outcome(r, event)
          /\ \A q \in Logins \ {r} : jobs'[q] = jobs[q] /\ told'[q] = told[q]
      BY <1>1, <2>1, EmitTells
    <2>4. /\ login'[r].pc = "over" /\ login'[r].gen = login[r].gen
          /\ login'[r].cancelled = login[r].cancelled
      BY <1>1, <2>2 DEF LoginStates
    <2>5. TypeOK'
      BY <1>2, <1>3, <2>2, <2>3, LoginKnown, LoginTyped
    <2>6. told'[r] \in {"failed", "cancelled"} /\ (login[r].cancelled => told'[r] = "cancelled")
      BY <1>1, <1>2, <2>3 DEF Outcome, JobOK, Told, event
    <2>7. JobOK(r)'
      BY <2>3, <2>4, <2>6 DEF JobOK, Told
    <2>8. ActivityOK(r)'
      BY <1>1, <1>2, <1>3, <1>6, <2>4 DEF ActivityOK, Running
    <2>9. OwnStep(r)
      BY <1>2, <1>3, <1>4, <2>2, <2>3, <2>4 DEF OwnStep, OthersKept
    <2>. QED BY <1>2, <2>4, <2>5, <2>6, <2>7, <2>8, <2>9, QuietMove
             DEF otherVars, keychainVars, Early, Signing
  <1>. QED BY <1>5, <1>6

LEMMA AuthorizedStep ==
  ASSUME AuthInv, NEW r \in Logins, Authorized(r)
  PROVE  AuthInv'
  <1>1. TypeOK /\ JobOK(r) /\ ActivityOK(r) /\ login[r] \in LoginStates
    BY LoginKnown
  <1>2. /\ login[r].pc = "polling" /\ Goto(r, "identified")
        /\ UNCHANGED <<store, session, principal, lifecycle, reserved, jobs, told, otherVars>>
    BY DEF Authorized, At, credentialVars
  <1>3. /\ login' \in [Logins -> LoginStates] /\ login'[r] = [login[r] EXCEPT !.pc = "identified"]
        /\ \A q \in Logins \ {r} : login'[q] = login[q]
    BY <1>1, <1>2, LoginMoves DEF LoginPcs
  <1>4. /\ login'[r].pc = "identified" /\ login'[r].gen = login[r].gen
        /\ login'[r].cancelled = login[r].cancelled
    BY <1>1, <1>3 DEF LoginStates
  <1>5. TypeOK'
    BY <1>2, <1>3, LoginKnown, LoginTyped
  <1>6. JobOK(r)'
    BY <1>1, <1>2, <1>4 DEF JobOK, Told
  <1>7. ActivityOK(r)'
    BY <1>1, <1>2, <1>4 DEF ActivityOK, Running, Generation, otherVars, keychainVars
  <1>8. OwnStep(r)
    BY <1>2, <1>3, <1>4 DEF OwnStep, OthersKept
  <1>. QED BY <1>2, <1>4, <1>5, <1>6, <1>7, <1>8, QuietMove
           DEF otherVars, keychainVars, Early, Signing

\* What only the login of the present generation may do is done to no other's harm.
LEMMA OwnerAlone ==
  ASSUME AuthInv, NEW r \in Logins, login[r].gen = Generation, NEW q \in Logins \ {r}
  PROVE  /\ login[q].gen # Generation /\ logout.gen # Generation
         /\ lifecycle.active[q] = 0 /\ reserved[q] # Generation
  <1>1. GenerationsOK /\ ActivityOK(q) /\ Generation \in Nat
    BY LoginKnown
  <1>2. login[q].gen # Generation /\ logout.gen # Generation /\ Generation >= 1
    BY <1>1 DEF GenerationsOK
  <1>3. lifecycle.active[q] = 0
    BY <1>1, <1>2 DEF ActivityOK
  <1>4. reserved[q] # Generation
    BY <1>1, <1>2 DEF ActivityOK
  <1>. QED BY <1>2, <1>3, <1>4

\* The keychain promises after a step of the login of the present generation.
LEMMA OwnerKeychain ==
  ASSUME AuthenticationAssumption, AuthInv, NEW r \in Logins, login[r].gen = Generation,
         OthersKept(r), login'[r].gen = login[r].gen,
         UNCHANGED <<getter, detached, stray, logout>>,
         store' = store \/ store'.by \in {r, Nobody}, LoggedInOK(r)', TokensOK(r)'
  PROVE  KeychainOK'
  <1>1. RotationOK /\ logout.gen # Generation /\ Generation' = Generation
    <2>1. GenerationsOK /\ RotationOK
      BY LoginKnown
    <2>. QED BY <2>1 DEF GenerationsOK, OthersKept, Generation
  <1>2. RotationOK' /\ LoggedOutOK'
    BY <1>1 DEF RotationOK, LoggedOutOK, NoTokens
  <1>3. ASSUME NEW q \in Logins \ {r} PROVE LoggedInOK(q)' /\ TokensOK(q)'
    <2>1. TokensOK(q) /\ login[q].gen # Generation /\ login'[q] = login[q]
      BY LoginKnown, OwnerAlone DEF OthersKept
    <2>2. LoggedInOK(q)'
      BY <1>1, <2>1 DEF LoggedInOK
    <2>3. store'.by = q => store' = store
      BY DEF AuthenticationAssumption
    <2>4. TokensOK(q)'
      BY <1>1, <2>1, <2>3 DEF TokensOK
    <2>. QED BY <2>2, <2>4
  <1>. QED BY <1>2, <1>3 DEF KeychainOK

\* The credentials of a login that is current and not cancelled are stored.
LEMMA SaveStep ==
  ASSUME AuthenticationAssumption, AuthInv, NEW r \in Logins, SaveCredentials(r)
  PROVE  AuthInv'
  <1>1. /\ TypeOK /\ JobOK(r) /\ ActivityOK(r) /\ TokensOK(r) /\ login[r] \in LoginStates
        /\ GenerationsOK /\ Generation \in Nat
    BY LoginKnown
  <1>2. /\ login[r].pc = "identified"
        /\ UNCHANGED <<session, principal, reserved, otherVars>>
    BY DEF SaveCredentials, At
  <1>3. CASE UNCHANGED store /\ EndRun(r, IF MaySave(r) THEN "failed" ELSE "cancelled")
    BY <1>2, <1>3, EndRunKeeps DEF credentialVars
  <1>4. CASE /\ MaySave(r) /\ store' = [by |-> r, life |-> "fresh"] /\ Goto(r, "saved")
             /\ UNCHANGED <<lifecycle, jobs, told>>
    <2>1. /\ login' \in [Logins -> LoginStates] /\ login'[r] = [login[r] EXCEPT !.pc = "saved"]
          /\ \A q \in Logins \ {r} : login'[q] = login[q]
      BY <1>1, <1>4, LoginMoves DEF LoginPcs
    <2>2. /\ login'[r].pc = "saved" /\ login'[r].gen = login[r].gen
          /\ login'[r].cancelled = login[r].cancelled
      BY <1>1, <2>1 DEF LoginStates
    <2>3. login[r].gen = Generation /\ lifecycle.active[r] # 0
      BY <1>1, <1>4 DEF MaySave, JobIsCurrent, Generation, GenerationsOK
    <2>4. store' \in TokenStates /\ store'.by = r /\ store'.life = "fresh"
      BY <1>4 DEF TokenStates, Tokens, Accounts, Lives
    <2>5. TypeOK'
      BY <1>2, <1>4, <2>1, <2>4, LoginKnown, LoginTyped
    <2>6. JobOK(r)'
      BY <1>1, <1>2, <1>4, <2>2 DEF JobOK, Told
    <2>7. ActivityOK(r)'
      BY <1>1, <1>2, <1>4, <2>2, <2>3
         DEF ActivityOK, Running, Generation, otherVars, keychainVars
    <2>8. OwnStep(r)
      BY <1>2, <1>4, <2>1, <2>2 DEF OwnStep, OthersKept
    <2>9. UNCHANGED <<getter, detached, stray, logout>>
      BY <1>2 DEF otherVars, keychainVars
    <2>10. LoginsOK'
      BY <2>2, <2>6, <2>7, <2>8, <2>9, OneLogin DEF AuthInv, OwnStep
    <2>11. NoPrincipalDuringLogin'
      BY <1>2, <2>8, UnderWay DEF AuthInv, NoPrincipalDuringLogin
    <2>12. getter.gen # Generation /\ detached.gen # Generation /\ Generation' = Generation
      BY <1>1, <1>2, <1>4, <2>3 DEF ActivityOK, Running, Generation
    <2>13. LoggedInOK(r)'
      BY <2>4, <2>9, <2>12 DEF LoggedInOK
    <2>14. TokensOK(r)'
      <3>1. getter.tokens.by # r /\ detached.tokens.by # r
        BY <1>1, <1>2 DEF TokensOK, Early
      <3>. QED BY <2>2, <2>4, <2>9, <3>1 DEF TokensOK, Early
    <2>15. KeychainOK'
      BY <2>2, <2>3, <2>4, <2>8, <2>9, <2>13, <2>14, OwnerKeychain DEF OwnStep
    <2>. QED BY <2>5, <2>10, <2>11, <2>15 DEF AuthInv
  <1>. QED BY <1>3, <1>4 DEF SaveCredentials

\* A login whose credentials are saved becomes the session, or takes them back.
LEMMA EstablishStep ==
  ASSUME AuthenticationAssumption, AuthInv, NEW r \in Logins, Establish(r)
  PROVE  AuthInv'
  <1>1. /\ TypeOK /\ JobOK(r) /\ ActivityOK(r) /\ TokensOK(r) /\ LoggedInOK(r) /\ RotationOK
        /\ login[r] \in LoginStates /\ r \in Jobs
        /\ GenerationsOK /\ Generation \in Nat /\ store \in TokenStates
        /\ jobs \in [Logins -> {"free", "running", "cancelling"}]
    BY LoginKnown
  <1>2. /\ login[r].pc = "saved" /\ login[r].gen = Generation
        /\ UNCHANGED <<reserved, otherVars, getter, detached, stray, logout>>
    BY <1>1 DEF Establish, At, ActivityOK, otherVars, keychainVars
  <1>3. FinishJob(r)
    BY DEF Establish, Established
  <1>4. /\ lifecycle' \in Lifecycles /\ lifecycle'.generation = lifecycle.generation
        /\ lifecycle'.pending = lifecycle.pending /\ lifecycle'.active[r] = 0
        /\ \A q \in Logins \ {r} : lifecycle'.active[q] = lifecycle.active[q]
    BY <1>1, <1>3, ActiveEnds DEF Jobs
  <1>5. Generation' = Generation
    BY <1>4 DEF Generation
  <1>6. CASE login[r].cancelled
    <2>1. /\ Emit(r, "cancelled") /\ UNCHANGED <<session, principal>>
          /\ \/ store' = NoTokens /\ Goto(r, "over")
             \/ UNCHANGED store /\ Goto(r, "unclean")
      BY <1>6 DEF Establish, Established
    <2>2. PICK pc \in {"over", "unclean"} :
            Goto(r, pc) /\ (pc = "over" => store' = NoTokens) /\ (pc = "unclean" => UNCHANGED store)
      BY <2>1
    <2>3. /\ login' \in [Logins -> LoginStates] /\ login'[r] = [login[r] EXCEPT !.pc = pc]
          /\ \A q \in Logins \ {r} : login'[q] = login[q]
      <3>1. pc \in LoginPcs
        BY DEF LoginPcs
      <3>. QED BY <1>1, <2>2, <3>1, LoginMoves
    <2>4. /\ login'[r].pc = pc /\ login'[r].gen = login[r].gen
          /\ login'[r].cancelled = login[r].cancelled
      BY <1>1, <2>3 DEF LoginStates
    <2>5. /\ jobs' \in [Logins -> {"free", "running", "cancelling"}] /\ jobs'[r] = "free"
          /\ told' \in [Logins -> {"nothing", "authenticated", "failed", "cancelled"}]
          /\ told'[r] = Outcome(r, "cancelled")
          /\ \A q \in Logins \ {r} : jobs'[q] = jobs[q] /\ told'[q] = told[q]
      BY <1>1, <2>1, EmitTells
    <2>6. told'[r] = "cancelled"
      BY <1>1, <1>2, <2>5 DEF Outcome, JobOK, Told
    <2>7. store' \in TokenStates /\ (pc = "over" => store'.by = Nobody)
      BY <1>1, <2>2 DEF TokenStates, NoTokens
    <2>8. TypeOK'
      BY <1>2, <1>4, <2>1, <2>3, <2>5, <2>7, LoginKnown, LoginTyped
    <2>9. JobOK(r)'
      BY <2>4, <2>5, <2>6 DEF JobOK, Told
    <2>10. ActivityOK(r)'
      BY <1>1, <1>2, <1>4, <2>4 DEF ActivityOK, Running
    <2>11. OwnStep(r)
      BY <1>2, <1>4, <2>3, <2>4, <2>5 DEF OwnStep, OthersKept
    <2>12. LoginsOK'
      BY <1>2, <2>9, <2>10, <2>11, OneLogin DEF AuthInv, OwnStep
    <2>13. NoPrincipalDuringLogin'
      BY <2>1, <2>11, UnderWay DEF AuthInv, NoPrincipalDuringLogin
    <2>14. LoggedInOK(r)'
      BY <2>4, <2>6 DEF LoggedInOK, Signing
    <2>15. TokensOK(r)'
      <3>1. detached.tokens.by # r /\ (getter.pc = "refreshing" => getter.tokens.by # r)
        BY <1>1, <1>2 DEF TokensOK, RotationOK, Signing
      <3>2. pc = "over" => store'.by # r
        BY <2>7 DEF AuthenticationAssumption
      <3>. QED BY <1>2, <2>4, <3>1, <3>2 DEF TokensOK, Early, Signing
    <2>16. store' = store \/ store'.by \in {r, Nobody}
      BY <2>2, <2>7
    <2>17. KeychainOK'
      BY <1>2, <2>11, <2>14, <2>15, <2>16, OwnerKeychain DEF OwnStep
    <2>. QED BY <2>8, <2>12, <2>13, <2>17 DEF AuthInv
  <1>7. CASE ~login[r].cancelled
    <2>1. /\ session' = SignedIn([by |-> r, life |-> "fresh"]) /\ principal' = r
          /\ Goto(r, "emitting") /\ UNCHANGED <<store, jobs, told>>
      BY <1>7 DEF Establish, Established
    <2>2. /\ login' \in [Logins -> LoginStates] /\ login'[r] = [login[r] EXCEPT !.pc = "emitting"]
          /\ \A q \in Logins \ {r} : login'[q] = login[q]
      BY <1>1, <2>1, LoginMoves DEF LoginPcs
    <2>3. /\ login'[r].pc = "emitting" /\ login'[r].gen = login[r].gen
          /\ login'[r].cancelled = login[r].cancelled
      BY <1>1, <2>2 DEF LoginStates
    <2>4. session' \in [kind : Kinds, tokens : TokenStates] /\ principal' \in Accounts \cup {Nobody}
      BY <2>1 DEF SignedIn, Kinds, TokenStates, Tokens, Accounts, Lives
    <2>5. TypeOK'
      BY <1>2, <1>4, <2>1, <2>2, <2>4, LoginKnown, LoginTyped
    <2>6. JobOK(r)'
      BY <1>1, <1>2, <2>1, <2>3 DEF JobOK, Told
    <2>7. ActivityOK(r)'
      BY <1>1, <1>2, <1>4, <2>3 DEF ActivityOK, Running
    <2>8. OwnStep(r)
      BY <1>2, <1>4, <2>1, <2>2, <2>3 DEF OwnStep, OthersKept
    <2>9. LoginsOK'
      BY <1>2, <2>6, <2>7, <2>8, OneLogin DEF AuthInv, OwnStep
    <2>10. NoPrincipalDuringLogin'
      <3>1. ASSUME NEW q \in Logins
            PROVE  lifecycle'.active[q] = 0 /\ reserved'[q] # lifecycle'.generation
        <4>1. CASE q = r
          <5>1. reserved[r] = 0 /\ Generation # 0
            BY <1>1, <1>2 DEF ActivityOK, GenerationsOK
          <5>. QED BY <1>2, <1>4, <4>1, <5>1 DEF Generation
        <4>2. CASE q # r
          <5>1. lifecycle.active[q] = 0 /\ reserved[q] # Generation
            BY <1>2, <4>2, OwnerAlone
          <5>. QED BY <1>2, <1>4, <4>2, <5>1 DEF Generation
        <4>. QED BY <4>1, <4>2
      <3>. QED BY <3>1 DEF NoPrincipalDuringLogin, LoginUnderWay, LoginActive, HasBeginReservation
    <2>11. LoggedInOK(r)'
      BY <1>1, <1>2, <1>5, <2>1, <2>3 DEF LoggedInOK, Signing
    <2>12. TokensOK(r)'
      BY <1>1, <1>2, <1>5, <2>1, <2>3 DEF TokensOK, Early, Signing
    <2>13. KeychainOK'
      BY <1>2, <2>1, <2>8, <2>11, <2>12, OwnerKeychain DEF OwnStep
    <2>. QED BY <2>5, <2>9, <2>10, <2>13 DEF AuthInv
  <1>. QED BY <1>6, <1>7

\* The window is told of the sign-in, unless a cancellation was accepted before.
LEMMA EmitStep ==
  ASSUME AuthInv, NEW r \in Logins, EmitAuthenticated(r)
  PROVE  AuthInv'
  <1>1. /\ TypeOK /\ JobOK(r) /\ ActivityOK(r) /\ login[r] \in LoginStates
        /\ jobs \in [Logins -> {"free", "running", "cancelling"}]
    BY LoginKnown
  <1>2. /\ login[r].pc = "emitting" /\ Emit(r, "authenticated")
        /\ UNCHANGED <<store, session, principal, lifecycle, reserved, otherVars>>
    BY DEF EmitAuthenticated, At, credentialVars
  <1>3. PICK pc \in {"over", "cleaning"} : Goto(r, pc) /\ (pc = "over" => jobs[r] = "running")
    BY DEF EmitAuthenticated
  <1>4. /\ login' \in [Logins -> LoginStates] /\ login'[r] = [login[r] EXCEPT !.pc = pc]
        /\ \A q \in Logins \ {r} : login'[q] = login[q]
    <2>1. pc \in LoginPcs
      BY DEF LoginPcs
    <2>. QED BY <1>1, <1>3, <2>1, LoginMoves
  <1>5. /\ login'[r].pc = pc /\ login'[r].gen = login[r].gen
        /\ login'[r].cancelled = login[r].cancelled
    BY <1>1, <1>4 DEF LoginStates
  <1>6. /\ jobs' \in [Logins -> {"free", "running", "cancelling"}] /\ jobs'[r] = "free"
        /\ told' \in [Logins -> {"nothing", "authenticated", "failed", "cancelled"}]
        /\ told'[r] = Outcome(r, "authenticated")
        /\ \A q \in Logins \ {r} : jobs'[q] = jobs[q] /\ told'[q] = told[q]
    BY <1>1, <1>2, EmitTells
  <1>7. told'[r] \in {"authenticated", "cancelled"} /\ (login[r].cancelled => told'[r] = "cancelled")
    BY <1>1, <1>2, <1>6 DEF Outcome, JobOK, Told
  <1>8. TypeOK'
    BY <1>2, <1>4, <1>6, LoginKnown, LoginTyped
  <1>9. JobOK(r)'
    BY <1>5, <1>6, <1>7 DEF JobOK, Told
  <1>10. ActivityOK(r)'
    BY <1>1, <1>2, <1>5 DEF ActivityOK, Running, Generation, otherVars, keychainVars
  <1>11. OwnStep(r)
    BY <1>2, <1>4, <1>5, <1>6 DEF OwnStep, OthersKept
  <1>12. login'[r].cancelled /\ login'[r].pc = "over" => FALSE
    BY <1>1, <1>3, <1>5 DEF JobOK
  <1>. QED BY <1>2, <1>5, <1>8, <1>9, <1>10, <1>11, <1>12, QuietMove
           DEF otherVars, keychainVars, Early, Signing

\* A sign-in that the window did not hear of is undone, unless another account is at work.
LEMMA CleanUpStep ==
  ASSUME AuthenticationAssumption, AuthInv, NEW r \in Logins, CleanUp(r)
  PROVE  AuthInv'
  <1>1. /\ TypeOK /\ JobOK(r) /\ ActivityOK(r) /\ TokensOK(r) /\ LoggedInOK(r) /\ RotationOK
        /\ login[r] \in LoginStates /\ GenerationsOK /\ Generation \in Nat
    BY LoginKnown
  <1>2. /\ login[r].pc = "cleaning"
        /\ UNCHANGED <<lifecycle, reserved, jobs, told, otherVars, getter, detached, stray, logout>>
    BY DEF CleanUp, At, otherVars, keychainVars
  <1>3. ASSUME login[r].gen = Generation PROVE ~LoginUnderWay
    <2>1. ASSUME NEW q \in Logins PROVE lifecycle.active[q] = 0 /\ reserved[q] # Generation
      <3>1. CASE q = r
        BY <1>1, <1>2, <3>1 DEF ActivityOK, Running, GenerationsOK
      <3>2. CASE q # r
        BY <1>3, <3>2, OwnerAlone
      <3>. QED BY <3>1, <3>2
    <2>. QED BY <2>1 DEF LoginUnderWay, LoginActive, HasBeginReservation, Generation
  <1>4. PICK pc \in {"over", "unclean"} :
          /\ Goto(r, pc)
          /\ \/ /\ pc = "over" /\ login[r].gen = Generation /\ store' = NoTokens
                /\ session' = Unsigned("signed_out") /\ principal' = Nobody
             \/ /\ UNCHANGED <<store, session, principal>>
                /\ pc = "over" => login[r].gen # Generation
    BY <1>3 DEF CleanUp, credentialVars, Generation
  <1>5. /\ login' \in [Logins -> LoginStates] /\ login'[r] = [login[r] EXCEPT !.pc = pc]
        /\ \A q \in Logins \ {r} : login'[q] = login[q]
    <2>1. pc \in LoginPcs
      BY DEF LoginPcs
    <2>. QED BY <1>1, <1>4, <2>1, LoginMoves
  <1>6. /\ login'[r].pc = pc /\ login'[r].gen = login[r].gen
        /\ login'[r].cancelled = login[r].cancelled
    BY <1>1, <1>5 DEF LoginStates
  <1>7. /\ store' \in TokenStates /\ session' \in [kind : Kinds, tokens : TokenStates]
        /\ principal' \in Accounts \cup {Nobody}
    BY <1>4, LoginKnown DEF TokenStates, Unsigned, Kinds
  <1>8. TypeOK'
    BY <1>2, <1>5, <1>7, LoginKnown, LoginTyped
  <1>9. JobOK(r)'
    BY <1>1, <1>2, <1>6 DEF JobOK, Told
  <1>10. ActivityOK(r)'
    BY <1>1, <1>2, <1>6 DEF ActivityOK, Running, Generation
  <1>11. OwnStep(r)
    BY <1>2, <1>5, <1>6 DEF OwnStep, OthersKept
  <1>12. CASE UNCHANGED <<store, session, principal>> /\ (pc = "over" => login[r].gen # Generation)
    BY <1>2, <1>6, <1>8, <1>9, <1>10, <1>11, <1>12, QuietMove DEF Early, Signing
  <1>13. CASE /\ pc = "over" /\ login[r].gen = Generation /\ store' = NoTokens
              /\ principal' = Nobody
    <2>1. LoginsOK'
      BY <1>2, <1>9, <1>10, <1>11, OneLogin DEF AuthInv, OwnStep
    <2>2. NoPrincipalDuringLogin'
      BY <1>13 DEF NoPrincipalDuringLogin
    <2>3. store'.by = Nobody /\ Nobody # r /\ Generation' = Generation
      BY <1>2, <1>13 DEF NoTokens, AuthenticationAssumption, Generation
    <2>4. LoggedInOK(r)'
      BY <1>1, <1>2, <1>13, <2>3 DEF LoggedInOK, Signing
    <2>5. TokensOK(r)'
      BY <1>1, <1>2, <1>6, <1>13, <2>3 DEF TokensOK, RotationOK, Early, Signing
    <2>6. KeychainOK'
      BY <1>2, <1>11, <1>13, <2>3, <2>4, <2>5, OwnerKeychain DEF OwnStep
    <2>. QED BY <1>8, <2>1, <2>2, <2>6 DEF AuthInv
  <1>. QED BY <1>4, <1>12, <1>13

-----------------------------------------------------------------------------
(***************************************************************************)
(* Steps that begin a generation.                                          *)
(***************************************************************************)

\* What is left of an invalidation for the logins and the token request under way.
LEMMA RevokedKeeps ==
  ASSUME TypeOK
  PROVE  /\ Revoked \in [Logins -> LoginStates]
         /\ \A q \in Logins :
              /\ Revoked[q].pc = login[q].pc /\ Revoked[q].gen = login[q].gen
              /\ Revoked[q].cancelled = login[q].cancelled
         /\ GetterRevoked \in [pc : GetterPcs, for : Callers, gen : Nat,
                               tokens : TokenStates, cancelled : BOOLEAN]
         /\ GetterRevoked.pc = getter.pc /\ GetterRevoked.gen = getter.gen
         /\ GetterRevoked.tokens = getter.tokens
  <1>1. /\ login \in [Logins -> LoginStates]
        /\ getter \in [pc : GetterPcs, for : Callers, gen : Nat,
                       tokens : TokenStates, cancelled : BOOLEAN]
    BY DEF TypeOK, LoginStates, TokenStates
  <1>2. ASSUME NEW q \in Logins, NEW x \in BOOLEAN
        PROVE  /\ [login[q] EXCEPT !.revoked = x] \in LoginStates
               /\ [login[q] EXCEPT !.revoked = x].pc = login[q].pc
               /\ [login[q] EXCEPT !.revoked = x].gen = login[q].gen
               /\ [login[q] EXCEPT !.revoked = x].cancelled = login[q].cancelled
    <2>1. login[q] \in LoginStates
      BY <1>1
    <2>. QED BY <2>1 DEF LoginStates
  <1>3. \A q \in Logins :
          /\ Revoked[q] = [login[q] EXCEPT !.revoked = login[q].revoked \/ lifecycle.active[q] # 0]
          /\ (login[q].revoked \/ lifecycle.active[q] # 0) \in BOOLEAN
    BY DEF Revoked
  <1>4. \A q \in Logins :
          /\ Revoked[q] \in LoginStates /\ Revoked[q].pc = login[q].pc
          /\ Revoked[q].gen = login[q].gen /\ Revoked[q].cancelled = login[q].cancelled
    BY <1>2, <1>3
  <1>5. Revoked \in [Logins -> LoginStates]
    BY <1>4 DEF Revoked
  <1>6. \A x \in BOOLEAN :
          /\ [getter EXCEPT !.cancelled = x] \in [pc : GetterPcs, for : Callers, gen : Nat,
                                                  tokens : TokenStates, cancelled : BOOLEAN]
          /\ [getter EXCEPT !.cancelled = x].pc = getter.pc
          /\ [getter EXCEPT !.cancelled = x].gen = getter.gen
          /\ [getter EXCEPT !.cancelled = x].tokens = getter.tokens
    BY <1>1
  <1>7. GetterRevoked = [getter EXCEPT !.cancelled =
                           getter.cancelled \/ lifecycle.active[RefreshJob] # 0]
    BY DEF GetterRevoked
  <1>8. (getter.cancelled \/ lifecycle.active[RefreshJob] # 0) \in BOOLEAN
    OBVIOUS
  <1>. QED BY <1>4, <1>5, <1>6, <1>7, <1>8

\* Nothing is active in a generation that begins, and nothing of the ones before it is
\* bound to it.
LEMMA GenerationBegins ==
  ASSUME TypeOK, InvalidateLifecycle
  PROVE  /\ lifecycle' \in Lifecycles /\ lifecycle'.generation = Generation + 1
         /\ \A q \in Logins : lifecycle'.active[q] = 0
         /\ Generation' = Generation + 1 /\ Generation \in Nat
  <1>1. lifecycle.generation \in Nat
    BY DEF TypeOK
  <1>2. lifecycle' = [generation |-> lifecycle.generation + 1,
                      active |-> [j \in Jobs |-> 0], pending |-> {}]
    BY DEF InvalidateLifecycle
  <1>3. \A q \in Logins : q \in Jobs
    BY DEF Jobs
  <1>. QED BY <1>1, <1>2, <1>3 DEF Lifecycles, Generation

\* A login that begins leaves the account before it.
LEMMA BeginLoginStep ==
  ASSUME AuthInv, NEW r \in Logins, BeginLogin(r)
  PROVE  AuthInv'
  <1>1. /\ TypeOK /\ GenerationsOK /\ RotationOK
        /\ \A q \in Logins : JobOK(q) /\ ActivityOK(q) /\ TokensOK(q) /\ login[q] \in LoginStates
        /\ reserved \in [Logins -> Nat] /\ Generation \in Nat /\ Generation >= 1
    <2>1. GenerationsOK
      BY DEF AuthInv, LoginsOK
    <2>. QED BY <2>1, LoginKnown DEF AuthInv, KeychainOK, GenerationsOK, TypeOK, Generation
  <1>2. /\ login[r].pc = "registered" /\ MutationFree /\ LockFree /\ InvalidateLifecycle
        /\ principal' = Nobody /\ getter' = GetterRevoked
        /\ UNCHANGED <<store, session, jobs, told, detached, stray, probe, logout, expiries>>
    BY DEF BeginLogin, At, keychainVars
  <1>. DEFINE g == Generation + 1
  <1>3. /\ lifecycle' \in Lifecycles /\ lifecycle'.generation = g /\ Generation' = g
        /\ \A q \in Logins : lifecycle'.active[q] = 0
    BY <1>1, <1>2, GenerationBegins
  <1>4. /\ reserved' = [q \in Logins |-> IF q = r \/ reserved[q] = g THEN g ELSE 0]
        /\ login' = [Revoked EXCEPT ![r].pc = "requesting", ![r].gen = g]
    BY <1>3 DEF BeginLogin
  <1>. HIDE DEF g
  <1>5. g \in Nat /\ g > Generation /\ g # 0
    BY <1>1 DEF g
  <1>6. /\ login' \in [Logins -> LoginStates]
        /\ login'[r].pc = "requesting" /\ login'[r].gen = g
        /\ login'[r].cancelled = login[r].cancelled
        /\ \A q \in Logins \ {r} :
             /\ login'[q].pc = login[q].pc /\ login'[q].gen = login[q].gen
             /\ login'[q].cancelled = login[q].cancelled
    <2>1. /\ Revoked \in [Logins -> LoginStates] /\ Revoked[r] \in LoginStates
          /\ \A q \in Logins :
               /\ Revoked[q].pc = login[q].pc /\ Revoked[q].gen = login[q].gen
               /\ Revoked[q].cancelled = login[q].cancelled
      BY <1>1, RevokedKeeps
    <2>. HIDE DEF Revoked
    <2>2. login' = [Revoked EXCEPT ![r] = [Revoked[r] EXCEPT !.pc = "requesting", !.gen = g]]
      BY <1>4, <2>1
    <2>3. [Revoked[r] EXCEPT !.pc = "requesting", !.gen = g] \in LoginStates
      BY <1>5, <2>1 DEF LoginStates, LoginPcs
    <2>. QED BY <2>1, <2>2, <2>3 DEF LoginStates
  <1>7. reserved' \in [Logins -> Nat] /\ reserved'[r] = g /\ \A q \in Logins \ {r} : reserved'[q] = 0
    <2>1. ASSUME NEW q \in Logins \ {r} PROVE reserved[q] # g
      BY <1>1, <1>5 DEF ActivityOK
    <2>. QED BY <1>4, <1>5, <2>1
  <1>8. /\ getter' \in [pc : GetterPcs, for : Callers, gen : Nat,
                        tokens : TokenStates, cancelled : BOOLEAN]
        /\ getter'.pc = getter.pc /\ getter'.gen = getter.gen /\ getter'.tokens = getter.tokens
    BY <1>1, <1>2, RevokedKeeps
  <1>9. TypeOK'
    BY <1>1, <1>2, <1>3, <1>6, <1>7, <1>8
       DEF TypeOK, LoginStates, Lifecycles, TokenStates, NoTokens, Tokens
  <1>10. ASSUME NEW q \in Logins PROVE JobOK(q)'
    <2>1. CASE q = r
      BY <1>1, <1>2, <1>6, <2>1 DEF JobOK, Told
    <2>2. CASE q # r
      BY <1>1, <1>2, <1>6, <2>2 DEF JobOK
    <2>. QED BY <2>1, <2>2
  <1>11. ASSUME NEW q \in Logins \ {r} PROVE login'[q].gen # g /\ login[q].gen <= Generation
    <2>1. login[q].gen <= Generation /\ login[q].gen \in Nat
      BY <1>1 DEF GenerationsOK, LoginStates
    <2>. QED BY <1>1, <1>5, <1>6, <2>1
  <1>12. /\ getter.gen \in Nat /\ getter.gen <= Generation /\ detached.gen \in Nat
         /\ detached.gen <= Generation /\ logout.gen \in Nat /\ logout.gen <= Generation
         /\ logout.pc = "idle"
    BY <1>1, <1>2 DEF GenerationsOK, TypeOK, MutationFree
  <1>13. getter.gen # g /\ detached.gen # g /\ logout.gen # g
    BY <1>1, <1>5, <1>12
  <1>14. GenerationsOK'
    <2>1. g >= 1 /\ getter.gen <= g /\ detached.gen <= g /\ logout.gen <= g /\ g <= g
      BY <1>1, <1>5, <1>12
    <2>2. \A q \in Logins : login'[q].gen <= g
      <3>1. ASSUME NEW q \in Logins \ {r} PROVE login'[q].gen <= g
        <4>1. login'[q].gen = login[q].gen /\ login[q].gen <= Generation /\ login[q].gen \in Nat
          BY <1>1, <1>6, <1>11 DEF LoginStates
        <4>. QED BY <1>1, <1>5, <4>1
      <3>. QED BY <1>6, <2>1, <3>1
    <2>3. \A q \in Logins : login'[q].gen = g => q = r
      BY <1>11
    <2>. QED BY <1>2, <1>3, <1>8, <1>13, <2>1, <2>2, <2>3 DEF GenerationsOK
  <1>15. ASSUME NEW q \in Logins PROVE ActivityOK(q)'
    <2>1. CASE q = r
      BY <1>2, <1>3, <1>5, <1>6, <1>7, <1>8, <1>12, <1>13, <2>1 DEF ActivityOK, Running
    <2>2. CASE q # r
      <3>1. login[q].pc \notin {"requesting", "saved"}
        BY <1>2, <2>2 DEF MutationFree, LockFree
      <3>. QED BY <1>3, <1>6, <1>7, <1>11, <2>2, <3>1 DEF ActivityOK, Running
    <2>. QED BY <2>1, <2>2
  <1>16. LoggedOutOK' /\ RotationOK'
    BY <1>1, <1>2, <1>3, <1>8, <1>13 DEF LoggedOutOK, RotationOK, NoTokens
  <1>17. ASSUME NEW q \in Logins PROVE LoggedInOK(q)' /\ TokensOK(q)'
    <2>1. CASE q = r
      <3>1. told[r] = "nothing"
        BY <1>1, <1>2 DEF JobOK, Told
      <3>2. LoggedInOK(r)'
        BY <1>2, <1>6, <3>1 DEF LoggedInOK, Signing
      <3>3. TokensOK(r) /\ login[r].pc \in Early
        BY <1>1, <1>2 DEF Early
      <3>4. TokensOK(r)'
        BY <1>2, <1>6, <1>8, <3>3 DEF TokensOK, Early, Signing
      <3>. QED BY <2>1, <3>2, <3>4
    <2>2. CASE q # r
      <3>1. LoggedInOK(q)'
        BY <1>3, <1>11, <2>2 DEF LoggedInOK
      <3>2. TokensOK(q) /\ login'[q].pc = login[q].pc /\ login'[q].gen # g
        BY <1>1, <1>6, <1>11, <2>2
      <3>3. TokensOK(q)'
        BY <1>2, <1>3, <1>8, <3>2 DEF TokensOK
      <3>. QED BY <3>1, <3>3
    <2>. QED BY <2>1, <2>2
  <1>18. NoPrincipalDuringLogin'
    BY <1>2 DEF NoPrincipalDuringLogin
  <1>. QED BY <1>9, <1>10, <1>14, <1>15, <1>16, <1>17, <1>18 DEF AuthInv, LoginsOK, KeychainOK

\* A logout that is accepted cancels the login jobs that run.
LEMMA RequestLogoutStep ==
  ASSUME AuthInv, RequestLogout
  PROVE  AuthInv'
  <1>. DEFINE S == {q \in Logins : jobs[q] = "running"}
  <1>1. /\ TypeOK /\ GenerationsOK /\ RotationOK /\ LoggedOutOK
        /\ \A q \in Logins : JobOK(q) /\ ActivityOK(q) /\ TokensOK(q) /\ LoggedInOK(q)
        /\ login \in [Logins -> LoginStates]
        /\ jobs \in [Logins -> {"free", "running", "cancelling"}]
    BY DEF AuthInv, LoginsOK, KeychainOK, TypeOK, LoginStates
  <1>2. /\ MutationFree /\ logout' = [logout EXCEPT !.pc = "cancelling"]
        /\ jobs' = Cancelling(S) /\ login' = Cancelled(S)
        /\ UNCHANGED <<store, session, principal, lifecycle, reserved, told, detached, stray,
                       getter, probe, expiries>>
    BY DEF RequestLogout, credentialVars, keychainVars
  <1>3. /\ login' \in [Logins -> LoginStates]
        /\ \A q \in Logins :
             /\ login'[q].pc = login[q].pc /\ login'[q].gen = login[q].gen
             /\ login'[q].cancelled = (login[q].cancelled \/ q \in S)
    <2>1. \A q \in Logins : [login[q] EXCEPT !.cancelled = TRUE] \in LoginStates
      BY <1>1 DEF LoginStates
    <2>2. login' \in [Logins -> LoginStates]
      BY <1>1, <1>2, <2>1 DEF Cancelled
    <2>3. ASSUME NEW q \in Logins
          PROVE  /\ login'[q].pc = login[q].pc /\ login'[q].gen = login[q].gen
                 /\ login'[q].cancelled = (login[q].cancelled \/ q \in S)
      <3>1. login[q] \in LoginStates
        BY <1>1
      <3>2. CASE q \in S
        BY <1>2, <3>1, <3>2 DEF Cancelled, LoginStates
      <3>3. CASE q \notin S
        <4>1. login'[q] = login[q]
          BY <1>2, <3>3 DEF Cancelled
        <4>. QED BY <3>1, <3>3, <4>1 DEF LoginStates
      <3>. QED BY <3>2, <3>3
    <2>. QED BY <2>2, <2>3
  <1>4. /\ jobs' \in [Logins -> {"free", "running", "cancelling"}]
        /\ \A q \in Logins : jobs'[q] = IF q \in S THEN "cancelling" ELSE jobs[q]
    BY <1>1, <1>2 DEF Cancelling
  <1>5. /\ logout' \in [pc : {"idle", "cancelling"}, gen : Nat] /\ logout'.gen = logout.gen
        /\ Generation' = Generation /\ lifecycle' = lifecycle
    BY <1>1, <1>2 DEF TypeOK, Generation
  <1>6. TypeOK'
    BY <1>1, <1>2, <1>3, <1>4, <1>5 DEF TypeOK, LoginStates, NoTokens
  <1>7. ASSUME NEW q \in Logins PROVE JobOK(q)'
    <2>1. CASE q \in S
      <3>1. jobs[q] = "running" /\ jobs'[q] = "cancelling" /\ JobOK(q) /\ told'[q] = told[q]
        BY <1>1, <1>2, <1>4, <2>1
      <3>2. login'[q].pc = login[q].pc /\ login'[q].gen = login[q].gen
        BY <1>3
      <3>3. login[q].pc \notin {"unused", "refused"} \cup Told /\ told[q] = "nothing"
        BY <3>1 DEF JobOK
      <3>. QED BY <3>1, <3>2, <3>3 DEF JobOK
    <2>2. CASE q \notin S
      <3>1. jobs'[q] = jobs[q] /\ JobOK(q) /\ told'[q] = told[q]
        BY <1>1, <1>2, <1>4, <2>2
      <3>2. /\ login'[q].pc = login[q].pc /\ login'[q].gen = login[q].gen
            /\ login'[q].cancelled = login[q].cancelled
        <4>1. login'[q] = login[q]
          BY <1>2, <2>2 DEF Cancelled
        <4>. QED BY <4>1
      <3>. QED BY <3>1, <3>2 DEF JobOK
    <2>. QED BY <2>1, <2>2
  <1>8. GenerationsOK'
    BY <1>1, <1>2, <1>3, <1>5 DEF GenerationsOK
  <1>9. ASSUME NEW q \in Logins PROVE ActivityOK(q)'
    <2>1. login[q].pc # "requesting" /\ ActivityOK(q)
      BY <1>1, <1>2 DEF MutationFree
    <2>2. login'[q].pc = login[q].pc /\ login'[q].gen = login[q].gen
      BY <1>3
    <2>. QED BY <1>2, <1>5, <2>1, <2>2 DEF ActivityOK
  <1>10. LoggedOutOK' /\ RotationOK'
    BY <1>1, <1>2, <1>5 DEF LoggedOutOK, RotationOK, NoTokens
  <1>11. ASSUME NEW q \in Logins PROVE LoggedInOK(q)' /\ TokensOK(q)'
    <2>1. /\ LoggedInOK(q) /\ TokensOK(q)
          /\ login'[q].pc = login[q].pc /\ login'[q].gen = login[q].gen
      BY <1>1, <1>3
    <2>2. LoggedInOK(q)'
      BY <1>2, <1>5, <2>1 DEF LoggedInOK
    <2>3. login'[q].pc = "over" => login'[q].cancelled = login[q].cancelled
      <3>1. ASSUME login[q].pc = "over" PROVE q \notin S
        BY <1>1, <3>1 DEF JobOK, Told
      <3>2. q \notin S => login'[q] = login[q]
        BY <1>2 DEF Cancelled
      <3>. QED BY <2>1, <3>1, <3>2
    <2>4. TokensOK(q)'
      BY <1>2, <1>5, <2>1, <2>3 DEF TokensOK
    <2>. QED BY <2>2, <2>4
  <1>12. NoPrincipalDuringLogin'
    BY <1>2, <1>5 DEF AuthInv, NoPrincipalDuringLogin, LoginUnderWay, LoginActive, HasBeginReservation
  <1>. QED BY <1>6, <1>7, <1>8, <1>9, <1>10, <1>11, <1>12 DEF AuthInv, LoginsOK, KeychainOK

\* A logout ends the generation, whether the keychain obeys or not.
LEMMA LogoutStep ==
  ASSUME AuthenticationAssumption, AuthInv, Logout
  PROVE  AuthInv'
  <1>1. /\ TypeOK /\ GenerationsOK /\ RotationOK
        /\ \A q \in Logins : JobOK(q) /\ ActivityOK(q) /\ TokensOK(q) /\ login[q] \in LoginStates
        /\ Generation \in Nat /\ Generation >= 1
    <2>1. GenerationsOK
      BY DEF AuthInv, LoginsOK
    <2>. QED BY <2>1, LoginKnown DEF AuthInv, KeychainOK, GenerationsOK, TypeOK, Generation
  <1>2. /\ logout.pc = "cancelling" /\ LockFree /\ InvalidateLifecycle
        /\ login' = Revoked /\ getter' = GetterRevoked /\ reserved' = [q \in Logins |-> 0]
        /\ UNCHANGED <<jobs, told, detached, stray, probe, expiries>>
    BY DEF Logout, keychainVars
  <1>. DEFINE g == Generation + 1
  <1>3. /\ lifecycle' \in Lifecycles /\ lifecycle'.generation = g /\ Generation' = g
        /\ \A q \in Logins : lifecycle'.active[q] = 0
    BY <1>1, <1>2, GenerationBegins
  <1>4. \/ /\ store' = NoTokens /\ session' = Unsigned("signed_out") /\ principal' = Nobody
           /\ logout' = [pc |-> "idle", gen |-> g]
        \/ logout' = [logout EXCEPT !.pc = "idle"] /\ UNCHANGED <<store, session, principal>>
    BY <1>3 DEF Logout, credentialVars
  <1>. HIDE DEF g
  <1>5. g \in Nat /\ g > Generation /\ g # 0
    BY <1>1 DEF g
  <1>6. /\ login' \in [Logins -> LoginStates]
        /\ \A q \in Logins :
             /\ login'[q].pc = login[q].pc /\ login'[q].gen = login[q].gen
             /\ login'[q].cancelled = login[q].cancelled
        /\ getter' \in [pc : GetterPcs, for : Callers, gen : Nat,
                        tokens : TokenStates, cancelled : BOOLEAN]
        /\ getter'.pc = getter.pc /\ getter'.gen = getter.gen /\ getter'.tokens = getter.tokens
    BY <1>1, <1>2, RevokedKeeps
  <1>7. reserved' \in [Logins -> Nat] /\ \A q \in Logins : reserved'[q] = 0
    BY <1>2
  <1>8. /\ logout' \in [pc : {"idle", "cancelling"}, gen : Nat] /\ logout'.pc = "idle"
        /\ (logout'.gen = g /\ store' = NoTokens) \/ logout'.gen = logout.gen
    BY <1>1, <1>4, <1>5 DEF TypeOK
  <1>9. store' \in TokenStates /\ session' \in [kind : Kinds, tokens : TokenStates]
        /\ principal' \in Accounts \cup {Nobody}
    BY <1>1, <1>4 DEF TypeOK, TokenStates, Unsigned, Kinds
  <1>10. TypeOK'
    BY <1>1, <1>2, <1>3, <1>6, <1>7, <1>8, <1>9
       DEF TypeOK, LoginStates, Lifecycles, TokenStates, NoTokens, Tokens
  <1>11. ASSUME NEW q \in Logins PROVE JobOK(q)'
    BY <1>1, <1>2, <1>6 DEF JobOK
  <1>12. /\ getter.gen \in Nat /\ getter.gen <= Generation /\ detached.gen \in Nat
         /\ detached.gen <= Generation /\ logout.gen \in Nat /\ logout.gen <= Generation
    BY <1>1 DEF GenerationsOK, TypeOK
  <1>13. getter.gen # g /\ detached.gen # g /\ logout.gen # g
    BY <1>1, <1>5, <1>12
  <1>14. \A q \in Logins : login[q].gen # g /\ login[q].gen <= g
    <2>1. ASSUME NEW q \in Logins PROVE login[q].gen # g /\ login[q].gen <= g
      <3>1. login[q].gen <= Generation /\ login[q].gen \in Nat
        BY <1>1 DEF GenerationsOK, LoginStates
      <3>. QED BY <1>1, <1>5, <3>1
    <2>. QED BY <2>1
  <1>15. GenerationsOK'
    <2>1. g >= 1 /\ getter.gen <= g /\ detached.gen <= g /\ logout'.gen <= g
      BY <1>1, <1>5, <1>8, <1>12
    <2>. QED BY <1>2, <1>3, <1>6, <1>14, <2>1 DEF GenerationsOK
  <1>16. ASSUME NEW q \in Logins PROVE ActivityOK(q)'
    <2>1. login[q].pc \notin {"requesting", "saved"}
      BY <1>1, <1>2 DEF ActivityOK, LockFree
    <2>. QED BY <1>3, <1>6, <1>7, <1>14, <2>1 DEF ActivityOK, Running
  <1>17. LoggedOutOK' /\ RotationOK'
    <2>1. RotationOK'
      BY <1>1, <1>2, <1>6 DEF RotationOK, NoTokens
    <2>2. LoggedOutOK'
      BY <1>2, <1>3, <1>6, <1>8, <1>13 DEF LoggedOutOK, NoTokens
    <2>. QED BY <2>1, <2>2
  <1>18. ASSUME NEW q \in Logins PROVE LoggedInOK(q)' /\ TokensOK(q)'
    <2>1. LoggedInOK(q)'
      BY <1>3, <1>6, <1>14 DEF LoggedInOK
    <2>2. store' = store \/ store'.by # q
      BY <1>4 DEF NoTokens, AuthenticationAssumption
    <2>3. TokensOK(q) /\ login'[q].pc = login[q].pc /\ login'[q].gen # g
      BY <1>1, <1>6, <1>14
    <2>4. TokensOK(q)'
      BY <1>2, <1>3, <1>6, <2>2, <2>3 DEF TokensOK
    <2>. QED BY <2>1, <2>4
  <1>19. NoPrincipalDuringLogin'
    <2>1. ~LoginUnderWay'
      BY <1>3, <1>5, <1>7 DEF LoginUnderWay, LoginActive, HasBeginReservation
    <2>. QED BY <2>1 DEF NoPrincipalDuringLogin
  <1>. QED BY <1>10, <1>11, <1>15, <1>16, <1>17, <1>18, <1>19 DEF AuthInv, LoginsOK, KeychainOK

-----------------------------------------------------------------------------
(***************************************************************************)
(* Steps of a token request.                                               *)
(***************************************************************************)

\* The logins are left alone.
LoginsKept ==
  /\ UNCHANGED <<reserved, jobs, login, told, logout>>
  /\ lifecycle'.generation = lifecycle.generation /\ lifecycle'.pending = lifecycle.pending
  /\ \A q \in Logins : lifecycle'.active[q] = lifecycle.active[q]

\* A token request does not enter a generation in which a login is under way.
LEMMA GetterLogins ==
  ASSUME AuthInv, LoginsKept, getter'.gen <= Generation, detached'.gen <= Generation,
         getter'.gen = Generation => getter.gen = Generation \/ ~LoginUnderWay,
         detached'.gen = Generation => getter.gen = Generation \/ detached.gen = Generation,
         principal' \in {principal, Nobody}
  PROVE  LoginsOK' /\ NoPrincipalDuringLogin' /\ Generation' = Generation
  <1>1. Generation' = Generation
    BY DEF LoginsKept, Generation
  <1>2. GenerationsOK /\ \A q \in Logins : JobOK(q) /\ ActivityOK(q)
    BY DEF AuthInv, LoginsOK
  <1>3. GenerationsOK'
    BY <1>1, <1>2 DEF GenerationsOK, LoginsKept
  <1>4. ASSUME NEW q \in Logins PROVE JobOK(q)' /\ ActivityOK(q)'
    <2>1. JobOK(q)'
      BY <1>2 DEF JobOK, LoginsKept
    <2>2. login[q].pc \in Running \cup {"requesting"} /\ login[q].gen = Generation => LoginUnderWay
      BY <1>2 DEF ActivityOK, LoginUnderWay, LoginActive, HasBeginReservation, Generation
    <2>3. login[q].pc \in Running \cup {"requesting"} /\ login[q].gen = Generation =>
            getter'.gen # Generation /\ detached'.gen # Generation
      BY <1>2, <2>2 DEF ActivityOK
    <2>4. ActivityOK(q)'
      BY <1>1, <1>2, <2>3 DEF ActivityOK, LoginsKept
    <2>. QED BY <2>1, <2>4
  <1>5. LoginUnderWay' => LoginUnderWay
    BY DEF LoginUnderWay, LoginActive, HasBeginReservation, LoginsKept
  <1>6. NoPrincipalDuringLogin'
    BY <1>5 DEF AuthInv, NoPrincipalDuringLogin
  <1>. QED BY <1>1, <1>3, <1>4, <1>6 DEF LoginsOK

\* The types after a step of a token request.
LEMMA GetterTyped ==
  ASSUME TypeOK, LoginsKept, expiries' = expiries, stray' \in BOOLEAN,
         store' \in TokenStates, session' \in [kind : Kinds, tokens : TokenStates],
         principal' \in Accounts \cup {Nobody}, lifecycle' \in Lifecycles,
         detached' \in [op : {"none", "save", "delete"}, tokens : TokenStates, gen : Nat],
         getter' \in [pc : GetterPcs, for : Callers, gen : Nat,
                      tokens : TokenStates, cancelled : BOOLEAN],
         probe' \in [pc : ProbePcs, gen : Nat, user : Accounts \cup {Nobody}]
  PROVE  TypeOK'
  BY DEF TypeOK, LoginsKept, TokenStates, Lifecycles, Tokens, NoTokens

\* The answers of a token request.
LEMMA AnswerTyped ==
  ASSUME TypeOK, NEW tokens \in TokenStates, NEW result, NEW who, Answer(who, result, tokens)
  PROVE  /\ getter' = IdleGetter
         /\ getter' \in [pc : GetterPcs, for : Callers, gen : Nat,
                         tokens : TokenStates, cancelled : BOOLEAN]
         /\ getter'.pc = "idle" /\ getter'.gen = 0 /\ getter'.tokens = NoTokens
         /\ probe' \in [pc : ProbePcs, gen : Nat, user : Accounts \cup {Nobody}]
  <1>1. getter' = IdleGetter
    BY DEF Answer
  <1>2. probe \in [pc : ProbePcs, gen : Nat, user : Accounts \cup {Nobody}]
    BY DEF TypeOK
  <1>3. tokens.by \in Accounts \cup {Nobody}
    BY DEF TokenStates, Tokens, NoTokens
  <1>4. Probed(result, tokens) \in [pc : ProbePcs, gen : Nat, user : Accounts \cup {Nobody}]
    BY <1>2, <1>3 DEF Probed, ProbePcs, IdleProbe
  <1>5. probe' \in [pc : ProbePcs, gen : Nat, user : Accounts \cup {Nobody}]
    BY <1>2, <1>4 DEF Answer
  <1>. QED BY <1>1, <1>5 DEF IdleGetter, GetterPcs, Callers, TokenStates

Getters == [pc : GetterPcs, for : Callers, gen : Nat, tokens : TokenStates, cancelled : BOOLEAN]
Probes == [pc : ProbePcs, gen : Nat, user : Accounts \cup {Nobody}]

\* What is known before a token request takes a step.
LEMMA GetterKnown ==
  ASSUME AuthInv
  PROVE  /\ TypeOK /\ GenerationsOK /\ LoggedOutOK /\ RotationOK
         /\ \A q \in Logins : LoggedInOK(q) /\ TokensOK(q) /\ JobOK(q) /\ ActivityOK(q)
         /\ store \in TokenStates /\ session \in [kind : Kinds, tokens : TokenStates]
         /\ principal \in Accounts \cup {Nobody} /\ lifecycle \in Lifecycles
         /\ getter \in Getters /\ probe \in Probes /\ stray \in BOOLEAN
         /\ detached \in [op : {"none", "save", "delete"}, tokens : TokenStates, gen : Nat]
         /\ Generation \in Nat /\ 0 <= Generation /\ 0 # Generation /\ detached.gen <= Generation
         /\ getter.gen <= Generation /\ Nobody \in Accounts \cup {Nobody} /\ NoTokens \in TokenStates
  <1>1. TypeOK /\ GenerationsOK
    BY DEF AuthInv, LoginsOK
  <1>2. Generation \in Nat /\ Generation >= 1
    BY <1>1 DEF TypeOK, Generation, GenerationsOK
  <1>. QED BY <1>1, <1>2 DEF AuthInv, LoginsOK, KeychainOK, TypeOK, TokenStates, Lifecycles, Getters,
                             Probes, GenerationsOK

\* The end of the job of a request, and a step that leaves the lifecycle alone.
LEMMA RefreshEnds ==
  ASSUME AuthenticationAssumption, TypeOK, FinishJob(RefreshJob), UNCHANGED <<loginVars, logout>>
  PROVE  LoginsKept /\ lifecycle' \in Lifecycles
  <1>1. RefreshJob \in Jobs /\ \A q \in Logins : q \in Jobs \ {RefreshJob}
    BY DEF Jobs, AuthenticationAssumption
  <1>. QED BY <1>1, ActiveEnds DEF LoginsKept, loginVars

LEMMA LifecycleKept ==
  ASSUME UNCHANGED <<lifecycle, loginVars, logout>>
  PROVE  LoginsKept
  BY DEF LoginsKept, loginVars

\* The types of a request that goes on.
LEMMA GotoTyped ==
  ASSUME TypeOK, NEW pc \in GetterPcs, GetterGoto(pc)
  PROVE  /\ getter' \in Getters /\ probe' \in Probes
         /\ getter'.pc = pc /\ getter'.gen = getter.gen /\ getter'.tokens = getter.tokens
  BY DEF TypeOK, GetterGoto, Getters, Probes, TokenStates

\* A step that writes nothing to the keychain and loads nothing to be rotated.
LEMMA GetterQuiet ==
  ASSUME AuthInv, LoginsKept, UNCHANGED <<store, detached, stray, expiries>>,
         session' \in [kind : Kinds, tokens : TokenStates], principal' \in {principal, Nobody},
         lifecycle' \in Lifecycles, getter' \in Getters, probe' \in Probes,
         getter'.pc # "refreshing", getter'.tokens \in {NoTokens, getter.tokens},
         getter'.gen \in {0, getter.gen} \/ (getter'.gen = Generation /\ ~LoginUnderWay),
         AuthenticationAssumption
  PROVE  AuthInv'
  <1>1. TypeOK'
    BY GetterKnown, GetterTyped DEF Getters, Probes
  <1>2. LoginsOK' /\ NoPrincipalDuringLogin' /\ Generation' = Generation
    <2>1. getter'.gen <= Generation /\ detached'.gen <= Generation
      BY GetterKnown
    <2>2. getter'.gen = Generation => getter.gen = Generation \/ ~LoginUnderWay
      BY GetterKnown
    <2>. QED BY <2>1, <2>2, GetterLogins
  <1>3. LoggedOutOK' /\ RotationOK'
    BY <1>2, GetterKnown DEF LoggedOutOK, RotationOK, LoginsKept, NoTokens
  <1>4. ASSUME NEW q \in Logins PROVE LoggedInOK(q)' /\ TokensOK(q)'
    <2>1. LoggedInOK(q) /\ TokensOK(q) /\ login' = login /\ told' = told
      BY GetterKnown DEF LoginsKept
    <2>2. LoggedInOK(q)'
      BY <1>2, <2>1 DEF LoggedInOK
    <2>3. getter'.tokens = getter.tokens \/ getter'.tokens.by # q
      BY DEF NoTokens, AuthenticationAssumption
    <2>4. TokensOK(q)'
      BY <1>2, <2>1, <2>3 DEF TokensOK
    <2>. QED BY <2>2, <2>4
  <1>. QED BY <1>1, <1>2, <1>3, <1>4 DEF AuthInv, KeychainOK

\* An answer that leaves the keychain alone.
LEMMA GetterAnswers ==
  ASSUME AuthenticationAssumption, AuthInv, LoginsKept,
         UNCHANGED <<store, detached, stray, expiries>>,
         session' \in [kind : Kinds, tokens : TokenStates], principal' \in {principal, Nobody},
         lifecycle' \in Lifecycles, NEW tokens \in TokenStates, NEW result, NEW who,
         Answer(who, result, tokens)
  PROVE  AuthInv'
  <1>1. TypeOK
    BY GetterKnown
  <1>2. /\ getter' \in Getters /\ probe' \in Probes /\ getter'.pc = "idle" /\ getter'.gen = 0
        /\ getter'.tokens = NoTokens
    BY <1>1, AnswerTyped DEF Getters, Probes
  <1>3. getter'.pc # "refreshing"
    BY <1>2
  <1>. QED BY <1>2, <1>3, GetterQuiet

LEMMA RequestTokenStep ==
  ASSUME AuthenticationAssumption, AuthInv, NEW who \in Callers, RequestToken(who)
  PROVE  AuthInv'
  <1>1. /\ UNCHANGED <<store, session, principal, lifecycle, loginVars, logout, detached, stray, expiries>>
        /\ getter.pc = "idle"
    BY DEF RequestToken, credentialVars, keychainVars
  <1>2. /\ LoginsKept /\ lifecycle' \in Lifecycles /\ principal' = principal
        /\ session' \in [kind : Kinds, tokens : TokenStates] /\ session.tokens \in TokenStates
        /\ NoTokens \in TokenStates
    BY <1>1, LifecycleKept, GetterKnown
  <1>3. \/ \E tokens \in TokenStates, result \in {"token", "none", "reauthenticate"} :
             Answer(who, result, tokens)
        \/ getter' = [IdleGetter EXCEPT !.pc = "entering", !.for = who] /\ UNCHANGED probe
    BY <1>2 DEF RequestToken
  <1>4. CASE \E tokens \in TokenStates, result \in {"token", "none", "reauthenticate"} :
               Answer(who, result, tokens)
    BY <1>1, <1>2, <1>4, GetterAnswers
  <1>5. CASE getter' = [IdleGetter EXCEPT !.pc = "entering", !.for = who] /\ UNCHANGED probe
    <2>1. /\ getter' \in Getters /\ getter'.pc # "refreshing" /\ getter'.tokens = NoTokens
          /\ getter'.gen = 0
      BY <1>2, <1>5 DEF IdleGetter, Getters, GetterPcs, Callers
    <2>2. probe' \in Probes
      BY <1>5, GetterKnown
    <2>. QED BY <1>1, <1>2, <2>1, <2>2, GetterQuiet
  <1>. QED BY <1>3, <1>4, <1>5

\* What a request returns is one of the stored token pairs, or none.
LEMMA ReturnAnswers ==
  ASSUME AuthenticationAssumption, AuthInv, LoginsKept,
         UNCHANGED <<store, detached, stray, expiries>>,
         session' \in [kind : Kinds, tokens : TokenStates], principal' \in {principal, Nobody},
         lifecycle' \in Lifecycles, NEW result, GetterReturns(result)
  PROVE  AuthInv'
  <1>1. getter.tokens \in TokenStates
    BY GetterKnown DEF Getters
  <1>. QED BY <1>1, GetterAnswers DEF GetterReturns

LEMMA EnterRefreshStep ==
  ASSUME AuthenticationAssumption, AuthInv, EnterRefresh
  PROVE  AuthInv'
  <1>1. /\ UNCHANGED <<store, session, principal, loginVars, logout, detached, stray, expiries>>
        /\ getter.pc = "entering" /\ principal' \in {principal, Nobody}
        /\ session' \in [kind : Kinds, tokens : TokenStates]
    BY GetterKnown DEF EnterRefresh, credentialVars, keychainVars
  <1>2. CASE LoginUnderWay
    <2>1. GetterReturns("reauthenticate") /\ UNCHANGED lifecycle
      BY <1>2 DEF EnterRefresh
    <2>2. LoginsKept /\ lifecycle' \in Lifecycles
      BY <1>1, <2>1, LifecycleKept, GetterKnown
    <2>. QED BY <1>1, <2>1, <2>2, ReturnAnswers
  <1>3. CASE ~LoginUnderWay
    <2>1. /\ lifecycle' = [lifecycle EXCEPT !.active[RefreshJob] = lifecycle.generation]
          /\ getter' = [getter EXCEPT !.pc = "loading", !.gen = lifecycle.generation]
          /\ UNCHANGED probe
      BY <1>3 DEF EnterRefresh
    <2>2. RefreshJob \in Jobs /\ (\A q \in Logins : q \in Jobs /\ q # RefreshJob)
      BY DEF Jobs, AuthenticationAssumption
    <2>3. /\ lifecycle \in Lifecycles /\ getter \in Getters /\ probe' \in Probes
          /\ lifecycle.generation \in Nat
      BY <2>1, GetterKnown DEF Generation
    <2>4. LoginsKept /\ lifecycle' \in Lifecycles
      <3>1. lifecycle' = [lifecycle EXCEPT
                            !.active = [lifecycle.active EXCEPT ![RefreshJob] = lifecycle.generation]]
        BY <2>1
      <3>2. lifecycle.active \in [Jobs -> Nat]
        BY <2>3 DEF Lifecycles
      <3>3. [lifecycle.active EXCEPT ![RefreshJob] = lifecycle.generation] \in [Jobs -> Nat]
        BY <2>3, <3>2
      <3>4. lifecycle' \in Lifecycles
        BY <2>3, <3>1, <3>3 DEF Lifecycles
      <3>5. /\ lifecycle'.generation = lifecycle.generation /\ lifecycle'.pending = lifecycle.pending
            /\ lifecycle'.active = [lifecycle.active EXCEPT ![RefreshJob] = lifecycle.generation]
        BY <2>3, <3>1 DEF Lifecycles
      <3>6. \A q \in Logins : lifecycle'.active[q] = lifecycle.active[q]
        BY <2>2, <3>2, <3>5
      <3>. QED BY <1>1, <3>4, <3>5, <3>6 DEF LoginsKept, loginVars
    <2>5. /\ getter' \in Getters /\ getter'.pc = "loading" /\ getter'.tokens = getter.tokens
          /\ getter'.gen = Generation
      BY <2>1, <2>3 DEF Getters, GetterPcs, Generation
    <2>6. getter'.pc # "refreshing"
      BY <2>5
    <2>. QED BY <1>1, <1>3, <2>3, <2>4, <2>5, <2>6, GetterQuiet
  <1>. QED BY <1>2, <1>3

\* A request that goes on, to anything but a rotation.
LEMMA GotoAnswers ==
  ASSUME AuthenticationAssumption, AuthInv, LoginsKept,
         UNCHANGED <<store, session, principal, detached, stray, expiries>>,
         lifecycle' \in Lifecycles, NEW pc \in GetterPcs \ {"refreshing"}, GetterGoto(pc)
  PROVE  AuthInv'
  <1>1. /\ session' \in [kind : Kinds, tokens : TokenStates] /\ principal' \in {principal, Nobody}
        /\ TypeOK
    BY GetterKnown
  <1>2. /\ getter' \in Getters /\ probe' \in Probes
        /\ getter'.pc = pc /\ getter'.gen = getter.gen /\ getter'.tokens = getter.tokens
    BY <1>1, GotoTyped
  <1>. QED BY <1>1, <1>2, GetterQuiet

\* The stored tokens are loaded, to be used, rotated or deleted: whatever is in the
\* keychain of the present generation may be rotated in it.
LEMMA TokensLoaded ==
  ASSUME AuthenticationAssumption, AuthInv,
         UNCHANGED <<store, session, principal, lifecycle, loginVars, logout, detached, stray,
                     expiries, probe>>,
         store # NoTokens,
         getter' = [getter EXCEPT !.tokens = store,
           !.pc = CASE store.life = "fresh" -> "valid"
                    [] store.life = "stale" -> "refreshing"
                    [] store.life = "dead" -> "deleting"]
  PROVE  AuthInv'
  <1>1. /\ store \in Tokens /\ store.by # Nobody /\ store.life \in Lives /\ store.by \in Accounts
        /\ getter \in Getters
    BY GetterKnown DEF TokenStates, Tokens, Accounts, AuthenticationAssumption
  <1>2. /\ getter' \in Getters /\ getter'.tokens = store /\ getter'.gen = getter.gen
        /\ getter'.pc = "refreshing" => store.life = "stale"
    BY <1>1 DEF Getters, GetterPcs, Lives, TokenStates
  <1>3. LoginsKept /\ lifecycle' \in Lifecycles /\ Generation' = Generation
    BY LifecycleKept, GetterKnown DEF Generation
  <1>4. TypeOK'
    BY <1>2, <1>3, GetterKnown, GetterTyped DEF Getters, Probes
  <1>5. LoginsOK' /\ NoPrincipalDuringLogin'
    <2>1. getter'.gen <= Generation /\ detached'.gen <= Generation
      BY <1>2, GetterKnown
    <2>. QED BY <1>2, <1>3, <2>1, GetterLogins
  <1>6. LoggedOutOK'
    BY <1>3, GetterKnown DEF LoggedOutOK, LoginsKept
  <1>7. RotationOK'
    BY <1>1, <1>2, GetterKnown DEF RotationOK, NoTokens
  <1>8. ASSUME NEW q \in Logins PROVE LoggedInOK(q)' /\ TokensOK(q)'
    <2>1. LoggedInOK(q) /\ TokensOK(q) /\ login' = login /\ told' = told
      BY GetterKnown DEF LoginsKept, loginVars
    <2>2. LoggedInOK(q)'
      BY <1>1, <1>2, <1>3, <2>1 DEF LoggedInOK
    <2>3. TokensOK(q)'
      BY <1>2, <1>3, <2>1 DEF TokensOK
    <2>. QED BY <2>2, <2>3
  <1>. QED BY <1>4, <1>5, <1>6, <1>7, <1>8 DEF AuthInv, KeychainOK

LEMMA LoadCredentialsStep ==
  ASSUME AuthenticationAssumption, AuthInv, LoadCredentials
  PROVE  AuthInv'
  <1>1. /\ UNCHANGED <<store, session, principal, loginVars, logout, detached, stray, expiries>>
        /\ principal' \in {principal, Nobody} /\ session' \in [kind : Kinds, tokens : TokenStates]
        /\ TypeOK
    BY GetterKnown DEF LoadCredentials, credentialVars, keychainVars
  <1>2. ASSUME UNCHANGED lifecycle \/ FinishJob(RefreshJob)
        PROVE  LoginsKept /\ lifecycle' \in Lifecycles
    BY <1>1, <1>2, RefreshEnds, LifecycleKept, GetterKnown
  <1>3. \/ GetterReturns("reauthenticate") /\ UNCHANGED lifecycle
        \/ GetterReturns("error") /\ FinishJob(RefreshJob)
        \/ GetterGoto("none found") /\ UNCHANGED lifecycle
        \/ GetterGoto("invalid") /\ FinishJob(RefreshJob)
        \/ /\ store # NoTokens
           /\ getter' = [getter EXCEPT !.tokens = store,
                !.pc = CASE store.life = "fresh" -> "valid"
                         [] store.life = "stale" -> "refreshing"
                         [] store.life = "dead" -> "deleting"]
           /\ UNCHANGED <<probe, lifecycle>>
    BY DEF LoadCredentials
  <1>4. CASE GetterReturns("reauthenticate") /\ UNCHANGED lifecycle
    BY <1>1, <1>2, <1>4, ReturnAnswers
  <1>5. CASE GetterReturns("error") /\ FinishJob(RefreshJob)
    BY <1>1, <1>2, <1>5, ReturnAnswers
  <1>6. CASE GetterGoto("none found") /\ UNCHANGED lifecycle
    <2>1. "none found" \in GetterPcs \ {"refreshing"}
      BY DEF GetterPcs
    <2>. QED BY <1>1, <1>2, <1>6, <2>1, GotoAnswers
  <1>7. CASE GetterGoto("invalid") /\ FinishJob(RefreshJob)
    <2>1. "invalid" \in GetterPcs \ {"refreshing"}
      BY DEF GetterPcs
    <2>. QED BY <1>1, <1>2, <1>7, <2>1, GotoAnswers
  <1>8. CASE /\ store # NoTokens
             /\ getter' = [getter EXCEPT !.tokens = store,
                  !.pc = CASE store.life = "fresh" -> "valid"
                           [] store.life = "stale" -> "refreshing"
                           [] store.life = "dead" -> "deleting"]
             /\ UNCHANGED <<probe, lifecycle>>
    BY <1>1, <1>8, TokensLoaded
  <1>. QED BY <1>3, <1>4, <1>5, <1>6, <1>7, <1>8

\* The sessions a request leaves behind.
LEMMA SessionsTyped ==
  /\ \A kind \in Kinds : Unsigned(kind) \in [kind : Kinds, tokens : TokenStates]
  /\ \A tokens \in TokenStates : SignedIn(tokens) \in [kind : Kinds, tokens : TokenStates]
  BY DEF Unsigned, SignedIn, Kinds, TokenStates

LEMMA FoundSteps ==
  ASSUME AuthenticationAssumption, AuthInv,
         NoneFound \/ InvalidFound \/ PublishLoaded
  PROVE  AuthInv'
  <1>1. TypeOK /\ getter.tokens \in TokenStates /\ "signed_out" \in Kinds /\ "reauthenticate" \in Kinds
    BY GetterKnown DEF Getters, Kinds
  <1>2. UNCHANGED <<store, loginVars, logout, detached, stray, expiries>>
    BY DEF NoneFound, InvalidFound, PublishLoaded, keychainVars
  <1>3. session' \in [kind : Kinds, tokens : TokenStates] /\ principal' \in {principal, Nobody}
    BY <1>1, SessionsTyped DEF NoneFound, InvalidFound, PublishLoaded
  <1>4. LoginsKept /\ lifecycle' \in Lifecycles
    <2>1. UNCHANGED lifecycle \/ FinishJob(RefreshJob)
      BY DEF NoneFound, InvalidFound, PublishLoaded
    <2>. QED BY <1>1, <1>2, <2>1, RefreshEnds, LifecycleKept, GetterKnown
  <1>5. PICK result \in {"none", "reauthenticate", "token"} : GetterReturns(result)
    BY DEF NoneFound, InvalidFound, PublishLoaded
  <1>. QED BY <1>2, <1>3, <1>4, <1>5, ReturnAnswers

LEMMA ValidFoundStep ==
  ASSUME AuthenticationAssumption, AuthInv, ValidFound
  PROVE  AuthInv'
  <1>1. /\ UNCHANGED <<store, session, principal, loginVars, logout, detached, stray, expiries>>
        /\ principal' \in {principal, Nobody} /\ session' \in [kind : Kinds, tokens : TokenStates]
        /\ TypeOK
    BY GetterKnown DEF ValidFound, credentialVars, keychainVars
  <1>2. CASE RefreshIsCurrent
    <2>1. /\ FinishJob(RefreshJob) /\ UNCHANGED probe
          /\ getter' = [getter EXCEPT !.pc = "publishing", !.gen = 0]
      BY <1>2 DEF ValidFound
    <2>2. LoginsKept /\ lifecycle' \in Lifecycles
      BY <1>1, <2>1, RefreshEnds
    <2>3. getter \in Getters /\ probe' \in Probes
      BY <2>1, GetterKnown
    <2>4. /\ getter' \in Getters /\ getter'.pc # "refreshing" /\ getter'.tokens = getter.tokens
          /\ getter'.gen = 0
      BY <2>1, <2>3 DEF Getters, GetterPcs
    <2>. QED BY <1>1, <2>2, <2>3, <2>4, GetterQuiet
  <1>3. CASE ~RefreshIsCurrent
    <2>1. GetterReturns("reauthenticate") /\ UNCHANGED lifecycle
      BY <1>3 DEF ValidFound
    <2>2. LoginsKept /\ lifecycle' \in Lifecycles
      BY <1>1, <2>1, LifecycleKept, GetterKnown
    <2>. QED BY <1>1, <2>1, <2>2, ReturnAnswers
  <1>. QED BY <1>2, <1>3

LEMMA RefreshAbandonedStep ==
  ASSUME AuthenticationAssumption, AuthInv, RefreshAbandoned
  PROVE  AuthInv'
  <1>1. /\ UNCHANGED <<store, session, principal, loginVars, logout, detached, stray, expiries>>
        /\ principal' \in {principal, Nobody} /\ session' \in [kind : Kinds, tokens : TokenStates]
        /\ TypeOK
    BY GetterKnown DEF RefreshAbandoned, credentialVars, keychainVars
  <1>2. LoginsKept /\ lifecycle' \in Lifecycles
    BY <1>1, RefreshEnds DEF RefreshAbandoned
  <1>3. PICK result \in {"error", "reauthenticate"} : GetterReturns(result)
    BY DEF RefreshAbandoned
  <1>. QED BY <1>1, <1>2, <1>3, ReturnAnswers

LEMMA RefreshRefusedStep ==
  ASSUME AuthenticationAssumption, AuthInv, RefreshRefused
  PROVE  AuthInv'
  <1>1. /\ UNCHANGED <<store, session, principal, lifecycle, loginVars, logout, detached, stray, expiries>>
        /\ GetterGoto("deleting")
    BY DEF RefreshRefused, credentialVars, keychainVars
  <1>2. LoginsKept /\ lifecycle' \in Lifecycles
    BY <1>1, LifecycleKept, GetterKnown
  <1>3. "deleting" \in GetterPcs \ {"refreshing"}
    BY DEF GetterPcs
  <1>. QED BY <1>1, <1>2, <1>3, GotoAnswers

\* A request that ends, or a call that outlived one: the types and the logins.
LEMMA WriterTyped ==
  ASSUME AuthInv, LoginsKept, UNCHANGED expiries,
         store' \in TokenStates, session' \in [kind : Kinds, tokens : TokenStates],
         stray' \in BOOLEAN, principal' \in {principal, Nobody}, lifecycle' \in Lifecycles,
         getter' \in {getter, IdleGetter}, probe' \in Probes,
         detached' \in [op : {"none", "save", "delete"}, tokens : TokenStates, gen : Nat],
         detached'.gen \in {0, getter.gen, detached.gen}
  PROVE  TypeOK' /\ LoginsOK' /\ NoPrincipalDuringLogin' /\ Generation' = Generation
  <1>1. IdleGetter \in Getters /\ IdleGetter.gen = 0
    BY DEF IdleGetter, Getters, GetterPcs, Callers, TokenStates
  <1>2. getter' \in Getters /\ getter'.gen \in {0, getter.gen}
    BY <1>1, GetterKnown
  <1>3. TypeOK'
    BY <1>2, GetterKnown, GetterTyped DEF Getters, Probes
  <1>4. /\ getter'.gen <= Generation /\ detached'.gen <= Generation
        /\ getter'.gen = Generation => getter.gen = Generation
        /\ detached'.gen = Generation => getter.gen = Generation \/ detached.gen = Generation
    BY <1>2, GetterKnown
  <1>5. LoginsOK' /\ NoPrincipalDuringLogin' /\ Generation' = Generation
    BY <1>4, GetterLogins
  <1>. QED BY <1>3, <1>5

\* Deleting the credentials harms no promise.
LEMMA DeletionHarmless ==
  ASSUME AuthenticationAssumption, AuthInv, LoginsKept, UNCHANGED <<detached, stray>>,
         store' \in {store, NoTokens}, getter' = IdleGetter, Generation' = Generation
  PROVE  KeychainOK'
  <1>1. getter'.pc = "idle" /\ getter'.gen = 0 /\ getter'.tokens = NoTokens /\ NoTokens.by = Nobody
    BY DEF IdleGetter, NoTokens
  <1>2. LoggedOutOK' /\ RotationOK'
    BY <1>1, GetterKnown DEF LoggedOutOK, RotationOK, LoginsKept, NoTokens
  <1>3. ASSUME NEW q \in Logins PROVE LoggedInOK(q)' /\ TokensOK(q)'
    <2>1. LoggedInOK(q) /\ TokensOK(q) /\ login' = login /\ told' = told /\ q # Nobody
      BY GetterKnown DEF LoginsKept, AuthenticationAssumption
    <2>2. LoggedInOK(q)'
      BY <1>1, <2>1 DEF LoggedInOK
    <2>3. TokensOK(q)'
      BY <1>1, <2>1 DEF TokensOK
    <2>. QED BY <2>2, <2>3
  <1>. QED BY <1>2, <1>3 DEF KeychainOK

LEMMA DeleteIfCurrentStep ==
  ASSUME AuthenticationAssumption, AuthInv, DeleteIfCurrent
  PROVE  AuthInv'
  <1>1. /\ UNCHANGED <<loginVars, logout, detached, stray, expiries>> /\ TypeOK
        /\ FinishJob(RefreshJob)
    BY GetterKnown DEF DeleteIfCurrent, keychainVars
  <1>2. LoginsKept /\ lifecycle' \in Lifecycles
    BY <1>1, RefreshEnds
  <1>3. /\ store' \in {store, NoTokens} /\ principal' \in {principal, Nobody}
        /\ session' = session \/ session' = Unsigned("reauthenticate")
    BY DEF DeleteIfCurrent, credentialVars
  <1>4. PICK result \in {"error", "reauthenticate"} : GetterReturns(result)
    BY DEF DeleteIfCurrent
  <1>5. getter' = IdleGetter /\ probe' \in Probes
    <2>1. getter.tokens \in TokenStates
      BY GetterKnown DEF Getters
    <2>. QED BY <1>1, <1>4, <2>1, AnswerTyped DEF GetterReturns, Probes
  <1>6. store' \in TokenStates /\ session' \in [kind : Kinds, tokens : TokenStates]
    <2>1. "reauthenticate" \in Kinds
      BY DEF Kinds
    <2>. QED BY <1>3, <2>1, SessionsTyped, GetterKnown
  <1>7. TypeOK' /\ LoginsOK' /\ NoPrincipalDuringLogin' /\ Generation' = Generation
    BY <1>1, <1>2, <1>3, <1>5, <1>6, WriterTyped, GetterKnown
  <1>8. KeychainOK'
    BY <1>1, <1>2, <1>3, <1>5, <1>7, DeletionHarmless
  <1>. QED BY <1>7, <1>8 DEF AuthInv

\* What a rotation may store, now or late: tokens that no login of the present
\* generation has to fear.
LEMMA RotationHarmless ==
  ASSUME AuthenticationAssumption, AuthInv, getter.pc = "refreshing", MayRotate
  PROVE  /\ getter.gen = Generation /\ [getter.tokens EXCEPT !.life = "fresh"] \in Tokens
         /\ [getter.tokens EXCEPT !.life = "fresh"].by = getter.tokens.by
         /\ [getter.tokens EXCEPT !.life = "fresh"].life = "fresh"
         /\ logout.gen = Generation => stray
         /\ \A q \in Logins :
              /\ login[q].gen = Generation /\ (login[q].pc \in Signing \/ told[q] = "authenticated") =>
                   stray \/ getter.tokens.by = q
              /\ login[q].pc \in Early \cup Signing => getter.tokens.by # q
              /\ login[q].cancelled /\ login[q].pc = "over" /\ login[q].gen = Generation =>
                   getter.tokens.by # q
  <1>1. getter.gen = Generation
    BY DEF MayRotate, RefreshIsCurrent, JobIsCurrent, Generation
  <1>2. getter.tokens \in Tokens /\ getter.tokens.life # "fresh"
    BY GetterKnown DEF RotationOK, Getters, TokenStates, NoTokens, Tokens
  <1>3. /\ [getter.tokens EXCEPT !.life = "fresh"] \in Tokens
        /\ [getter.tokens EXCEPT !.life = "fresh"].by = getter.tokens.by
        /\ [getter.tokens EXCEPT !.life = "fresh"].life = "fresh"
    BY <1>2 DEF Tokens, Lives
  <1>4. logout.gen = Generation => stray
    BY <1>1, GetterKnown DEF LoggedOutOK
  <1>5. ASSUME NEW q \in Logins
        PROVE  /\ login[q].gen = Generation /\ (login[q].pc \in Signing \/ told[q] = "authenticated") =>
                    stray \/ getter.tokens.by = q
               /\ login[q].pc \in Early \cup Signing => getter.tokens.by # q
               /\ login[q].cancelled /\ login[q].pc = "over" /\ login[q].gen = Generation =>
                    getter.tokens.by # q
    <2>1. LoggedInOK(q) /\ TokensOK(q) /\ stray \in BOOLEAN
      BY GetterKnown
    <2>2. login[q].gen = Generation /\ (login[q].pc \in Signing \/ told[q] = "authenticated") =>
            stray \/ getter.tokens.by = q
      BY <1>1, <2>1 DEF LoggedInOK
    <2>3. login[q].pc \in Early \cup Signing => getter.tokens.by # q
      BY <1>2, <2>1 DEF TokensOK
    <2>4. login[q].cancelled /\ login[q].pc = "over" /\ login[q].gen = Generation =>
            getter.tokens.by # q
      BY <2>1 DEF TokensOK
    <2>. QED BY <2>2, <2>3, <2>4
  <1>. QED BY <1>1, <1>3, <1>4, <1>5

LEMMA RefreshGrantedStep ==
  ASSUME AuthenticationAssumption, AuthInv, RefreshGranted
  PROVE  AuthInv'
  <1>1. /\ UNCHANGED <<principal, loginVars, logout, detached, stray, expiries>> /\ TypeOK
        /\ FinishJob(RefreshJob) /\ getter.pc = "refreshing"
    BY GetterKnown DEF RefreshGranted, keychainVars
  <1>2. LoginsKept /\ lifecycle' \in Lifecycles
    BY <1>1, RefreshEnds
  <1>3. PICK result \in {"token", "error", "reauthenticate"} : GetterReturns(result)
    BY DEF RefreshGranted
  <1>4. CASE UNCHANGED <<store, session>>
    <2>1. session' \in [kind : Kinds, tokens : TokenStates]
      BY <1>4, GetterKnown
    <2>. QED BY <1>1, <1>2, <1>3, <1>4, <2>1, ReturnAnswers
  <1>5. CASE /\ MayRotate /\ store' = [getter.tokens EXCEPT !.life = "fresh"]
             /\ session' = SignedIn(store')
    <2>1. /\ getter.gen = Generation /\ store' \in Tokens /\ store'.by = getter.tokens.by
          /\ store'.life = "fresh" /\ (logout.gen = Generation => stray)
          /\ \A q \in Logins :
               /\ login[q].gen = Generation /\ (login[q].pc \in Signing \/ told[q] = "authenticated") =>
                    stray \/ getter.tokens.by = q
               /\ login[q].pc \in Early \cup Signing => getter.tokens.by # q
               /\ login[q].cancelled /\ login[q].pc = "over" /\ login[q].gen = Generation =>
                    getter.tokens.by # q
      BY <1>1, <1>5, RotationHarmless
    <2>2. store' \in TokenStates /\ session' \in [kind : Kinds, tokens : TokenStates]
      BY <1>5, <2>1, SessionsTyped DEF TokenStates
    <2>3. /\ getter' = IdleGetter /\ getter'.pc = "idle" /\ getter'.tokens = NoTokens
          /\ probe' \in Probes
      <3>1. getter.tokens \in TokenStates
        BY GetterKnown DEF Getters
      <3>. QED BY <1>1, <1>3, <3>1, AnswerTyped DEF GetterReturns, Probes
    <2>4. TypeOK' /\ LoginsOK' /\ NoPrincipalDuringLogin' /\ Generation' = Generation
      BY <1>1, <1>2, <2>2, <2>3, WriterTyped, GetterKnown
    <2>5. LoggedOutOK' /\ RotationOK'
      BY <1>1, <2>1, <2>3, <2>4, GetterKnown DEF LoggedOutOK, RotationOK, NoTokens
    <2>6. ASSUME NEW q \in Logins PROVE LoggedInOK(q)' /\ TokensOK(q)'
      <3>1. LoggedInOK(q) /\ TokensOK(q) /\ login' = login /\ told' = told /\ NoTokens.by # q
        BY <1>2, GetterKnown DEF LoginsKept, AuthenticationAssumption, NoTokens
      <3>2. LoggedInOK(q)'
        BY <1>1, <2>1, <2>3, <2>4, <3>1 DEF LoggedInOK
      <3>3. TokensOK(q)'
        BY <1>1, <2>1, <2>3, <2>4, <3>1 DEF TokensOK
      <3>. QED BY <3>2, <3>3
    <2>. QED BY <2>4, <2>5, <2>6 DEF AuthInv, KeychainOK
  <1>. QED BY <1>4, <1>5 DEF RefreshGranted

\* The keychain call a dropped request leaves behind.
LEMMA DropRequestStep ==
  ASSUME AuthenticationAssumption, AuthInv, DropRequest
  PROVE  AuthInv'
  <1>1. /\ UNCHANGED <<store, session, principal, loginVars, logout, stray, probe, expiries>> /\ TypeOK
        /\ FinishJob(RefreshJob) /\ getter' = IdleGetter
    BY GetterKnown DEF DropRequest, credentialVars
  <1>2. LoginsKept /\ lifecycle' \in Lifecycles
    BY <1>1, RefreshEnds
  <1>3. getter'.pc = "idle" /\ getter'.tokens = NoTokens
    BY <1>1 DEF IdleGetter
  <1>4. \/ UNCHANGED detached
        \/ /\ getter.pc = "refreshing" /\ MayRotate
           /\ detached' = [op |-> "save", tokens |-> [getter.tokens EXCEPT !.life = "fresh"],
                           gen |-> getter.gen]
        \/ detached' = [NoCall EXCEPT !.op = "delete"]
    BY DEF DropRequest
  <1>5. CASE UNCHANGED detached \/ detached' = [NoCall EXCEPT !.op = "delete"]
    <2>1. /\ detached' \in [op : {"none", "save", "delete"}, tokens : TokenStates, gen : Nat]
          /\ detached'.gen \in {0, detached.gen}
          /\ UNCHANGED detached \/ (detached'.op = "delete" /\ detached'.tokens = NoTokens)
      BY <1>5, GetterKnown DEF NoCall, TokenStates
    <2>2. TypeOK' /\ LoginsOK' /\ NoPrincipalDuringLogin' /\ Generation' = Generation
      <3>1. detached'.gen \in {0, getter.gen, detached.gen}
        BY <2>1
      <3>. QED BY <1>1, <1>2, <2>1, <3>1, WriterTyped, GetterKnown
    <2>3. LoggedOutOK' /\ RotationOK'
      BY <1>1, <1>2, <1>3, <2>1, <2>2, GetterKnown DEF LoggedOutOK, RotationOK, LoginsKept, NoTokens
    <2>4. ASSUME NEW q \in Logins PROVE LoggedInOK(q)' /\ TokensOK(q)'
      <3>1. LoggedInOK(q) /\ TokensOK(q) /\ login' = login /\ told' = told /\ NoTokens.by # q
        BY <1>2, GetterKnown DEF LoginsKept, AuthenticationAssumption, NoTokens
      <3>2. LoggedInOK(q)'
        BY <1>1, <1>3, <2>1, <2>2, <3>1 DEF LoggedInOK
      <3>3. TokensOK(q)'
        BY <1>1, <1>3, <2>1, <2>2, <3>1 DEF TokensOK
      <3>. QED BY <3>2, <3>3
    <2>. QED BY <2>2, <2>3, <2>4 DEF AuthInv, KeychainOK
  <1>6. CASE /\ getter.pc = "refreshing" /\ MayRotate
             /\ detached' = [op |-> "save", tokens |-> [getter.tokens EXCEPT !.life = "fresh"],
                             gen |-> getter.gen]
    <2>. DEFINE rotated == [getter.tokens EXCEPT !.life = "fresh"]
    <2>1. /\ getter.gen = Generation /\ rotated \in Tokens /\ rotated.by = getter.tokens.by
          /\ logout.gen = Generation => stray
          /\ \A q \in Logins :
               /\ login[q].gen = Generation /\ (login[q].pc \in Signing \/ told[q] = "authenticated") =>
                    stray \/ getter.tokens.by = q
               /\ login[q].pc \in Early \cup Signing => getter.tokens.by # q
               /\ login[q].cancelled /\ login[q].pc = "over" /\ login[q].gen = Generation =>
                    getter.tokens.by # q
      BY <1>6, RotationHarmless
    <2>2. detached'.op = "save" /\ detached'.tokens = rotated /\ detached'.gen = Generation
      BY <1>6, <2>1
    <2>3. detached' \in [op : {"none", "save", "delete"}, tokens : TokenStates, gen : Nat]
      BY <1>6, <2>1, GetterKnown DEF TokenStates
    <2>. HIDE DEF rotated
    <2>4. TypeOK' /\ LoginsOK' /\ NoPrincipalDuringLogin' /\ Generation' = Generation
      <3>1. detached'.gen \in {0, getter.gen, detached.gen}
        BY <2>1, <2>2
      <3>. QED BY <1>1, <1>2, <2>3, <3>1, WriterTyped, GetterKnown
    <2>5. LoggedOutOK' /\ RotationOK'
      BY <1>1, <1>2, <1>3, <2>1, <2>2, <2>4, GetterKnown
         DEF LoggedOutOK, RotationOK, LoginsKept, NoTokens
    <2>6. ASSUME NEW q \in Logins PROVE LoggedInOK(q)' /\ TokensOK(q)'
      <3>1. LoggedInOK(q) /\ TokensOK(q) /\ login' = login /\ told' = told /\ NoTokens.by # q
        BY <1>2, GetterKnown DEF LoginsKept, AuthenticationAssumption, NoTokens
      <3>2. LoggedInOK(q)'
        BY <1>1, <1>3, <2>1, <2>2, <2>4, <3>1 DEF LoggedInOK
      <3>3. TokensOK(q)'
        BY <1>1, <1>3, <2>1, <2>2, <2>4, <3>1 DEF TokensOK
      <3>. QED BY <3>2, <3>3
    <2>. QED BY <2>4, <2>5, <2>6 DEF AuthInv, KeychainOK
  <1>. QED BY <1>4, <1>5, <1>6

\* The call ends: in a later generation than its own it leaves a stray pair.
LEMMA DetachedEndsStep ==
  ASSUME AuthenticationAssumption, AuthInv, DetachedEnds
  PROVE  AuthInv'
  <1>1. /\ UNCHANGED <<session, principal, lifecycle, loginVars, logout, getter, probe, expiries>>
        /\ detached' = NoCall
        /\ \/ /\ store' = detached.tokens
              /\ stray' = (stray \/ (detached.op = "save" /\ detached.gen # Generation))
           \/ UNCHANGED <<store, stray>>
    BY DEF DetachedEnds, Generation
  <1>2. LoginsKept /\ lifecycle' \in Lifecycles
    BY <1>1, LifecycleKept, GetterKnown
  <1>3. /\ detached' \in [op : {"none", "save", "delete"}, tokens : TokenStates, gen : Nat]
        /\ detached'.gen = 0 /\ detached'.op = "none" /\ detached'.tokens = NoTokens
    BY <1>1 DEF NoCall, TokenStates
  <1>4. store' \in TokenStates /\ stray' \in BOOLEAN
    <2>1. store \in TokenStates /\ stray \in BOOLEAN /\ detached.tokens \in TokenStates
      BY GetterKnown
    <2>. QED BY <1>1, <2>1
  <1>5. TypeOK' /\ LoginsOK' /\ NoPrincipalDuringLogin' /\ Generation' = Generation
    BY <1>1, <1>2, <1>3, <1>4, WriterTyped, GetterKnown
  <1>6. /\ ~stray' => ~stray
        /\ store' = store \/ (store' = detached.tokens /\
             (~stray' => detached.op # "save" \/ detached.gen = Generation))
    <2>1. CASE UNCHANGED <<store, stray>>
      BY <2>1
    <2>2. CASE /\ store' = detached.tokens
               /\ stray' = (stray \/ (detached.op = "save" /\ detached.gen # Generation))
      BY <2>2, Zenon
    <2>. QED BY <1>1, <2>1, <2>2
  <1>7. LoggedOutOK' /\ RotationOK'
    BY <1>1, <1>2, <1>3, <1>5, <1>6, GetterKnown DEF LoggedOutOK, RotationOK, LoginsKept
  <1>8. ASSUME NEW q \in Logins PROVE LoggedInOK(q)' /\ TokensOK(q)'
    <2>1. LoggedInOK(q) /\ TokensOK(q) /\ login' = login /\ told' = told /\ NoTokens.by # q
      BY <1>2, GetterKnown DEF LoginsKept, AuthenticationAssumption, NoTokens
    <2>2. RotationOK /\ NoTokens.by = Nobody
      BY GetterKnown DEF NoTokens
    <2>3. LoggedInOK(q)'
      BY <1>1, <1>3, <1>5, <1>6, <2>1, <2>2 DEF LoggedInOK, RotationOK
    <2>4. TokensOK(q)'
      BY <1>1, <1>3, <1>5, <1>6, <2>1 DEF TokensOK
    <2>. QED BY <2>3, <2>4
  <1>. QED BY <1>5, <1>7, <1>8 DEF AuthInv, KeychainOK

-----------------------------------------------------------------------------
(***************************************************************************)
(* Steps of get_auth_state, and time.                                      *)
(***************************************************************************)

LEMMA ProbeMoves ==
  ASSUME AuthInv, UNCHANGED <<store, session, lifecycle, loginVars, keychainVars, getter, logout, expiries>>,
         probe' \in Probes, principal' \in Accounts \cup {Nobody},
         principal' # principal => ~LoginUnderWay
  PROVE  AuthInv'
  <1>1. /\ UNCHANGED <<store, lifecycle, reserved, jobs, login, told, detached, stray, getter, logout>>
        /\ UNCHANGED <<session, expiries>> /\ Generation' = Generation
    BY DEF loginVars, keychainVars, Generation
  <1>2. TypeOK'
    <2>1. TypeOK
      BY GetterKnown
    <2>. QED BY <1>1, <2>1 DEF TypeOK, Probes
  <1>3. LoginsOK'
    <2>1. LoginsOK
      BY DEF AuthInv
    <2>. QED BY <1>1, <2>1 DEF LoginsOK, GenerationsOK, JobOK, ActivityOK
  <1>4. KeychainOK'
    <2>1. KeychainOK
      BY DEF AuthInv
    <2>. QED BY <1>1, <2>1 DEF KeychainOK, LoggedOutOK, RotationOK, LoggedInOK, TokensOK
  <1>5. NoPrincipalDuringLogin'
    <2>1. LoginUnderWay' <=> LoginUnderWay
      BY <1>1 DEF LoginUnderWay, LoginActive, HasBeginReservation
    <2>. QED BY <2>1 DEF AuthInv, NoPrincipalDuringLogin
  <1>. QED BY <1>2, <1>3, <1>4, <1>5 DEF AuthInv

LEMMA ProbeSteps ==
  ASSUME AuthInv, ProbeStart \/ ProbeStep
  PROVE  AuthInv'
  <1>1. probe \in Probes /\ principal \in Accounts \cup {Nobody} /\ Generation \in Nat
    BY GetterKnown
  <1>2. IdleProbe \in Probes
    BY DEF IdleProbe, Probes, ProbePcs
  <1>3. CASE ProbeStart \/ ProbeGeneration \/ ProbeAnswered
    <2>1. UNCHANGED <<store, session, principal, lifecycle, loginVars, keychainVars, getter, logout, expiries>>
      BY <1>3 DEF ProbeStart, ProbeGeneration, ProbeAnswered, credentialVars
    <2>2. probe' \in Probes
      BY <1>1, <1>2, <1>3 DEF ProbeStart, ProbeGeneration, ProbeAnswered, Probes, ProbePcs, Generation
    <2>. QED BY <1>1, <2>1, <2>2, ProbeMoves
  <1>4. CASE ProbeEnds
    <2>1. /\ UNCHANGED <<store, session, lifecycle, loginVars, keychainVars, getter, logout, expiries>>
          /\ probe' = IdleProbe
          /\ principal' = IF ~ProbeMayWrite THEN principal
                          ELSE IF probe.pc = "known" THEN probe.user ELSE Nobody
      BY <1>4 DEF ProbeEnds
    <2>2. principal' \in Accounts \cup {Nobody}
      BY <1>1, <2>1 DEF Probes
    <2>3. principal' # principal => ~LoginUnderWay
      BY <2>1 DEF ProbeMayWrite
    <2>. QED BY <1>2, <2>1, <2>2, <2>3, ProbeMoves
  <1>. QED BY <1>3, <1>4 DEF ProbeStep

\* Growing old, a token pair stays the pair of its login.
LEMMA AgedPairs ==
  ASSUME AuthenticationAssumption, NEW tokens \in TokenStates
  PROVE  Aged(tokens) \in TokenStates /\ Aged(tokens).by = tokens.by /\ Aged(NoTokens) = NoTokens
  <1>1. CASE tokens \in Tokens
    <2>1. tokens.by # Nobody
      BY <1>1 DEF Tokens, Accounts, AuthenticationAssumption
    <2>. QED BY <1>1, <2>1 DEF Aged, Tokens, Lives, Older, TokenStates, NoTokens
  <1>2. CASE tokens = NoTokens
    BY <1>2 DEF Aged, NoTokens, TokenStates
  <1>. QED BY <1>1, <1>2 DEF TokenStates

LEMMA ExpireStep ==
  ASSUME AuthenticationAssumption, AuthInv, Expire
  PROVE  AuthInv'
  <1>1. /\ UNCHANGED <<principal, lifecycle, reserved, jobs, login, told, detached, stray, getter, probe, logout>>
        /\ Generation' = Generation /\ getter = IdleGetter
        /\ store' = Aged(store) /\ session' = [session EXCEPT !.tokens = Aged(@)]
        /\ expiries < MaxExpiries /\ expiries' = expiries + 1
        /\ \A q \in Logins : login[q].pc \notin Signing
    BY DEF Expire, loginVars, keychainVars, Generation, Signing
  <1>2. /\ store \in TokenStates /\ session \in [kind : Kinds, tokens : TokenStates] /\ TypeOK
        /\ expiries \in 0..MaxExpiries /\ MaxExpiries \in Nat
    BY GetterKnown DEF TypeOK, AuthenticationAssumption
  <1>3. store' \in TokenStates /\ store'.by = store.by /\ (store = NoTokens => store' = NoTokens)
    BY <1>1, <1>2, AgedPairs
  <1>4. session' \in [kind : Kinds, tokens : TokenStates]
    <2>1. Aged(session.tokens) \in TokenStates
      BY <1>2, AgedPairs
    <2>. QED BY <1>1, <1>2, <2>1
  <1>5. TypeOK'
    <2>1. expiries' \in 0..MaxExpiries
      BY <1>1, <1>2
    <2>. QED BY <1>1, <1>2, <1>3, <1>4, <2>1 DEF TypeOK, TokenStates
  <1>6. LoginsOK'
    <2>1. LoginsOK
      BY DEF AuthInv
    <2>. QED BY <1>1, <2>1 DEF LoginsOK, GenerationsOK, JobOK, ActivityOK
  <1>7. LoggedOutOK' /\ RotationOK'
    BY <1>1, <1>3, GetterKnown DEF LoggedOutOK, RotationOK
  <1>8. ASSUME NEW q \in Logins PROVE LoggedInOK(q)' /\ TokensOK(q)'
    <2>1. LoggedInOK(q) /\ TokensOK(q)
      BY GetterKnown
    <2>2. LoggedInOK(q)'
      BY <1>1, <1>3, <2>1 DEF LoggedInOK
    <2>3. TokensOK(q)'
      BY <1>1, <1>3, <2>1 DEF TokensOK
    <2>. QED BY <2>2, <2>3
  <1>9. NoPrincipalDuringLogin'
    <2>1. LoginUnderWay' <=> LoginUnderWay
      BY <1>1 DEF LoginUnderWay, LoginActive, HasBeginReservation
    <2>. QED BY <1>1, <2>1 DEF AuthInv, NoPrincipalDuringLogin
  <1>. QED BY <1>5, <1>6, <1>7, <1>8, <1>9 DEF AuthInv, KeychainOK

-----------------------------------------------------------------------------
(***************************************************************************)
(* The invariant holds.                                                    *)
(***************************************************************************)

LEMMA InitInv ==
  ASSUME AuthenticationAssumption, Init
  PROVE  AuthInv
  <1>1. \A q \in Logins : /\ login[q] = NewLogin /\ jobs[q] = "free" /\ told[q] = "nothing"
                          /\ reserved[q] = 0 /\ lifecycle.active[q] = 0
    BY DEF Init, Jobs
  <1>2. /\ store \in TokenStates /\ \A q \in Logins : store.by # q
    BY DEF Init, TokenStates, Tokens, Accounts, Lives, NoTokens, AuthenticationAssumption
  <1>3. /\ detached = NoCall /\ stray = FALSE /\ session = Unsigned("uninitialized")
        /\ principal = Nobody /\ getter = IdleGetter /\ probe = IdleProbe
        /\ logout = [pc |-> "idle", gen |-> 0] /\ expiries = 0 /\ Generation = 1
        /\ lifecycle = [generation |-> 1, active |-> [j \in Jobs |-> 0], pending |-> {}]
    BY DEF Init, Generation
  <1>4. TypeOK
    <2>1. /\ login \in [Logins -> [pc : LoginPcs, gen : Nat, cancelled : BOOLEAN, revoked : BOOLEAN]]
          /\ reserved \in [Logins -> Nat]
          /\ jobs \in [Logins -> {"free", "running", "cancelling"}]
          /\ told \in [Logins -> {"nothing", "authenticated", "failed", "cancelled"}]
      BY DEF Init, NewLogin, LoginPcs
    <2>2. lifecycle \in [generation : Nat, active : [Jobs -> Nat], pending : SUBSET Logins]
      BY <1>3
    <2>3. expiries \in 0..MaxExpiries
      BY <1>3 DEF AuthenticationAssumption
    <2>4. /\ getter \in [pc : GetterPcs, for : Callers, gen : Nat,
                         tokens : Tokens \cup {NoTokens}, cancelled : BOOLEAN]
          /\ probe \in [pc : ProbePcs, gen : Nat, user : Accounts \cup {Nobody}]
      BY <1>3 DEF IdleGetter, IdleProbe, GetterPcs, ProbePcs, Callers
    <2>5. /\ session \in [kind : Kinds, tokens : Tokens \cup {NoTokens}]
          /\ detached \in [op : {"none", "save", "delete"}, tokens : Tokens \cup {NoTokens}, gen : Nat]
          /\ principal \in Accounts \cup {Nobody} /\ stray \in BOOLEAN
          /\ logout \in [pc : {"idle", "cancelling"}, gen : Nat]
      BY <1>3 DEF Unsigned, Kinds, NoCall
    <2>. QED BY <1>2, <2>1, <2>2, <2>3, <2>4, <2>5 DEF TypeOK, TokenStates
  <1>5. GenerationsOK
    BY <1>1, <1>3 DEF GenerationsOK, NewLogin, IdleGetter, NoCall
  <1>6. ASSUME NEW q \in Logins PROVE JobOK(q) /\ ActivityOK(q)
    <2>1. JobOK(q)
      BY <1>1 DEF JobOK, NewLogin, Told
    <2>2. ActivityOK(q)
      BY <1>1 DEF ActivityOK, NewLogin, Running
    <2>. QED BY <2>1, <2>2
  <1>7. LoggedOutOK /\ RotationOK
    BY <1>3 DEF LoggedOutOK, RotationOK, IdleGetter, NoCall
  <1>8. ASSUME NEW q \in Logins PROVE LoggedInOK(q) /\ TokensOK(q)
    <2>1. LoggedInOK(q)
      BY <1>1, <1>3 DEF LoggedInOK, NewLogin
    <2>2. getter.tokens.by # q /\ detached.tokens.by # q
      BY <1>3 DEF IdleGetter, NoCall, NoTokens, AuthenticationAssumption
    <2>3. TokensOK(q)
      BY <1>1, <1>2, <2>2 DEF TokensOK, NewLogin, Signing
    <2>. QED BY <2>1, <2>3
  <1>9. NoPrincipalDuringLogin
    BY <1>3 DEF NoPrincipalDuringLogin
  <1>. QED BY <1>4, <1>5, <1>6, <1>7, <1>8, <1>9 DEF AuthInv, LoginsOK, KeychainOK

LEMMA StepInv ==
  ASSUME AuthenticationAssumption, AuthInv, [Next]_vars
  PROVE  AuthInv'
  <1>1. CASE UNCHANGED vars
    <2>1. UNCHANGED <<store, session, lifecycle, loginVars, keychainVars, getter, logout, expiries>>
      BY <1>1 DEF vars, credentialVars, otherVars
    <2>2. probe' = probe /\ principal' = principal
      BY <1>1 DEF vars, credentialVars, otherVars
    <2>. QED BY <2>1, <2>2, ProbeMoves, GetterKnown
  <1>2. ASSUME NEW r \in Logins, RegisterLogin(r) \/ CancelLogin(r)
        PROVE  AuthInv'
    BY <1>2, RegisterLoginStep, CancelLoginStep
  <1>3. ASSUME NEW r \in Logins, BeginStep(r)
        PROVE  AuthInv'
    BY <1>3, BeginRefusedStep, BeginLoginStep, DeviceCodeArrivesStep, DeviceCodeFailsStep DEF BeginStep
  <1>4. ASSUME NEW r \in Logins, RunStep(r)
        PROVE  AuthInv'
    BY <1>4, RunStartsStep, RunEndsStep, AuthorizedStep, SaveStep, EstablishStep, EmitStep, CleanUpStep
       DEF RunStep
  <1>5. ASSUME NEW who \in Callers, RequestToken(who)
        PROVE  AuthInv'
    BY <1>5, RequestTokenStep
  <1>6. CASE GetterStep
    BY <1>6, EnterRefreshStep, LoadCredentialsStep, FoundSteps, ValidFoundStep, RefreshAbandonedStep,
       RefreshRefusedStep, RefreshGrantedStep, DeleteIfCurrentStep, DropRequestStep, DetachedEndsStep
       DEF GetterStep
  <1>7. CASE ProbeStart \/ ProbeStep
    BY <1>7, ProbeSteps
  <1>8. CASE RequestLogout \/ Logout
    BY <1>8, RequestLogoutStep, LogoutStep
  <1>9. CASE Expire
    BY <1>9, ExpireStep
  <1>. QED BY <1>1, <1>2, <1>3, <1>4, <1>5, <1>6, <1>7, <1>8, <1>9 DEF Next

-----------------------------------------------------------------------------
(***************************************************************************)
(* The theorems.                                                           *)
(***************************************************************************)

\* Every state of every behaviour satisfies the inductive invariant.
THEOREM SignInHolds == AuthenticationAssumption /\ Spec => []AuthInv
  <1>1. AuthenticationAssumption /\ Init => AuthInv
    BY InitInv
  <1>2. AuthenticationAssumption /\ AuthInv /\ [Next]_vars => AuthInv'
    BY StepInv
  <1>3. AuthenticationAssumption => AuthenticationAssumption'
    BY DEF AuthenticationAssumption
  <1>. QED BY <1>1, <1>2, <1>3, PTL DEF Spec

\* The variables keep their types.
THEOREM SignInTyped == AuthenticationAssumption /\ Spec => []TypeOK
  <1>1. AuthInv => TypeOK
    BY DEF AuthInv
  <1>. QED BY <1>1, SignInHolds, PTL

\* After a logout that succeeded (AuthService::logout) no login and no rotation that was
\* under way brings credentials back, short of a keychain call that outlived its request.
THEOREM LogoutDeletes == AuthenticationAssumption /\ Spec => []LogoutDeletesCredentials
  <1>1. AuthInv => LogoutDeletesCredentials
    BY DEF AuthInv, KeychainOK, LoggedOutOK, LogoutDeletesCredentials, Generation
  <1>. QED BY <1>1, SignInHolds, PTL

\* After a login the window was told of, nothing of an earlier account is stored, and while
\* a login is under way nobody is the principal (AuthService::run, begin_github_auth).
THEOREM AccountsApart ==
  AuthenticationAssumption /\ Spec => [](LastLoginOwnsTheStore /\ NoPrincipalDuringLogin)
  <1>1. AuthInv => LastLoginOwnsTheStore /\ NoPrincipalDuringLogin
    BY DEF AuthInv, KeychainOK, LoggedInOK, LastLoginOwnsTheStore, Generation
  <1>. QED BY <1>1, SignInHolds, PTL

\* A cancellation that was accepted (cancel_github_auth) is what the window hears, and it
\* leaves no credentials of the login behind.
THEOREM CancelKeeps == AuthenticationAssumption /\ Spec => []CancelLeavesNothing
  <1>1. ASSUME AuthInv PROVE CancelLeavesNothing
    <2>1. ASSUME NEW r \in Logins, login[r].cancelled
          PROVE  /\ told[r] \in {"nothing", "cancelled"}
                 /\ login[r].pc = "over" /\ login[r].gen = lifecycle.generation => store.by # r
      <3>1. JobOK(r) /\ TokensOK(r)
        BY <1>1, GetterKnown
      <3>. QED BY <2>1, <3>1 DEF JobOK, TokensOK, Generation
    <2>. QED BY <2>1 DEF CancelLeavesNothing
  <1>. QED BY <1>1, SignInHolds, PTL

\* A login that is over was answered, whatever cancelled, overtook or failed it.
THEOREM LoginsAnswered == AuthenticationAssumption /\ Spec => []EveryLoginIsAnswered
  <1>1. AuthInv => EveryLoginIsAnswered
    BY GetterKnown DEF EveryLoginIsAnswered, JobOK, At, Told
  <1>. QED BY <1>1, SignInHolds, PTL

====
