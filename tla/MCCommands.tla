------------------------------ MODULE MCCommands ------------------------------
(***************************************************************************)
(* Small instances of the two components whose commands wait for locks:    *)
(* the sessions of the documents and the authentication.  A behaviour is   *)
(* one of the component that `part` names, while the other one stands at   *)
(* an initial state.  Where they meet, each has the other's side as steps  *)
(* of its own: a logout ends the sessions in DocumentSessions, and signs   *)
(* out in Authentication.                                                  *)
(***************************************************************************)
EXTENDS DocumentSessions, TLC

CONSTANTS Logins, RefreshJob, Stored, Nobody, MaxGeneration, MaxExpiries

VARIABLES part,
  store, detached, stray, session, principal, lifecycle, reserved, jobs, login, told,
  getter, probe, signOut, expiries                                        \* Authentication

Auth == INSTANCE Authentication WITH logout <- signOut
signInVars == <<store, detached, stray, session, principal, lifecycle, reserved, jobs, login,
              told, getter, probe, signOut, expiries>>

ASSUME CommandsAssumption == Auth!AuthenticationAssumption

CommandsInit ==
  /\ Init /\ Auth!Init
  /\ \/ part = "sessions" /\ store = Auth!NoTokens
     \/ part = "authentication"

CommandsNext ==
  \/ part = "sessions" /\ Next /\ UNCHANGED <<part, signInVars>>
  \/ part = "authentication" /\ Auth!Next /\ UNCHANGED <<part, vars>>

CommandsSpec == CommandsInit /\ [][CommandsNext]_<<vars, part, signInVars>>

Symmetry == Permutations(Sessions) \cup Permutations(Logins)

-----------------------------------------------------------------------------
(***************************************************************************)
(* The promises of Authentication, on this instance.                       *)
(***************************************************************************)

\* A logout that succeeded leaves no credentials in the keychain (commands/auth.rs).
LogoutDeletesCredentials == Auth!LogoutDeletesCredentials

\* Accounts do not mix: the credentials are those of the last login the window was told of,
\* whatever an earlier account's rotation or login does late, and from the moment a login begins
\* until it ends nobody is the principal (auth/service.rs, commands/auth.rs).
AccountsDoNotMix == Auth!LastLoginOwnsTheStore /\ Auth!NoPrincipalDuringLogin

\* A login whose cancellation was accepted leaves no credentials (commands/auth.rs).
CancelLeavesNothing == Auth!CancelLeavesNothing

\* A login that is over was answered by exactly the event that tells its outcome
\* (commands/auth.rs).
EveryLoginIsAnswered == Auth!EveryLoginIsAnswered
=============================================================================
