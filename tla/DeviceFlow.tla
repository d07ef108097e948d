------------------------------ MODULE DeviceFlow ------------------------------
(***************************************************************************)
(* The login by device code and the life of its tokens, in time            *)
(* (auth/service.rs, run and access_token_locked; auth/reqwest_api.rs):    *)
(* how long the loop waits between two polls, when a code and a token are  *)
(* held to expire, and what GitHub makes of it.  Authentication has the    *)
(* logins that compete and the store of the credentials, and no clock.     *)
(*                                                                         *)
(* The clock of GitHub, of the timers and of the process is the same.  A   *)
(* timer that is due and a request that times out go before the clock.     *)
(***************************************************************************)
EXTENDS Naturals

CONSTANTS
  Interval,     \* what GitHub asks for between two polls
  SlowBy,       \* what a slow_down adds to it
  CodeLife,     \* expires_in of the device code
  AccessLife,   \* of the access token, and of the refresh token
  RefreshLife,
  Timeout,      \* TOTAL_TIMEOUT of a request
  Window,       \* EXPIRY_SAFETY_WINDOW_SECONDS
  Horizon       \* bound of the model: the clock stops there

DeviceFlowAssumption ==
  /\ {Interval, SlowBy, CodeLife, RefreshLife, Horizon} \subseteq Nat
  /\ Timeout \in Nat \ {0}
  /\ AccessLife \in Nat /\ AccessLife > Timeout
  /\ Window \in Nat /\ Window >= 2 * Timeout

VARIABLES
  now,
  github,  \* its code and grant, the last poll, the interval it asks for, hurried polls
  login,   \* the loop of run
  getter,  \* access_token_locked
  tokens,  \* the stored tokens, with the time GitHub issued them
  handed   \* the last access token handed out, and when

vars == <<now, github, login, getter, tokens, handed>>

Smaller(a, b) == IF a < b THEN a ELSE b
NoTokens == [issued |-> 0, access |-> 0, refresh |-> 0]
NotYet == "nothing"

\* into_stored: the lifetimes count from the time it is called with.
Stored(issued, at) == [issued |-> issued, access |-> at + AccessLife, refresh |-> at + RefreshLife]

Init ==
  /\ now = 0
  /\ github = [code |-> NotYet, until |-> 0, issued |-> 0, last |-> 0, polled |-> FALSE,
               asked |-> Interval, hurried |-> FALSE]
  /\ login = [step |-> "begin", sent |-> 0, until |-> 0, interval |-> 0, wake |-> 0,
              answer |-> NotYet, result |-> NotYet]
  /\ getter = [step |-> "idle", since |-> 0, answer |-> NotYet, issued |-> 0]
  /\ tokens = NoTokens
  /\ handed = [issued |-> 0, at |-> 0, token |-> FALSE]

Requests == {"coding", "polling", "user"}
IsLate(sent) == now >= sent + Timeout
Ended(result) == [login EXCEPT !.step = "ended", !.result = result]
End(result) == login' = Ended(result) /\ UNCHANGED <<now, github, getter, tokens, handed>>

-----------------------------------------------------------------------------
(***************************************************************************)
(* The login.                                                              *)
(***************************************************************************)

Begin ==
  /\ login.step = "begin"
  /\ login' = [login EXCEPT !.step = "coding", !.sent = now]
  /\ UNCHANGED <<now, github, getter, tokens, handed>>

\* request_device_code: the code was issued some time before its answer comes.
TakeCode(issued) ==
  /\ login.step = "coding" /\ issued \in login.sent..now
  /\ github' = [github EXCEPT !.code = "pending", !.until = issued + CodeLife]
  /\ login' = [login EXCEPT !.step = "loop", !.until = now + CodeLife, !.interval = Interval]
  /\ UNCHANGED <<now, getter, tokens, handed>>

\* The interval, or what remains of the code when that is less.
Wait_Whole(interval, remaining) == interval
Wait(interval, remaining) == Smaller(interval, remaining)
Loop ==
  /\ login.step = "loop"
  /\ IF now >= login.until THEN login' = Ended("expired")
     ELSE login' = [login EXCEPT !.step = "waiting",
                                 !.wake = now + Wait(login.interval, login.until - now)]
  /\ UNCHANGED <<now, github, getter, tokens, handed>>

Wake ==
  /\ login.step = "waiting" /\ now >= login.wake
  /\ IF now >= login.until THEN login' = Ended("expired")
     ELSE login' = [login EXCEPT !.step = "polling", !.sent = now, !.answer = NotYet]
  /\ UNCHANGED <<now, github, getter, tokens, handed>>

\* poll_access_token: what the answer stands for.
Slowed_Alike(interval) == interval
Slowed(interval) == interval + SlowBy
PollEnds ==
  /\ login.step = "polling" /\ login.answer # NotYet
  /\ login' = CASE login.answer = "authorization_pending" -> [login EXCEPT !.step = "loop"]
                [] login.answer = "slow_down" ->
                     [login EXCEPT !.step = "loop", !.interval = Slowed(@)]
                [] login.answer = "access_denied" -> Ended("denied")
                [] login.answer = "expired_token" -> Ended("expired")
                [] login.answer = "token" -> [login EXCEPT !.step = "user", !.sent = now]
                [] OTHER -> Ended("failed")
  /\ UNCHANGED <<now, github, getter, tokens, handed>>

\* The poll is raced with what remained of the code when it was sent.
PollExpires == login.step = "polling" /\ login.answer = NotYet /\ now >= login.until /\ End("expired")
RequestFails == login.step \in Requests /\ End("failed")
Cancel == login.step \in {"loop", "waiting", "polling", "user"} /\ End("cancelled")

\* authenticated_user, into_stored and the store.
Authenticate ==
  /\ login.step = "user"
  /\ tokens' = Stored(github.issued, now)
  /\ login' = Ended("authenticated")
  /\ UNCHANGED <<now, github, getter, handed>>

-----------------------------------------------------------------------------
(***************************************************************************)
(* access_token_locked: the stored token while it is far from expiring,    *)
(* and a new one else.                                                     *)
(***************************************************************************)

IsFresh_ToTheEnd(expires) == expires > now
IsFresh(expires) == expires > now + Window
HandOut(issued) == handed' = [issued |-> issued, at |-> now, token |-> TRUE]

GetToken ==
  /\ getter.step = "idle" /\ tokens # NoTokens
  /\ IF IsFresh(tokens.access)
     THEN HandOut(tokens.issued) /\ UNCHANGED <<getter, tokens>>
     ELSE /\ UNCHANGED handed
          /\ IF tokens.refresh <= now
             THEN tokens' = NoTokens /\ UNCHANGED getter
             ELSE /\ getter' = [step |-> "refreshing", since |-> now, answer |-> NotYet, issued |-> 0]
                  /\ UNCHANGED tokens
  /\ UNCHANGED <<now, github, login>>

\* refresh_access_token: an unavailable GitHub changes nothing, a refusal deletes the tokens.
Refreshed ==
  /\ getter.step = "refreshing" /\ getter.answer # NotYet
  /\ getter' = [getter EXCEPT !.step = "idle"]
  /\ IF getter.answer = "token"
     THEN tokens' = Stored(getter.issued, getter.since) /\ HandOut(getter.issued)
     ELSE tokens' = NoTokens /\ UNCHANGED handed
  /\ UNCHANGED <<now, github, login>>
RefreshFails ==
  /\ getter.step = "refreshing"
  /\ getter' = [getter EXCEPT !.step = "idle"]
  /\ UNCHANGED <<now, github, login, tokens, handed>>

-----------------------------------------------------------------------------
(***************************************************************************)
(* GitHub, the user and the clock.                                         *)
(***************************************************************************)

Decide(code) ==
  /\ github.code = "pending"
  /\ github' = [github EXCEPT !.code = code]
  /\ UNCHANGED <<now, login, getter, tokens, handed>>

\* A poll is answered by the state of the code, or with slow_down; one that comes too early
\* always is.
IsHurried == github.polled /\ now < github.last + github.asked
Answers ==
  IF now >= github.until THEN {"expired_token"}
  ELSE {"slow_down", "other"} \cup
       (CASE github.code = "pending" -> {"authorization_pending"}
          [] github.code = "denied" -> {"access_denied"}
          [] OTHER -> {"token"})
Receive(answer) ==
  /\ login.step = "polling" /\ login.answer = NotYet /\ answer \in Answers
  /\ github' = [github EXCEPT
                 !.last = now, !.polled = TRUE, !.hurried = @ \/ IsHurried,
                 !.issued = IF answer = "token" THEN now ELSE @,
                 !.asked = IF answer = "slow_down" THEN @ + SlowBy ELSE @]
  /\ login' = [login EXCEPT !.answer = answer]
  /\ UNCHANGED <<now, getter, tokens, handed>>
ReceiveRefresh(answer) ==
  /\ getter.step = "refreshing" /\ getter.answer = NotYet
  /\ getter' = [getter EXCEPT !.answer = answer, !.issued = now]
  /\ UNCHANGED <<now, github, login, tokens, handed>>

\* What must happen before the clock goes on.
IsDue ==
  \/ login.step = "loop"
  \/ login.step = "waiting" /\ now >= login.wake
  \/ login.step \in Requests /\ IsLate(login.sent)
  \/ login.step = "polling" /\ now >= login.until
  \/ getter.step = "refreshing" /\ IsLate(getter.since)
Tick ==
  /\ now < Horizon /\ ~IsDue
  /\ now' = now + 1
  /\ UNCHANGED <<github, login, getter, tokens, handed>>

Next ==
  \/ Begin \/ Loop \/ Wake \/ PollEnds \/ PollExpires \/ RequestFails \/ Cancel \/ Authenticate
  \/ \E issued \in 0..now : TakeCode(issued)
  \/ GetToken \/ Refreshed \/ RefreshFails
  \/ \E code \in {"approved", "denied"} : Decide(code)
  \/ \E answer \in {"authorization_pending", "slow_down", "access_denied", "expired_token",
                    "token", "other"} : Receive(answer)
  \/ \E answer \in {"token", "error"} : ReceiveRefresh(answer)
  \/ Tick

Spec == Init /\ [][Next]_vars

-----------------------------------------------------------------------------
(***************************************************************************)
(* Properties                                                              *)
(***************************************************************************)

\* Two polls reach GitHub no closer than the interval it last asked for, every slow_down
\* included, whatever the requests take: it would answer slow_down for ever
\* (auth/service.rs, run).
PollsKeepTheirDistance == ~github.hurried

\* The loop waits no longer than the code lives: a login nobody answers ends when its code
\* expires, not an interval later (auth/service.rs, run).
LoginEndsWithItsCode == login.step \in {"loop", "waiting", "polling"} => now <= login.until

\* An access token is alive when it is handed out.  A login counts the life of its token from a
\* time up to two requests after it was issued, so the safety window must cover both
\* (auth/service.rs, EXPIRY_SAFETY_WINDOW_SECONDS; auth/reqwest_api.rs, TOTAL_TIMEOUT).
TokenIsAlive == handed.token => handed.at < handed.issued + AccessLife
=============================================================================
