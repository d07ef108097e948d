--------------------------- MODULE ServicesProofs ---------------------------
(***************************************************************************)
(* Promises of the components that work for themselves, for every bound    *)
(* and every set of documents, projects, threads and requests.  Eight of   *)
(* them have an inductive invariant of their own, with a lemma that it     *)
(* holds at first and one that every step keeps it; ServicesInv says which *)
(* of them a behaviour keeps, and the theorems at the end follow from it.  *)
(***************************************************************************)
EXTENDS MCServices, SequenceTheorems, WellFoundedInduction, TLAPS

\* Only one part moves.
LEMMA PartStays == [Next]_vars => part' = part
  BY DEF Next, OthersStandStill, vars

-----------------------------------------------------------------------------
(***************************************************************************)
(* DeviceFlow.                                                             *)
(***************************************************************************)
DeviceSteps == {"begin", "coding", "loop", "waiting", "polling", "user", "ended"}
DeviceAnswers ==
  {"nothing", "authorization_pending", "slow_down", "access_denied", "expired_token", "token",
   "other"}
Codes == {"nothing", "pending", "approved", "denied"}
Results == {"nothing", "expired", "failed", "cancelled", "denied", "authenticated"}

GithubStates == [code : Codes, until : Nat, issued : Nat, last : Nat, polled : BOOLEAN,
                 asked : Nat, hurried : BOOLEAN]
LoginStates == [step : DeviceSteps, sent : Nat, until : Nat, interval : Nat, wake : Nat,
                answer : DeviceAnswers, result : Results]
GetterStates == [step : {"idle", "refreshing"}, since : Nat,
                 answer : {"nothing", "token", "error"}, issued : Nat]
TokenStates == [issued : Nat, access : Nat, refresh : Nat]
HandedStates == [issued : Nat, at : Nat, token : BOOLEAN]

DeviceTypeOK ==
  /\ now \in Nat /\ github \in GithubStates /\ login \in LoginStates
  /\ getter \in GetterStates /\ tokens \in TokenStates /\ handed \in HandedStates

\* The interval of the loop is the one GitHub asks for, but for a slow_down just received.
IntervalOK ==
  /\ login.step \in {"begin", "coding"} => ~github.polled /\ github.asked = Interval
  /\ login.step \in {"loop", "waiting"} => github.asked = login.interval
  /\ login.step = "polling" =>
       github.asked = login.interval + (IF login.answer = "slow_down" THEN SlowBy ELSE 0)

\* The loop sleeps the whole interval, or until the code is dead; so no poll is early.
DistanceOK ==
  /\ github.polled => github.last <= now
  /\ login.step = "waiting" =>
       /\ login.wake <= login.until
       /\ github.polled =>
            \/ login.wake >= github.last + github.asked
            \/ login.wake = login.until
  /\ login.step = "polling" /\ login.answer = "nothing" /\ github.polled =>
       now >= github.last + github.asked

\* What a clock that waits for timers and timeouts has not passed.
ClockOK ==
  /\ login.step \in {"loop", "waiting", "polling"} => now <= login.until
  /\ login.step \in {"coding", "polling", "user"} =>
       login.sent <= now /\ now <= login.sent + Timeout
  /\ getter.step = "refreshing" => getter.since <= now /\ now <= getter.since + Timeout

\* How much later than GitHub the life of a token is counted.
TokensOK ==
  /\ login.step = "polling" /\ login.answer = "token" => github.issued >= login.sent
  /\ login.step = "user" => login.sent <= github.issued + Timeout
  /\ tokens # Device!NoTokens => tokens.access <= tokens.issued + 2 * Timeout + AccessLife
  /\ getter.step = "refreshing" /\ getter.answer # "nothing" => getter.issued >= getter.since
  /\ handed.token => handed.at < handed.issued + AccessLife

DeviceInv ==
  /\ DeviceTypeOK /\ IntervalOK /\ DistanceOK /\ ClockOK /\ TokensOK
  /\ Device!PollsKeepTheirDistance

LEMMA DeviceConstants ==
  /\ Interval \in Nat /\ SlowBy \in Nat /\ CodeLife \in Nat /\ RefreshLife \in Nat
  /\ Timeout \in Nat /\ Timeout > 0 /\ AccessLife \in Nat /\ AccessLife > Timeout
  /\ Window \in Nat /\ Window >= 2 * Timeout
  BY ServicesAssumption DEF Device!DeviceFlowAssumption

LEMMA DeviceInit == Device!Init => DeviceInv
  BY DeviceConstants
     DEF Device!Init, DeviceInv, DeviceTypeOK, IntervalOK, DistanceOK, ClockOK, TokensOK,
         Device!PollsKeepTheirDistance, Device!NotYet, Device!NoTokens, DeviceSteps, DeviceAnswers, Codes, Results,
         GithubStates, LoginStates, GetterStates, TokenStates, HandedStates

\* A login that ends keeps what it has, and no poll of it is under way.
LEMMA LoginEnds ==
  ASSUME DeviceInv, NEW outcome \in Results, login' = Device!Ended(outcome),
         UNCHANGED <<now, github, getter, tokens, handed>>
  PROVE  DeviceInv'
<1>1. now' = now /\ github' = github /\ getter' = getter /\ tokens' = tokens /\ handed' = handed
  BY DEF Device!Ended
<1>2. login' \in LoginStates /\ login'.step = "ended" /\ login'.sent = login.sent
      /\ login'.until = login.until /\ login'.interval = login.interval
      /\ login'.wake = login.wake /\ login'.answer = login.answer /\ login'.result = outcome
  BY <1>1, DeviceConstants
     DEF DeviceInv, DeviceTypeOK, LoginStates, DeviceSteps, DeviceAnswers, Results,
         Device!NotYet, Device!Ended
<1>3. DeviceTypeOK'
  BY <1>1, <1>2 DEF DeviceInv, DeviceTypeOK
<1>4. IntervalOK'
  BY <1>1, <1>2, DeviceConstants
     DEF DeviceInv, DeviceTypeOK, IntervalOK, GithubStates, LoginStates, GetterStates,
         TokenStates, HandedStates
<1>5. DistanceOK'
  BY <1>1, <1>2, DeviceConstants
     DEF DeviceInv, DeviceTypeOK, DistanceOK, IntervalOK, ClockOK, GithubStates, LoginStates,
         GetterStates, TokenStates, HandedStates
<1>6. ClockOK'
  BY <1>1, <1>2, DeviceConstants
     DEF DeviceInv, DeviceTypeOK, ClockOK, DistanceOK, GithubStates, LoginStates, GetterStates,
         TokenStates, HandedStates
<1>7. TokensOK'
  BY <1>1, <1>2, DeviceConstants
     DEF DeviceInv, DeviceTypeOK, TokensOK, ClockOK, Device!NoTokens, GithubStates,
         LoginStates, GetterStates, TokenStates, HandedStates
<1>8. Device!PollsKeepTheirDistance'
  BY <1>1, <1>2, DeviceConstants
     DEF DeviceInv, DeviceTypeOK, Device!PollsKeepTheirDistance, DistanceOK, Device!IsHurried,
         GithubStates, LoginStates, GetterStates, TokenStates, HandedStates
<1>. QED
  BY <1>3, <1>4, <1>5, <1>6, <1>7, <1>8 DEF DeviceInv

LEMMA DeviceStep ==
  ASSUME DeviceInv, Device!Next
  PROVE  DeviceInv'
<1>1. CASE Device!Begin
  <2>1. login.step = "begin"
    BY <1>1 DEF DeviceInv, DeviceTypeOK, LoginStates, GetterStates, Device!NotYet, Device!Begin
  <2>2. now' = now /\ github' = github /\ getter' = getter /\ tokens' = tokens
        /\ handed' = handed
    BY <1>1 DEF Device!Begin
  <2>3. login' \in LoginStates /\ login'.step = "coding" /\ login'.sent = now
        /\ login'.until = login.until /\ login'.interval = login.interval
        /\ login'.wake = login.wake /\ login'.answer = login.answer
        /\ login'.result = login.result
    BY <1>1, <2>1, <2>2, DeviceConstants
       DEF DeviceInv, DeviceTypeOK, LoginStates, DeviceSteps, DeviceAnswers, Results,
           Device!NotYet, Device!Begin
  <2>4. DeviceTypeOK'
    BY <2>1, <2>2, <2>3 DEF DeviceInv, DeviceTypeOK
  <2>5. IntervalOK'
    BY <2>1, <2>2, <2>3, DeviceConstants
       DEF DeviceInv, DeviceTypeOK, IntervalOK, GithubStates, LoginStates, GetterStates,
           TokenStates, HandedStates
  <2>6. DistanceOK'
    BY <2>1, <2>2, <2>3, DeviceConstants
       DEF DeviceInv, DeviceTypeOK, DistanceOK, IntervalOK, ClockOK, GithubStates, LoginStates,
           GetterStates, TokenStates, HandedStates
  <2>7. ClockOK'
    BY <2>1, <2>2, <2>3, DeviceConstants
       DEF DeviceInv, DeviceTypeOK, ClockOK, DistanceOK, GithubStates, LoginStates,
           GetterStates, TokenStates, HandedStates
  <2>8. TokensOK'
    BY <2>1, <2>2, <2>3, DeviceConstants
       DEF DeviceInv, DeviceTypeOK, TokensOK, ClockOK, Device!NoTokens, GithubStates,
           LoginStates, GetterStates, TokenStates, HandedStates
  <2>9. Device!PollsKeepTheirDistance'
    BY <2>1, <2>2, <2>3, DeviceConstants
       DEF DeviceInv, DeviceTypeOK, Device!PollsKeepTheirDistance, DistanceOK,
           Device!IsHurried, GithubStates, LoginStates, GetterStates, TokenStates, HandedStates
  <2>. QED
    BY <2>4, <2>5, <2>6, <2>7, <2>8, <2>9 DEF DeviceInv
<1>2. CASE Device!Loop
  <2>1. CASE now >= login.until
    <3>1. login' = Device!Ended("expired") /\ UNCHANGED <<now, github, getter, tokens, handed>>
      BY <1>2, <2>1 DEF Device!Loop
    <3>. QED
      BY <3>1, LoginEnds DEF Results
  <2>2. CASE ~(now >= login.until)
    <3>. DEFINE sleep == Device!Wait(login.interval, login.until - now)
    <3>0. /\ sleep \in Nat /\ now + sleep \in Nat /\ now + sleep <= login.until
          /\ sleep = login.interval \/ now + sleep = login.until
      BY <2>2 DEF DeviceInv, DeviceTypeOK, LoginStates, Device!Wait, Device!Smaller
    <3>00. login.step = "loop" /\ login' = [login EXCEPT !.step = "waiting", !.wake = now + sleep]
           /\ UNCHANGED <<now, github, getter, tokens, handed>>
      BY <1>2, <2>2 DEF Device!Loop
    <3>. HIDE DEF sleep
    <3>1. login.step = "loop"
      BY <3>0, <3>00 DEF DeviceInv, DeviceTypeOK, LoginStates, GetterStates, Device!NotYet
    <3>2. now' = now /\ github' = github /\ getter' = getter /\ tokens' = tokens
          /\ handed' = handed
      BY <3>0, <3>00
    <3>3. login' \in LoginStates /\ login'.step = "waiting" /\ login'.sent = login.sent
          /\ login'.until = login.until /\ login'.interval = login.interval
          /\ login'.wake = now + sleep /\ login'.answer = login.answer
          /\ login'.result = login.result
      BY <3>0, <3>00, <3>1, <3>2, DeviceConstants
         DEF DeviceInv, DeviceTypeOK, LoginStates, DeviceSteps, DeviceAnswers, Results,
             Device!NotYet
    <3>4. DeviceTypeOK'
      BY <3>1, <3>2, <3>3 DEF DeviceInv, DeviceTypeOK
    <3>5. IntervalOK'
      BY <3>1, <3>2, <3>3, DeviceConstants, <3>0
         DEF DeviceInv, DeviceTypeOK, IntervalOK, GithubStates, LoginStates, GetterStates,
             TokenStates, HandedStates
    <3>6. DistanceOK'
      BY <3>1, <3>2, <3>3, DeviceConstants, <3>0
         DEF DeviceInv, DeviceTypeOK, DistanceOK, IntervalOK, ClockOK, GithubStates,
             LoginStates, GetterStates, TokenStates, HandedStates
    <3>7. ClockOK'
      BY <3>1, <3>2, <3>3, DeviceConstants, <3>0
         DEF DeviceInv, DeviceTypeOK, ClockOK, DistanceOK, GithubStates, LoginStates,
             GetterStates, TokenStates, HandedStates
    <3>8. TokensOK'
      BY <3>1, <3>2, <3>3, DeviceConstants, <3>0
         DEF DeviceInv, DeviceTypeOK, TokensOK, ClockOK, Device!NoTokens, GithubStates,
             LoginStates, GetterStates, TokenStates, HandedStates
    <3>9. Device!PollsKeepTheirDistance'
      BY <3>1, <3>2, <3>3, DeviceConstants, <3>0
         DEF DeviceInv, DeviceTypeOK, Device!PollsKeepTheirDistance, DistanceOK,
             Device!IsHurried, GithubStates, LoginStates, GetterStates, TokenStates, HandedStates
    <3>. QED
      BY <3>4, <3>5, <3>6, <3>7, <3>8, <3>9 DEF DeviceInv
  <2>. QED
    BY <2>1, <2>2
<1>3. CASE Device!Wake
  <2>1. CASE now >= login.until
    <3>1. login' = Device!Ended("expired") /\ UNCHANGED <<now, github, getter, tokens, handed>>
      BY <1>3, <2>1 DEF Device!Wake
    <3>. QED
      BY <3>1, LoginEnds DEF Results
  <2>2. CASE ~(now >= login.until)
    <3>1. login.step = "waiting" /\ now >= login.wake /\ now < login.until
      BY <1>3, <2>2
         DEF DeviceInv, DeviceTypeOK, LoginStates, GetterStates, Device!NotYet, Device!Wake
    <3>2. now' = now /\ github' = github /\ getter' = getter /\ tokens' = tokens
          /\ handed' = handed
      BY <1>3, <2>2 DEF Device!Wake
    <3>3. login' \in LoginStates /\ login'.step = "polling" /\ login'.sent = now
          /\ login'.until = login.until /\ login'.interval = login.interval
          /\ login'.wake = login.wake /\ login'.answer = "nothing"
          /\ login'.result = login.result
      BY <1>3, <2>2, <3>1, <3>2, DeviceConstants
         DEF DeviceInv, DeviceTypeOK, LoginStates, DeviceSteps, DeviceAnswers, Results,
             Device!NotYet, Device!Wake
    <3>4. DeviceTypeOK'
      BY <3>1, <3>2, <3>3 DEF DeviceInv, DeviceTypeOK
    <3>5. IntervalOK'
      BY <3>1, <3>2, <3>3, DeviceConstants
         DEF DeviceInv, DeviceTypeOK, IntervalOK, GithubStates, LoginStates, GetterStates,
             TokenStates, HandedStates
    <3>6. DistanceOK'
      BY <3>1, <3>2, <3>3, DeviceConstants
         DEF DeviceInv, DeviceTypeOK, DistanceOK, IntervalOK, ClockOK, GithubStates,
             LoginStates, GetterStates, TokenStates, HandedStates
    <3>7. ClockOK'
      BY <3>1, <3>2, <3>3, DeviceConstants
         DEF DeviceInv, DeviceTypeOK, ClockOK, DistanceOK, GithubStates, LoginStates,
             GetterStates, TokenStates, HandedStates
    <3>8. TokensOK'
      BY <3>1, <3>2, <3>3, DeviceConstants
         DEF DeviceInv, DeviceTypeOK, TokensOK, ClockOK, Device!NoTokens, GithubStates,
             LoginStates, GetterStates, TokenStates, HandedStates
    <3>9. Device!PollsKeepTheirDistance'
      BY <3>1, <3>2, <3>3, DeviceConstants
         DEF DeviceInv, DeviceTypeOK, Device!PollsKeepTheirDistance, DistanceOK,
             Device!IsHurried, GithubStates, LoginStates, GetterStates, TokenStates, HandedStates
    <3>. QED
      BY <3>4, <3>5, <3>6, <3>7, <3>8, <3>9 DEF DeviceInv
  <2>. QED
    BY <2>1, <2>2
<1>4. CASE Device!PollEnds
  <2>1. CASE login.answer = "authorization_pending"
    <3>0. login.step = "polling" /\ login' = [login EXCEPT !.step = "loop"]
          /\ UNCHANGED <<now, github, getter, tokens, handed>>
      BY <1>4, <2>1 DEF Device!PollEnds, Device!Slowed
    <3>1. login.step = "polling" /\ login.answer = "authorization_pending"
      BY <2>1, <3>0, DeviceConstants
         DEF DeviceInv, DeviceTypeOK, LoginStates, GetterStates, Device!NotYet
    <3>2. now' = now /\ github' = github /\ getter' = getter /\ tokens' = tokens
          /\ handed' = handed
      BY <2>1, <3>0, DeviceConstants
    <3>3. login' \in LoginStates /\ login'.step = "loop" /\ login'.sent = login.sent
          /\ login'.until = login.until /\ login'.interval = login.interval
          /\ login'.wake = login.wake /\ login'.answer = login.answer
          /\ login'.result = login.result
      BY <2>1, <3>0, DeviceConstants, <3>1, <3>2
         DEF DeviceInv, DeviceTypeOK, LoginStates, DeviceSteps, DeviceAnswers, Results,
             Device!NotYet
    <3>4. DeviceTypeOK'
      BY <3>1, <3>2, <3>3 DEF DeviceInv, DeviceTypeOK
    <3>5. IntervalOK'
      BY <3>1, <3>2, <3>3, DeviceConstants
         DEF DeviceInv, DeviceTypeOK, IntervalOK, GithubStates, LoginStates, GetterStates,
             TokenStates, HandedStates
    <3>6. DistanceOK'
      BY <3>1, <3>2, <3>3, DeviceConstants
         DEF DeviceInv, DeviceTypeOK, DistanceOK, IntervalOK, ClockOK, GithubStates,
             LoginStates, GetterStates, TokenStates, HandedStates
    <3>7. ClockOK'
      BY <3>1, <3>2, <3>3, DeviceConstants
         DEF DeviceInv, DeviceTypeOK, ClockOK, DistanceOK, GithubStates, LoginStates,
             GetterStates, TokenStates, HandedStates
    <3>8. TokensOK'
      BY <3>1, <3>2, <3>3, DeviceConstants
         DEF DeviceInv, DeviceTypeOK, TokensOK, ClockOK, Device!NoTokens, GithubStates,
             LoginStates, GetterStates, TokenStates, HandedStates
    <3>9. Device!PollsKeepTheirDistance'
      BY <3>1, <3>2, <3>3, DeviceConstants
         DEF DeviceInv, DeviceTypeOK, Device!PollsKeepTheirDistance, DistanceOK,
             Device!IsHurried, GithubStates, LoginStates, GetterStates, TokenStates, HandedStates
    <3>. QED
      BY <3>4, <3>5, <3>6, <3>7, <3>8, <3>9 DEF DeviceInv
  <2>2. CASE login.answer = "slow_down"
    <3>0. login.step = "polling" /\ login' = [login EXCEPT !.step = "loop", !.interval = login.interval + SlowBy]
          /\ UNCHANGED <<now, github, getter, tokens, handed>>
      BY <1>4, <2>2 DEF Device!PollEnds, Device!Slowed
    <3>1. login.step = "polling" /\ login.answer = "slow_down" /\ login.interval + SlowBy \in Nat
      BY <2>2, <3>0, DeviceConstants
         DEF DeviceInv, DeviceTypeOK, LoginStates, GetterStates, Device!NotYet
    <3>2. now' = now /\ github' = github /\ getter' = getter /\ tokens' = tokens
          /\ handed' = handed
      BY <2>2, <3>0, DeviceConstants
    <3>3. login' \in LoginStates /\ login'.step = "loop" /\ login'.sent = login.sent
          /\ login'.until = login.until /\ login'.interval = login.interval + SlowBy
          /\ login'.wake = login.wake /\ login'.answer = login.answer
          /\ login'.result = login.result
      BY <2>2, <3>0, DeviceConstants, <3>1, <3>2
         DEF DeviceInv, DeviceTypeOK, LoginStates, DeviceSteps, DeviceAnswers, Results,
             Device!NotYet
    <3>4. DeviceTypeOK'
      BY <3>1, <3>2, <3>3 DEF DeviceInv, DeviceTypeOK
    <3>5. IntervalOK'
      BY <3>1, <3>2, <3>3, DeviceConstants
         DEF DeviceInv, DeviceTypeOK, IntervalOK, GithubStates, LoginStates, GetterStates,
             TokenStates, HandedStates
    <3>6. DistanceOK'
      BY <3>1, <3>2, <3>3, DeviceConstants
         DEF DeviceInv, DeviceTypeOK, DistanceOK, IntervalOK, ClockOK, GithubStates,
             LoginStates, GetterStates, TokenStates, HandedStates
    <3>7. ClockOK'
      BY <3>1, <3>2, <3>3, DeviceConstants
         DEF DeviceInv, DeviceTypeOK, ClockOK, DistanceOK, GithubStates, LoginStates,
             GetterStates, TokenStates, HandedStates
    <3>8. TokensOK'
      BY <3>1, <3>2, <3>3, DeviceConstants
         DEF DeviceInv, DeviceTypeOK, TokensOK, ClockOK, Device!NoTokens, GithubStates,
             LoginStates, GetterStates, TokenStates, HandedStates
    <3>9. Device!PollsKeepTheirDistance'
      BY <3>1, <3>2, <3>3, DeviceConstants
         DEF DeviceInv, DeviceTypeOK, Device!PollsKeepTheirDistance, DistanceOK,
             Device!IsHurried, GithubStates, LoginStates, GetterStates, TokenStates, HandedStates
    <3>. QED
      BY <3>4, <3>5, <3>6, <3>7, <3>8, <3>9 DEF DeviceInv
  <2>3. CASE login.answer = "token"
    <3>0. login.step = "polling" /\ login' = [login EXCEPT !.step = "user", !.sent = now]
          /\ UNCHANGED <<now, github, getter, tokens, handed>>
      BY <1>4, <2>3 DEF Device!PollEnds, Device!Slowed
    <3>1. login.step = "polling" /\ login.answer = "token"
      BY <2>3, <3>0, DeviceConstants
         DEF DeviceInv, DeviceTypeOK, LoginStates, GetterStates, Device!NotYet
    <3>2. now' = now /\ github' = github /\ getter' = getter /\ tokens' = tokens
          /\ handed' = handed
      BY <2>3, <3>0, DeviceConstants
    <3>3. login' \in LoginStates /\ login'.step = "user" /\ login'.sent = now
          /\ login'.until = login.until /\ login'.interval = login.interval
          /\ login'.wake = login.wake /\ login'.answer = login.answer
          /\ login'.result = login.result
      BY <2>3, <3>0, DeviceConstants, <3>1, <3>2
         DEF DeviceInv, DeviceTypeOK, LoginStates, DeviceSteps, DeviceAnswers, Results,
             Device!NotYet
    <3>4. DeviceTypeOK'
      BY <3>1, <3>2, <3>3 DEF DeviceInv, DeviceTypeOK
    <3>5. IntervalOK'
      BY <3>1, <3>2, <3>3, DeviceConstants
         DEF DeviceInv, DeviceTypeOK, IntervalOK, GithubStates, LoginStates, GetterStates,
             TokenStates, HandedStates
    <3>6. DistanceOK'
      BY <3>1, <3>2, <3>3, DeviceConstants
         DEF DeviceInv, DeviceTypeOK, DistanceOK, IntervalOK, ClockOK, GithubStates,
             LoginStates, GetterStates, TokenStates, HandedStates
    <3>7. ClockOK'
      BY <3>1, <3>2, <3>3, DeviceConstants
         DEF DeviceInv, DeviceTypeOK, ClockOK, DistanceOK, GithubStates, LoginStates,
             GetterStates, TokenStates, HandedStates
    <3>8. TokensOK'
      BY <3>1, <3>2, <3>3, DeviceConstants
         DEF DeviceInv, DeviceTypeOK, TokensOK, ClockOK, Device!NoTokens, GithubStates,
             LoginStates, GetterStates, TokenStates, HandedStates
    <3>9. Device!PollsKeepTheirDistance'
      BY <3>1, <3>2, <3>3, DeviceConstants
         DEF DeviceInv, DeviceTypeOK, Device!PollsKeepTheirDistance, DistanceOK,
             Device!IsHurried, GithubStates, LoginStates, GetterStates, TokenStates, HandedStates
    <3>. QED
      BY <3>4, <3>5, <3>6, <3>7, <3>8, <3>9 DEF DeviceInv
  <2>4. CASE login.answer \notin {"authorization_pending", "slow_down", "token"}
    <3>1. /\ \E outcome \in Results : login' = Device!Ended(outcome)
          /\ UNCHANGED <<now, github, getter, tokens, handed>>
      BY <1>4, <2>4 DEF Device!PollEnds, Results
    <3>. QED
      BY <3>1, LoginEnds
  <2>. QED
    BY <2>1, <2>2, <2>3, <2>4
<1>5. CASE Device!PollExpires
  BY <1>5, LoginEnds DEF Results, Device!PollExpires, Device!End
<1>6. CASE Device!RequestFails
  BY <1>6, LoginEnds DEF Results, Device!RequestFails, Device!End
<1>7. CASE Device!Cancel
  BY <1>7, LoginEnds DEF Results, Device!Cancel, Device!End
<1>8. CASE Device!Authenticate
  <2>1. login.step = "user"
    BY <1>8
       DEF DeviceInv, DeviceTypeOK, LoginStates, GetterStates, Device!NotYet,
           Device!Authenticate, Device!Ended, Device!Stored
  <2>2. now' = now /\ github' = github /\ getter' = getter /\ handed' = handed
    BY <1>8 DEF Device!Authenticate, Device!Ended, Device!Stored
  <2>3. login' \in LoginStates /\ login'.step = "ended" /\ login'.sent = login.sent
        /\ login'.until = login.until /\ login'.interval = login.interval
        /\ login'.wake = login.wake /\ login'.answer = login.answer
        /\ login'.result = "authenticated"
    BY <1>8, <2>1, <2>2, DeviceConstants
       DEF DeviceInv, DeviceTypeOK, LoginStates, DeviceSteps, DeviceAnswers, Results,
           Device!NotYet, Device!Authenticate, Device!Ended, Device!Stored
  <2>4. tokens' \in TokenStates /\ tokens'.issued = github.issued
        /\ tokens'.access = now + AccessLife /\ tokens'.refresh = now + RefreshLife
    BY <1>8, <2>1, <2>2, <2>3, DeviceConstants
       DEF DeviceInv, DeviceTypeOK, TokenStates, GetterStates, GithubStates, Codes,
           Device!NotYet, Device!Authenticate, Device!Ended, Device!Stored, Device!NoTokens
  <2>5. DeviceTypeOK'
    BY <2>1, <2>2, <2>3, <2>4 DEF DeviceInv, DeviceTypeOK
  <2>6. IntervalOK'
    BY <2>1, <2>2, <2>3, <2>4, DeviceConstants
       DEF DeviceInv, DeviceTypeOK, IntervalOK, GithubStates, LoginStates, GetterStates,
           TokenStates, HandedStates
  <2>7. DistanceOK'
    BY <2>1, <2>2, <2>3, <2>4, DeviceConstants
       DEF DeviceInv, DeviceTypeOK, DistanceOK, IntervalOK, ClockOK, GithubStates, LoginStates,
           GetterStates, TokenStates, HandedStates
  <2>8. ClockOK'
    BY <2>1, <2>2, <2>3, <2>4, DeviceConstants
       DEF DeviceInv, DeviceTypeOK, ClockOK, DistanceOK, GithubStates, LoginStates,
           GetterStates, TokenStates, HandedStates
  <2>9. TokensOK'
    BY <2>1, <2>2, <2>3, <2>4, DeviceConstants
       DEF DeviceInv, DeviceTypeOK, TokensOK, ClockOK, Device!NoTokens, GithubStates,
           LoginStates, GetterStates, TokenStates, HandedStates
  <2>10. Device!PollsKeepTheirDistance'
    BY <2>1, <2>2, <2>3, <2>4, DeviceConstants
       DEF DeviceInv, DeviceTypeOK, Device!PollsKeepTheirDistance, DistanceOK,
           Device!IsHurried, GithubStates, LoginStates, GetterStates, TokenStates, HandedStates
  <2>. QED
    BY <2>5, <2>6, <2>7, <2>8, <2>9, <2>10 DEF DeviceInv
<1>9. ASSUME NEW issued \in 0..now,
              Device!TakeCode(issued)
       PROVE  DeviceInv'
  <2>1. login.step = "coding" /\ issued \in Nat /\ issued + CodeLife \in Nat
        /\ now + CodeLife \in Nat
    BY <1>9, DeviceConstants
       DEF DeviceInv, DeviceTypeOK, LoginStates, GetterStates, Device!NotYet, Device!TakeCode
  <2>2. now' = now /\ getter' = getter /\ tokens' = tokens /\ handed' = handed
    BY <1>9, DeviceConstants DEF Device!TakeCode
  <2>3. github' \in GithubStates /\ github'.code = "pending" /\ github'.until = issued + CodeLife
        /\ github'.issued = github.issued /\ github'.last = github.last
        /\ github'.polled = github.polled /\ github'.asked = github.asked
        /\ github'.hurried = github.hurried
    BY <1>9, DeviceConstants, <2>1, <2>2
       DEF DeviceInv, DeviceTypeOK, GithubStates, Codes, Device!NotYet, Device!TakeCode
  <2>4. login' \in LoginStates /\ login'.step = "loop" /\ login'.sent = login.sent
        /\ login'.until = now + CodeLife /\ login'.interval = Interval
        /\ login'.wake = login.wake /\ login'.answer = login.answer
        /\ login'.result = login.result
    BY <1>9, DeviceConstants, <2>1, <2>2, <2>3
       DEF DeviceInv, DeviceTypeOK, LoginStates, DeviceSteps, DeviceAnswers, Results,
           Device!NotYet, Device!TakeCode
  <2>5. DeviceTypeOK'
    BY <2>1, <2>2, <2>3, <2>4 DEF DeviceInv, DeviceTypeOK
  <2>6. IntervalOK'
    BY <2>1, <2>2, <2>3, <2>4, DeviceConstants
       DEF DeviceInv, DeviceTypeOK, IntervalOK, GithubStates, LoginStates, GetterStates,
           TokenStates, HandedStates
  <2>7. DistanceOK'
    BY <2>1, <2>2, <2>3, <2>4, DeviceConstants
       DEF DeviceInv, DeviceTypeOK, DistanceOK, IntervalOK, ClockOK, GithubStates, LoginStates,
           GetterStates, TokenStates, HandedStates
  <2>8. ClockOK'
    BY <2>1, <2>2, <2>3, <2>4, DeviceConstants
       DEF DeviceInv, DeviceTypeOK, ClockOK, DistanceOK, GithubStates, LoginStates,
           GetterStates, TokenStates, HandedStates
  <2>9. TokensOK'
    BY <2>1, <2>2, <2>3, <2>4, DeviceConstants
       DEF DeviceInv, DeviceTypeOK, TokensOK, ClockOK, Device!NoTokens, GithubStates,
           LoginStates, GetterStates, TokenStates, HandedStates
  <2>10. Device!PollsKeepTheirDistance'
    BY <2>1, <2>2, <2>3, <2>4, DeviceConstants
       DEF DeviceInv, DeviceTypeOK, Device!PollsKeepTheirDistance, DistanceOK,
           Device!IsHurried, GithubStates, LoginStates, GetterStates, TokenStates, HandedStates
  <2>. QED
    BY <2>5, <2>6, <2>7, <2>8, <2>9, <2>10 DEF DeviceInv
<1>10. CASE Device!GetToken
  <2>1. CASE Device!IsFresh(tokens.access)
    <3>1. tokens # Device!NoTokens /\ tokens.access > now + Window
      BY <1>10, <2>1
         DEF DeviceInv, DeviceTypeOK, LoginStates, GetterStates, Device!NotYet,
             Device!GetToken, Device!HandOut, Device!IsFresh
    <3>2. now' = now /\ github' = github /\ login' = login /\ getter' = getter
          /\ tokens' = tokens
      BY <1>10, <2>1 DEF Device!GetToken, Device!HandOut, Device!IsFresh
    <3>3. handed' = [issued |-> tokens.issued, at |-> now, token |-> TRUE]
      BY <1>10, <2>1 DEF Device!GetToken, Device!HandOut, Device!IsFresh
    <3>4. tokens.issued \in Nat /\ now \in Nat
      BY <1>10, <2>1 DEF DeviceInv, DeviceTypeOK, TokenStates, GetterStates
    <3>5. handed' \in HandedStates /\ handed'.issued = tokens.issued /\ handed'.at = now
          /\ handed'.token
      BY <3>4, <3>3 DEF HandedStates
    <3>6. DeviceTypeOK'
      BY <3>1, <3>2, <3>3, <3>4, <3>5 DEF DeviceInv, DeviceTypeOK
    <3>7. IntervalOK'
      BY <3>1, <3>2, <3>3, <3>4, <3>5, DeviceConstants
         DEF DeviceInv, DeviceTypeOK, IntervalOK, GithubStates, LoginStates, GetterStates,
             TokenStates, HandedStates
    <3>8. DistanceOK'
      BY <3>1, <3>2, <3>3, <3>4, <3>5, DeviceConstants
         DEF DeviceInv, DeviceTypeOK, DistanceOK, IntervalOK, ClockOK, GithubStates,
             LoginStates, GetterStates, TokenStates, HandedStates
    <3>9. ClockOK'
      BY <3>1, <3>2, <3>3, <3>4, <3>5, DeviceConstants
         DEF DeviceInv, DeviceTypeOK, ClockOK, DistanceOK, GithubStates, LoginStates,
             GetterStates, TokenStates, HandedStates
    <3>10. TokensOK'
      BY <3>1, <3>2, <3>3, <3>4, <3>5, DeviceConstants
         DEF DeviceInv, DeviceTypeOK, TokensOK, ClockOK, Device!NoTokens, GithubStates,
             LoginStates, GetterStates, TokenStates, HandedStates
    <3>11. Device!PollsKeepTheirDistance'
      BY <3>1, <3>2, <3>3, <3>4, <3>5, DeviceConstants
         DEF DeviceInv, DeviceTypeOK, Device!PollsKeepTheirDistance, DistanceOK,
             Device!IsHurried, GithubStates, LoginStates, GetterStates, TokenStates, HandedStates
    <3>. QED
      BY <3>6, <3>7, <3>8, <3>9, <3>10, <3>11 DEF DeviceInv
  <2>2. CASE ~Device!IsFresh(tokens.access) /\ tokens.refresh <= now
    <3>0. tokens' = Device!NoTokens /\ UNCHANGED <<now, github, login, getter, handed>>
      BY <1>10, <2>2 DEF Device!GetToken
    <3>1. now' = now /\ github' = github /\ login' = login /\ getter' = getter
          /\ handed' = handed
      BY <3>0 DEF Device!NoTokens
    <3>2. tokens' \in TokenStates /\ tokens'.issued = 0 /\ tokens'.access = 0
          /\ tokens'.refresh = 0
      BY <3>0, <3>1, DeviceConstants
         DEF DeviceInv, DeviceTypeOK, TokenStates, GetterStates, GithubStates, Codes,
             Device!NotYet, Device!NoTokens
    <3>3. DeviceTypeOK'
      BY <3>1, <3>2 DEF DeviceInv, DeviceTypeOK
    <3>4. IntervalOK'
      BY <3>1, <3>2, DeviceConstants
         DEF DeviceInv, DeviceTypeOK, IntervalOK, GithubStates, LoginStates, GetterStates,
             TokenStates, HandedStates
    <3>5. DistanceOK'
      BY <3>1, <3>2, DeviceConstants
         DEF DeviceInv, DeviceTypeOK, DistanceOK, IntervalOK, ClockOK, GithubStates,
             LoginStates, GetterStates, TokenStates, HandedStates
    <3>6. ClockOK'
      BY <3>1, <3>2, DeviceConstants
         DEF DeviceInv, DeviceTypeOK, ClockOK, DistanceOK, GithubStates, LoginStates,
             GetterStates, TokenStates, HandedStates
    <3>7. TokensOK'
      BY <3>1, <3>2, DeviceConstants
         DEF DeviceInv, DeviceTypeOK, TokensOK, ClockOK, Device!NoTokens, GithubStates,
             LoginStates, GetterStates, TokenStates, HandedStates
    <3>8. Device!PollsKeepTheirDistance'
      BY <3>1, <3>2, DeviceConstants
         DEF DeviceInv, DeviceTypeOK, Device!PollsKeepTheirDistance, DistanceOK,
             Device!IsHurried, GithubStates, LoginStates, GetterStates, TokenStates, HandedStates
    <3>. QED
      BY <3>3, <3>4, <3>5, <3>6, <3>7, <3>8 DEF DeviceInv
  <2>3. CASE ~Device!IsFresh(tokens.access) /\ ~(tokens.refresh <= now)
    <3>1. now' = now /\ github' = github /\ login' = login /\ tokens' = tokens
          /\ handed' = handed
      BY <1>10, <2>3 DEF Device!GetToken
    <3>2. getter' \in GetterStates /\ getter'.step = "refreshing" /\ getter'.since = now
          /\ getter'.answer = "nothing" /\ getter'.issued = 0
      BY <1>10, <2>3, <3>1, DeviceConstants
         DEF DeviceInv, DeviceTypeOK, GetterStates, Device!NotYet, Device!GetToken
    <3>3. DeviceTypeOK'
      BY <3>1, <3>2 DEF DeviceInv, DeviceTypeOK
    <3>4. IntervalOK'
      BY <3>1, <3>2, DeviceConstants
         DEF DeviceInv, DeviceTypeOK, IntervalOK, GithubStates, LoginStates, GetterStates,
             TokenStates, HandedStates
    <3>5. DistanceOK'
      BY <3>1, <3>2, DeviceConstants
         DEF DeviceInv, DeviceTypeOK, DistanceOK, IntervalOK, ClockOK, GithubStates,
             LoginStates, GetterStates, TokenStates, HandedStates
    <3>6. ClockOK'
      BY <3>1, <3>2, DeviceConstants
         DEF DeviceInv, DeviceTypeOK, ClockOK, DistanceOK, GithubStates, LoginStates,
             GetterStates, TokenStates, HandedStates
    <3>7. TokensOK'
      BY <3>1, <3>2, DeviceConstants
         DEF DeviceInv, DeviceTypeOK, TokensOK, ClockOK, Device!NoTokens, GithubStates,
             LoginStates, GetterStates, TokenStates, HandedStates
    <3>8. Device!PollsKeepTheirDistance'
      BY <3>1, <3>2, DeviceConstants
         DEF DeviceInv, DeviceTypeOK, Device!PollsKeepTheirDistance, DistanceOK,
             Device!IsHurried, GithubStates, LoginStates, GetterStates, TokenStates, HandedStates
    <3>. QED
      BY <3>3, <3>4, <3>5, <3>6, <3>7, <3>8 DEF DeviceInv
  <2>. QED
    BY <2>1, <2>2, <2>3
<1>11. CASE Device!Refreshed
  <2>1. CASE getter.answer = "token"
    <3>1. getter.step = "refreshing" /\ getter.answer = "token"
      BY <1>11, <2>1
         DEF DeviceInv, DeviceTypeOK, LoginStates, GetterStates, Device!NotYet,
             Device!Refreshed, Device!HandOut, Device!Stored
    <3>2. now' = now /\ github' = github /\ login' = login
      BY <1>11, <2>1 DEF Device!Refreshed, Device!HandOut, Device!Stored
    <3>3. getter' \in GetterStates /\ getter'.step = "idle" /\ getter'.since = getter.since
          /\ getter'.answer = getter.answer /\ getter'.issued = getter.issued
      BY <1>11, <2>1, <3>1, <3>2, DeviceConstants
         DEF DeviceInv, DeviceTypeOK, GetterStates, Device!NotYet, Device!Refreshed,
             Device!HandOut, Device!Stored
    <3>4. tokens' \in TokenStates /\ tokens'.issued = getter.issued
          /\ tokens'.access = getter.since + AccessLife
          /\ tokens'.refresh = getter.since + RefreshLife
      BY <1>11, <2>1, <3>1, <3>2, <3>3, DeviceConstants
         DEF DeviceInv, DeviceTypeOK, TokenStates, GetterStates, GithubStates, Codes,
             Device!NotYet, Device!Refreshed, Device!HandOut, Device!Stored, Device!NoTokens
    <3>5. handed' = [issued |-> getter.issued, at |-> now, token |-> TRUE]
      BY <1>11, <2>1 DEF Device!Refreshed, Device!HandOut, Device!Stored
    <3>6. getter.issued \in Nat /\ now \in Nat
      BY <1>11, <2>1 DEF DeviceInv, DeviceTypeOK, TokenStates, GetterStates
    <3>7. handed' \in HandedStates /\ handed'.issued = getter.issued /\ handed'.at = now
          /\ handed'.token
      BY <3>6, <3>5 DEF HandedStates
    <3>8. DeviceTypeOK'
      BY <3>1, <3>2, <3>3, <3>4, <3>5, <3>6, <3>7 DEF DeviceInv, DeviceTypeOK
    <3>9. IntervalOK'
      BY <3>1, <3>2, <3>3, <3>4, <3>5, <3>6, <3>7, DeviceConstants
         DEF DeviceInv, DeviceTypeOK, IntervalOK, GithubStates, LoginStates, GetterStates,
             TokenStates, HandedStates
    <3>10. DistanceOK'
      BY <3>1, <3>2, <3>3, <3>4, <3>5, <3>6, <3>7, DeviceConstants
         DEF DeviceInv, DeviceTypeOK, DistanceOK, IntervalOK, ClockOK, GithubStates,
             LoginStates, GetterStates, TokenStates, HandedStates
    <3>11. ClockOK'
      BY <3>1, <3>2, <3>3, <3>4, <3>5, <3>6, <3>7, DeviceConstants
         DEF DeviceInv, DeviceTypeOK, ClockOK, DistanceOK, GithubStates, LoginStates,
             GetterStates, TokenStates, HandedStates
    <3>12. TokensOK'
      BY <3>1, <3>2, <3>3, <3>4, <3>5, <3>6, <3>7, DeviceConstants
         DEF DeviceInv, DeviceTypeOK, TokensOK, ClockOK, Device!NoTokens, GithubStates,
             LoginStates, GetterStates, TokenStates, HandedStates
    <3>13. Device!PollsKeepTheirDistance'
      BY <3>1, <3>2, <3>3, <3>4, <3>5, <3>6, <3>7, DeviceConstants
         DEF DeviceInv, DeviceTypeOK, Device!PollsKeepTheirDistance, DistanceOK,
             Device!IsHurried, GithubStates, LoginStates, GetterStates, TokenStates, HandedStates
    <3>. QED
      BY <3>8, <3>9, <3>10, <3>11, <3>12, <3>13 DEF DeviceInv
  <2>2. CASE getter.answer # "token"
    <3>0. /\ tokens' = Device!NoTokens /\ UNCHANGED <<now, github, login, handed>>
          /\ getter' = [getter EXCEPT !.step = "idle"]
      BY <1>11, <2>2 DEF Device!Refreshed
    <3>1. now' = now /\ github' = github /\ login' = login /\ handed' = handed
      BY <3>0 DEF Device!NoTokens
    <3>2. getter' \in GetterStates /\ getter'.step = "idle" /\ getter'.since = getter.since
          /\ getter'.answer = getter.answer /\ getter'.issued = getter.issued
      BY <3>0, <3>1, DeviceConstants
         DEF DeviceInv, DeviceTypeOK, GetterStates, Device!NotYet, Device!NoTokens
    <3>3. tokens' \in TokenStates /\ tokens'.issued = 0 /\ tokens'.access = 0
          /\ tokens'.refresh = 0
      BY <3>0, <3>1, <3>2, DeviceConstants
         DEF DeviceInv, DeviceTypeOK, TokenStates, GetterStates, GithubStates, Codes,
             Device!NotYet, Device!NoTokens
    <3>4. DeviceTypeOK'
      BY <3>1, <3>2, <3>3 DEF DeviceInv, DeviceTypeOK
    <3>5. IntervalOK'
      BY <3>1, <3>2, <3>3, DeviceConstants
         DEF DeviceInv, DeviceTypeOK, IntervalOK, GithubStates, LoginStates, GetterStates,
             TokenStates, HandedStates
    <3>6. DistanceOK'
      BY <3>1, <3>2, <3>3, DeviceConstants
         DEF DeviceInv, DeviceTypeOK, DistanceOK, IntervalOK, ClockOK, GithubStates,
             LoginStates, GetterStates, TokenStates, HandedStates
    <3>7. ClockOK'
      BY <3>1, <3>2, <3>3, DeviceConstants
         DEF DeviceInv, DeviceTypeOK, ClockOK, DistanceOK, GithubStates, LoginStates,
             GetterStates, TokenStates, HandedStates
    <3>8. TokensOK'
      BY <3>1, <3>2, <3>3, DeviceConstants
         DEF DeviceInv, DeviceTypeOK, TokensOK, ClockOK, Device!NoTokens, GithubStates,
             LoginStates, GetterStates, TokenStates, HandedStates
    <3>9. Device!PollsKeepTheirDistance'
      BY <3>1, <3>2, <3>3, DeviceConstants
         DEF DeviceInv, DeviceTypeOK, Device!PollsKeepTheirDistance, DistanceOK,
             Device!IsHurried, GithubStates, LoginStates, GetterStates, TokenStates, HandedStates
    <3>. QED
      BY <3>4, <3>5, <3>6, <3>7, <3>8, <3>9 DEF DeviceInv
  <2>. QED
    BY <2>1, <2>2
<1>12. CASE Device!RefreshFails
  <2>1. now' = now /\ github' = github /\ login' = login /\ tokens' = tokens /\ handed' = handed
    BY <1>12 DEF Device!RefreshFails
  <2>2. getter' \in GetterStates /\ getter'.step = "idle" /\ getter'.since = getter.since
        /\ getter'.answer = getter.answer /\ getter'.issued = getter.issued
    BY <1>12, <2>1, DeviceConstants
       DEF DeviceInv, DeviceTypeOK, GetterStates, Device!NotYet, Device!RefreshFails
  <2>3. DeviceTypeOK'
    BY <2>1, <2>2 DEF DeviceInv, DeviceTypeOK
  <2>4. IntervalOK'
    BY <2>1, <2>2, DeviceConstants
       DEF DeviceInv, DeviceTypeOK, IntervalOK, GithubStates, LoginStates, GetterStates,
           TokenStates, HandedStates
  <2>5. DistanceOK'
    BY <2>1, <2>2, DeviceConstants
       DEF DeviceInv, DeviceTypeOK, DistanceOK, IntervalOK, ClockOK, GithubStates, LoginStates,
           GetterStates, TokenStates, HandedStates
  <2>6. ClockOK'
    BY <2>1, <2>2, DeviceConstants
       DEF DeviceInv, DeviceTypeOK, ClockOK, DistanceOK, GithubStates, LoginStates,
           GetterStates, TokenStates, HandedStates
  <2>7. TokensOK'
    BY <2>1, <2>2, DeviceConstants
       DEF DeviceInv, DeviceTypeOK, TokensOK, ClockOK, Device!NoTokens, GithubStates,
           LoginStates, GetterStates, TokenStates, HandedStates
  <2>8. Device!PollsKeepTheirDistance'
    BY <2>1, <2>2, DeviceConstants
       DEF DeviceInv, DeviceTypeOK, Device!PollsKeepTheirDistance, DistanceOK,
           Device!IsHurried, GithubStates, LoginStates, GetterStates, TokenStates, HandedStates
  <2>. QED
    BY <2>3, <2>4, <2>5, <2>6, <2>7, <2>8 DEF DeviceInv
<1>13. ASSUME NEW code \in {"approved", "denied"},
              Device!Decide(code)
       PROVE  DeviceInv'
  <2>1. now' = now /\ login' = login /\ getter' = getter /\ tokens' = tokens /\ handed' = handed
    BY <1>13 DEF Device!Decide
  <2>2. github' \in GithubStates /\ github'.code = code /\ github'.until = github.until
        /\ github'.issued = github.issued /\ github'.last = github.last
        /\ github'.polled = github.polled /\ github'.asked = github.asked
        /\ github'.hurried = github.hurried
    BY <1>13, <2>1, DeviceConstants
       DEF DeviceInv, DeviceTypeOK, GithubStates, Codes, Device!NotYet, Device!Decide
  <2>3. DeviceTypeOK'
    BY <2>1, <2>2 DEF DeviceInv, DeviceTypeOK
  <2>4. IntervalOK'
    BY <2>1, <2>2, DeviceConstants
       DEF DeviceInv, DeviceTypeOK, IntervalOK, GithubStates, LoginStates, GetterStates,
           TokenStates, HandedStates
  <2>5. DistanceOK'
    BY <2>1, <2>2, DeviceConstants
       DEF DeviceInv, DeviceTypeOK, DistanceOK, IntervalOK, ClockOK, GithubStates, LoginStates,
           GetterStates, TokenStates, HandedStates
  <2>6. ClockOK'
    BY <2>1, <2>2, DeviceConstants
       DEF DeviceInv, DeviceTypeOK, ClockOK, DistanceOK, GithubStates, LoginStates,
           GetterStates, TokenStates, HandedStates
  <2>7. TokensOK'
    BY <2>1, <2>2, DeviceConstants
       DEF DeviceInv, DeviceTypeOK, TokensOK, ClockOK, Device!NoTokens, GithubStates,
           LoginStates, GetterStates, TokenStates, HandedStates
  <2>8. Device!PollsKeepTheirDistance'
    BY <2>1, <2>2, DeviceConstants
       DEF DeviceInv, DeviceTypeOK, Device!PollsKeepTheirDistance, DistanceOK,
           Device!IsHurried, GithubStates, LoginStates, GetterStates, TokenStates, HandedStates
  <2>. QED
    BY <2>3, <2>4, <2>5, <2>6, <2>7, <2>8 DEF DeviceInv
<1>14. ASSUME NEW said \in {"authorization_pending", "slow_down", "access_denied",
                              "expired_token", "token", "other"},
              Device!Receive(said)
       PROVE  DeviceInv'
  <2>. DEFINE issued == IF said = "token" THEN now ELSE github.issued
  <2>. DEFINE asked == IF said = "slow_down" THEN github.asked + SlowBy ELSE github.asked
  <2>0. /\ issued \in Nat /\ asked \in Nat
    BY DeviceConstants DEF DeviceInv, DeviceTypeOK, GithubStates
  <2>1. login.step = "polling" /\ login.answer = "nothing"
    BY <1>14, <2>0
       DEF DeviceInv, DeviceTypeOK, LoginStates, GetterStates, Device!NotYet, Device!Receive
  <2>2. now' = now /\ getter' = getter /\ tokens' = tokens /\ handed' = handed
    BY <1>14, <2>0 DEF Device!Receive
  <2>3. github' \in GithubStates /\ github'.code = github.code /\ github'.until = github.until
        /\ github'.issued = issued /\ github'.last = now /\ github'.polled
        /\ github'.asked = asked /\ github'.hurried = (github.hurried \/ Device!IsHurried)
    BY <1>14, <2>0, <2>1, <2>2, DeviceConstants
       DEF DeviceInv, DeviceTypeOK, GithubStates, Codes, Device!NotYet, Device!Receive
  <2>4. login' \in LoginStates /\ login'.step = login.step /\ login'.sent = login.sent
        /\ login'.until = login.until /\ login'.interval = login.interval
        /\ login'.wake = login.wake /\ login'.answer = said /\ login'.result = login.result
    BY <1>14, <2>0, <2>1, <2>2, <2>3, DeviceConstants
       DEF DeviceInv, DeviceTypeOK, LoginStates, DeviceSteps, DeviceAnswers, Results,
           Device!NotYet, Device!Receive
  <2>5. DeviceTypeOK'
    BY <2>1, <2>2, <2>3, <2>4 DEF DeviceInv, DeviceTypeOK
  <2>6. IntervalOK'
    BY <2>1, <2>2, <2>3, <2>4, DeviceConstants, <2>0
       DEF DeviceInv, DeviceTypeOK, IntervalOK, GithubStates, LoginStates, GetterStates,
           TokenStates, HandedStates
  <2>7. DistanceOK'
    BY <2>1, <2>2, <2>3, <2>4, DeviceConstants, <2>0
       DEF DeviceInv, DeviceTypeOK, DistanceOK, IntervalOK, ClockOK, GithubStates, LoginStates,
           GetterStates, TokenStates, HandedStates
  <2>8. ClockOK'
    BY <2>1, <2>2, <2>3, <2>4, DeviceConstants, <2>0
       DEF DeviceInv, DeviceTypeOK, ClockOK, DistanceOK, GithubStates, LoginStates,
           GetterStates, TokenStates, HandedStates
  <2>9. TokensOK'
    BY <2>1, <2>2, <2>3, <2>4, DeviceConstants, <2>0
       DEF DeviceInv, DeviceTypeOK, TokensOK, ClockOK, Device!NoTokens, GithubStates,
           LoginStates, GetterStates, TokenStates, HandedStates
  <2>10. Device!PollsKeepTheirDistance'
    BY <2>1, <2>2, <2>3, <2>4, DeviceConstants, <2>0
       DEF DeviceInv, DeviceTypeOK, Device!PollsKeepTheirDistance, DistanceOK,
           Device!IsHurried, GithubStates, LoginStates, GetterStates, TokenStates, HandedStates
  <2>. QED
    BY <2>5, <2>6, <2>7, <2>8, <2>9, <2>10 DEF DeviceInv
<1>15. ASSUME NEW said \in {"token", "error"},
              Device!ReceiveRefresh(said)
       PROVE  DeviceInv'
  <2>1. getter.step = "refreshing"
    BY <1>15
       DEF DeviceInv, DeviceTypeOK, LoginStates, GetterStates, Device!NotYet,
           Device!ReceiveRefresh
  <2>2. now' = now /\ github' = github /\ login' = login /\ tokens' = tokens /\ handed' = handed
    BY <1>15 DEF Device!ReceiveRefresh
  <2>3. getter' \in GetterStates /\ getter'.step = getter.step /\ getter'.since = getter.since
        /\ getter'.answer = said /\ getter'.issued = now
    BY <1>15, <2>1, <2>2, DeviceConstants
       DEF DeviceInv, DeviceTypeOK, GetterStates, Device!NotYet, Device!ReceiveRefresh
  <2>4. DeviceTypeOK'
    BY <2>1, <2>2, <2>3 DEF DeviceInv, DeviceTypeOK
  <2>5. IntervalOK'
    BY <2>1, <2>2, <2>3, DeviceConstants
       DEF DeviceInv, DeviceTypeOK, IntervalOK, GithubStates, LoginStates, GetterStates,
           TokenStates, HandedStates
  <2>6. DistanceOK'
    BY <2>1, <2>2, <2>3, DeviceConstants
       DEF DeviceInv, DeviceTypeOK, DistanceOK, IntervalOK, ClockOK, GithubStates, LoginStates,
           GetterStates, TokenStates, HandedStates
  <2>7. ClockOK'
    BY <2>1, <2>2, <2>3, DeviceConstants
       DEF DeviceInv, DeviceTypeOK, ClockOK, DistanceOK, GithubStates, LoginStates,
           GetterStates, TokenStates, HandedStates
  <2>8. TokensOK'
    BY <2>1, <2>2, <2>3, DeviceConstants
       DEF DeviceInv, DeviceTypeOK, TokensOK, ClockOK, Device!NoTokens, GithubStates,
           LoginStates, GetterStates, TokenStates, HandedStates
  <2>9. Device!PollsKeepTheirDistance'
    BY <2>1, <2>2, <2>3, DeviceConstants
       DEF DeviceInv, DeviceTypeOK, Device!PollsKeepTheirDistance, DistanceOK,
           Device!IsHurried, GithubStates, LoginStates, GetterStates, TokenStates, HandedStates
  <2>. QED
    BY <2>4, <2>5, <2>6, <2>7, <2>8, <2>9 DEF DeviceInv
<1>16. CASE Device!Tick
  <2>0. ~Device!IsDue /\ now' = now + 1 /\ UNCHANGED <<github, login, getter, tokens, handed>>
    BY <1>16 DEF Device!Tick
  <2>1. github' = github /\ login' = login /\ getter' = getter /\ tokens' = tokens
        /\ handed' = handed
    BY <2>0
  <2>2. now' = now + 1 /\ now' \in Nat
    BY <2>0 DEF DeviceInv, DeviceTypeOK
  <2>3. DeviceTypeOK'
    BY <2>1, <2>2 DEF DeviceInv, DeviceTypeOK
  <2>4. IntervalOK'
    BY <2>1, <2>2, DeviceConstants, <2>0
       DEF DeviceInv, DeviceTypeOK, IntervalOK, GithubStates, LoginStates, GetterStates,
           TokenStates, HandedStates
  <2>5. DistanceOK'
    BY <2>1, <2>2, DeviceConstants, <2>0
       DEF DeviceInv, DeviceTypeOK, DistanceOK, IntervalOK, ClockOK, GithubStates, LoginStates,
           GetterStates, TokenStates, HandedStates
  <2>6. ClockOK'
    BY <2>1, <2>2, DeviceConstants, <2>0
       DEF DeviceInv, DeviceTypeOK, ClockOK, DistanceOK, Device!IsDue, Device!IsLate, Device!Requests, GithubStates, LoginStates,
           GetterStates, TokenStates, HandedStates
  <2>7. TokensOK'
    BY <2>1, <2>2, DeviceConstants, <2>0
       DEF DeviceInv, DeviceTypeOK, TokensOK, ClockOK, Device!NoTokens, GithubStates,
           LoginStates, GetterStates, TokenStates, HandedStates
  <2>8. Device!PollsKeepTheirDistance'
    BY <2>1, <2>2, DeviceConstants, <2>0
       DEF DeviceInv, DeviceTypeOK, Device!PollsKeepTheirDistance, DistanceOK,
           Device!IsHurried, GithubStates, LoginStates, GetterStates, TokenStates, HandedStates
  <2>. QED
    BY <2>3, <2>4, <2>5, <2>6, <2>7, <2>8 DEF DeviceInv
<1>. QED
  BY <1>1, <1>2, <1>3, <1>4, <1>5, <1>6, <1>7, <1>8, <1>9, <1>10, <1>11, <1>12, <1>13, <1>14,
     <1>15, <1>16, Zenon
     DEF Device!Next

-----------------------------------------------------------------------------
(***************************************************************************)
(* LocalSettings.                                                          *)
(***************************************************************************)
Says == Labels \cup {None}
SettingValues == Says \cup Settings!Maps \cup {Corrupt}
Transactions ==
  [do : {"read", "write", "remember"}, key : Settings!Keys, value : Says,
   project : GithubProjects \cup {None}]

\* What a thread may have to do: an operation, or the second transaction of one.
LastOfFolders == {<<Settings!Remember(p, v)>> : p \in GithubProjects, v \in Labels}
LastOfAiConfig == {<<Settings!Read("cli")>>} \cup {<<Settings!Write("cli", v)>> : v \in Labels}
MainRests ==
  Settings!Density \cup Settings!Folders \cup Settings!AiConfig \cup Settings!ReadCurrent
    \cup LastOfFolders \cup LastOfAiConfig
WorkerRests == Settings!ReadCurrent \cup Settings!WriteCurrent \cup Settings!Pending
Rests(t) == IF t = Main THEN MainRests ELSE WorkerRests

Files == {m \in [Settings!Keys -> SettingValues] : m["remembered"] \in Settings!Maps \cup {Corrupt}}
ThreadStates ==
  [pc : {"idle", "wait", "locked", "save"}, rest : {<<>>} \cup MainRests \cup WorkerRests,
   read : SettingValues, previous : SettingValues]

SettingsTypeOK ==
  /\ settings \in Files /\ memory \in Files
  /\ lock \in Settings!Threads \cup {Nobody}
  /\ thread \in [Settings!Threads -> ThreadStates]
  /\ \A t \in Settings!Threads : thread[t].pc # "idle" => thread[t].rest \in Rests(t)

\* Who holds the lock.
LockOK ==
  \A t \in Settings!Threads : thread[t].pc \in {"locked", "save"} <=> lock = t

\* Some file keeps the folders of another.
FoldersKept(old, new) ==
  \/ new["remembered"] = old["remembered"]
  \/ /\ old["remembered"] \in Settings!Maps /\ new["remembered"] \in Settings!Maps
     /\ \A p \in GithubProjects : old["remembered"][p] # None => new["remembered"][p] # None

\* The memory differs from the file only in what a thread is about to save, and that thread
\* knows the value of the file; the map it adds a folder to is the one of the file.
SavingOK ==
  /\ (\A t \in Settings!Threads : thread[t].pc # "save") => memory = settings
  /\ \A t \in Settings!Threads :
       /\ thread[t].pc = "save" =>
            /\ memory = [settings EXCEPT ![Settings!Doing(t).key] = memory[Settings!Doing(t).key]]
            /\ thread[t].previous = settings[Settings!Doing(t).key]
            /\ Settings!Doing(t).do # "read"
            /\ FoldersKept(settings, memory)
       /\ thread[t].pc \in {"wait", "locked"} /\ Settings!Doing(t).do = "remember" =>
            thread[t].read = memory["remembered"] /\ thread[t].read \in Settings!Maps

SettingsInv == SettingsTypeOK /\ LockOK /\ SavingOK

LEMMA SettingsConstants ==
  /\ Main \notin Workers /\ Nobody \notin Settings!Threads /\ Main \in Settings!Threads
  /\ None \notin Labels /\ Corrupt \notin Settings!Maps
  BY ServicesAssumption DEF Settings!LocalSettingsAssumption, Settings!Threads

LEMMA MainRest ==
  ASSUME NEW rest \in MainRests
  PROVE  /\ Len(rest) \in {1, 2} /\ Head(rest) \in Transactions
         /\ Head(rest).do = "remember" =>
              /\ Head(rest).key = "remembered" /\ Len(rest) = 1
              /\ Head(rest).project \in GithubProjects /\ Head(rest).value \in Labels
         /\ Head(rest).do = "write" => Head(rest).key # "remembered"
         /\ Len(rest) # 1 =>
              /\ Tail(rest) \in MainRests
              /\ Head(Tail(rest)).do = "remember" =>
                   Head(rest).do = "read" /\ Head(rest).key = "remembered"
<1>1. CASE rest \in Settings!Density
  <2>1. rest = <<Settings!Read("density")>> \/ \E v \in Labels : rest = <<Settings!Write("density", v)>>
    BY <1>1 DEF Settings!Density
  <2>. QED
    BY <2>1
       DEF Settings!Read, Settings!Write, Settings!Remember, Transactions, Settings!Keys,
           Says
<1>2. CASE rest \in Settings!Folders
  <2>1. CASE rest = <<Settings!Read("remembered")>>
    BY <2>1 DEF Settings!Read, Transactions, Settings!Keys, Says
  <2>2. ASSUME NEW p \in GithubProjects, NEW v \in Labels,
               rest = <<Settings!Read("remembered"), Settings!Remember(p, v)>>
        PROVE  /\ Len(rest) = 2 /\ Head(rest) = Settings!Read("remembered")
               /\ Tail(rest) = <<Settings!Remember(p, v)>>
    BY <2>2
  <2>3. \/ rest = <<Settings!Read("remembered")>>
        \/ \E p \in GithubProjects, v \in Labels :
             rest = <<Settings!Read("remembered"), Settings!Remember(p, v)>>
    BY <1>2 DEF Settings!Folders
  <2>4. ASSUME NEW p \in GithubProjects, NEW v \in Labels
        PROVE  <<Settings!Remember(p, v)>> \in MainRests
    BY DEF MainRests, LastOfFolders
  <2>5. CASE rest # <<Settings!Read("remembered")>>
    <3>1. PICK p \in GithubProjects, v \in Labels :
            rest = <<Settings!Read("remembered"), Settings!Remember(p, v)>>
      BY <2>3, <2>5
    <3>. DEFINE one == Settings!Read("remembered")  two == <<Settings!Remember(p, v)>>
    <3>2. Len(rest) = 2 /\ Head(rest) = one /\ Tail(rest) = two /\ two \in MainRests
      BY <2>2, <2>4, <3>1
    <3>3. one \in Transactions /\ one.do = "read" /\ one.key = "remembered"
      BY DEF Settings!Read, Transactions, Settings!Keys, Says
    <3>. HIDE DEF one, two
    <3>. QED BY <3>2, <3>3
  <2>. QED BY <2>1, <2>5
<1>3. CASE rest \in Settings!AiConfig
  <2>1. ASSUME NEW a \in Transactions, NEW b \in Transactions, rest = <<a, b>>
        PROVE  Len(rest) = 2 /\ Head(rest) = a /\ Tail(rest) = <<b>> /\ Head(Tail(rest)) = b
    BY <2>1
  <2>2. CASE rest = <<Settings!Read("template"), Settings!Read("cli")>>
    <3>1. <<Settings!Read("cli")>> \in MainRests
      BY DEF MainRests, LastOfAiConfig
    <3>. QED
      BY <2>1, <2>2, <3>1
         DEF Settings!Read, Settings!Write, Settings!Remember, Transactions, Settings!Keys,
             Says
  <2>3. ASSUME NEW v \in Labels, rest = <<Settings!Write("template", v), Settings!Write("cli", v)>>
        PROVE  /\ Len(rest) = 2 /\ Head(rest) = Settings!Write("template", v)
               /\ Tail(rest) = <<Settings!Write("cli", v)>> /\ Tail(rest) \in MainRests
               /\ Head(Tail(rest)) = Settings!Write("cli", v)
    <3>1. <<Settings!Write("cli", v)>> \in MainRests
      BY DEF MainRests, LastOfAiConfig
    <3>. QED BY <2>3, <3>1
  <2>. QED
    BY <1>3, <2>2, <2>3
       DEF Settings!AiConfig, Settings!Read, Settings!Write, Settings!Remember, Transactions, Settings!Keys,
           Says
<1>4. CASE rest \in Settings!ReadCurrent
  BY <1>4
     DEF Settings!ReadCurrent, Settings!Read, Settings!Write, Settings!Remember, Transactions, Settings!Keys,
         Says
<1>5. CASE rest \in LastOfFolders
  BY <1>5
     DEF LastOfFolders, Settings!Read, Settings!Write, Settings!Remember, Transactions, Settings!Keys,
         Says
<1>6. CASE rest \in LastOfAiConfig
  BY <1>6
     DEF LastOfAiConfig, Settings!Read, Settings!Write, Settings!Remember, Transactions, Settings!Keys,
         Says
<1>7. \/ rest \in Settings!Density \/ rest \in Settings!Folders
      \/ rest \in Settings!AiConfig \/ rest \in Settings!ReadCurrent
      \/ rest \in LastOfFolders \/ rest \in LastOfAiConfig
  BY DEF MainRests
<1>. QED
  BY <1>1, <1>2, <1>3, <1>4, <1>5, <1>6, <1>7, Zenon

LEMMA WorkerRest ==
  ASSUME NEW rest \in WorkerRests
  PROVE  /\ Len(rest) = 1 /\ Head(rest) \in Transactions
         /\ Head(rest).do \in {"read", "write"} /\ Head(rest).key # "remembered"
  BY DEF WorkerRests, Settings!ReadCurrent, Settings!WriteCurrent, Settings!Pending, Settings!Read,
         Settings!Write, Transactions, Settings!Keys, Says

\* What a thread that is busy does.
LEMMA DoingIs ==
  ASSUME SettingsTypeOK, NEW t \in Settings!Threads, thread[t].pc # "idle"
  PROVE  /\ Settings!Doing(t) \in Transactions
         /\ Settings!Doing(t).do = "remember" =>
              /\ t = Main /\ Settings!Doing(t).key = "remembered" /\ Len(thread[t].rest) = 1
              /\ Settings!Doing(t).project \in GithubProjects /\ Settings!Doing(t).value \in Labels
         /\ t # Main => Settings!Doing(t).key # "remembered"
         /\ Settings!Doing(t).do = "write" => Settings!Doing(t).key # "remembered"
         /\ Len(thread[t].rest) # 1 =>
              /\ t = Main /\ Tail(thread[t].rest) \in MainRests
              /\ Head(Tail(thread[t].rest)).do = "remember" =>
                   Settings!Doing(t).do = "read" /\ Settings!Doing(t).key = "remembered"
<1>1. thread[t].rest \in Rests(t)
  BY DEF SettingsTypeOK
<1>2. CASE t = Main
  <2>1. thread[t].rest \in MainRests
    BY <1>1, <1>2 DEF Rests
  <2>. QED BY <1>2, <2>1, MainRest DEF Settings!Doing, Transactions
<1>3. CASE t # Main
  <2>1. thread[t].rest \in WorkerRests
    BY <1>1, <1>3 DEF Rests
  <2>. QED BY <1>3, <2>1, WorkerRest DEF Settings!Doing, Transactions
<1>. QED BY <1>2, <1>3

\* One thread goes on, the others stay where they are.
LEMMA OneThread ==
  ASSUME SettingsTypeOK, NEW t \in Settings!Threads, NEW new \in ThreadStates,
         new.pc # "idle" => new.rest \in Rests(t),
         thread' = [thread EXCEPT ![t] = new]
  PROVE  /\ thread' \in [Settings!Threads -> ThreadStates] /\ thread'[t] = new
         /\ \A u \in Settings!Threads : thread'[u].pc # "idle" => thread'[u].rest \in Rests(u)
         /\ \A u \in Settings!Threads \ {t} :
              thread'[u] = thread[u] /\ Settings!Doing(u)' = Settings!Doing(u)
  BY DEF SettingsTypeOK, Settings!Doing

LEMMA IdleThread == Settings!Idle \in ThreadStates /\ Settings!Idle.pc = "idle"
  BY DEF Settings!Idle, ThreadStates, SettingValues, Says

Waiting(rest, value) == [Settings!Idle EXCEPT !.pc = "wait", !.rest = rest, !.read = value]
LEMMA WaitingThread ==
  ASSUME NEW t \in Settings!Threads, NEW rest \in Rests(t), NEW value \in SettingValues
  PROVE  /\ Waiting(rest, value) \in ThreadStates /\ Waiting(rest, value).pc = "wait"
         /\ Waiting(rest, value).rest = rest /\ Waiting(rest, value).read = value
  BY DEF Waiting, Settings!Idle, ThreadStates, SettingValues, Says, Rests

\* A transaction ends: its thread is idle or waits for the next one.
LEMMA GoesOn ==
  ASSUME SettingsTypeOK, NEW t \in Settings!Threads, NEW value \in SettingValues,
         thread[t].pc # "idle", Settings!GoOn(t, value)
  PROVE  \E new \in ThreadStates :
           /\ thread' = [thread EXCEPT ![t] = new]
           /\ new.pc \in {"idle", "wait"}
           /\ new.pc = "wait" =>
                /\ new.rest \in Rests(t) /\ new.read = value
                /\ Head(new.rest).do = "remember" =>
                     Settings!Doing(t).do = "read" /\ Settings!Doing(t).key = "remembered"
<1>1. CASE Len(thread[t].rest) = 1
  <2>1. thread' = [thread EXCEPT ![t] = Settings!Idle]
    BY <1>1 DEF Settings!GoOn, SettingsTypeOK
  <2>. QED BY <2>1, IdleThread
<1>2. CASE Len(thread[t].rest) # 1
  <2>. DEFINE rest == Tail(thread[t].rest)
              new == Waiting(rest, value)
  <2>1. /\ t = Main /\ rest \in MainRests
        /\ Head(rest).do = "remember" =>
             Settings!Doing(t).do = "read" /\ Settings!Doing(t).key = "remembered"
    BY <1>2, DoingIs
  <2>2. rest \in Rests(t)
    BY <2>1 DEF Rests
  <2>3. thread' = [thread EXCEPT ![t] = new]
    BY <1>2 DEF Settings!GoOn, SettingsTypeOK, Waiting
  <2>. HIDE DEF rest
  <2>4. new \in ThreadStates /\ new.pc = "wait" /\ new.rest = rest /\ new.read = value
    BY <2>2, WaitingThread
  <2>. HIDE DEF new
  <2>5. /\ new \in ThreadStates /\ thread' = [thread EXCEPT ![t] = new] /\ new.pc = "wait"
        /\ new.rest \in Rests(t) /\ new.read = value
        /\ Head(new.rest).do = "remember" =>
             Settings!Doing(t).do = "read" /\ Settings!Doing(t).key = "remembered"
    BY <2>1, <2>2, <2>3, <2>4
  <2>6. new.pc \in {"idle", "wait"}
    BY <2>5
  <2>. QED BY <2>5, <2>6
<1>. QED BY <1>1, <1>2

\* What SavingOK says of one thread.
SavingOf(t) ==
  /\ thread[t].pc = "save" =>
       /\ memory = [settings EXCEPT ![Settings!Doing(t).key] = memory[Settings!Doing(t).key]]
       /\ thread[t].previous = settings[Settings!Doing(t).key]
       /\ Settings!Doing(t).do # "read"
       /\ FoldersKept(settings, memory)
  /\ thread[t].pc \in {"wait", "locked"} /\ Settings!Doing(t).do = "remember" =>
       thread[t].read = memory["remembered"] /\ thread[t].read \in Settings!Maps

\* A thread that stays is not concerned by a step that leaves its files and its folders alone.
LEMMA OthersKeepSaving ==
  ASSUME NEW u \in Settings!Threads, SavingOf(u), thread'[u] = thread[u],
         Settings!Doing(u)' = Settings!Doing(u),
         \/ UNCHANGED <<settings, memory>>
         \/ /\ thread[u].pc # "save"
            /\ thread[u].pc \in {"wait", "locked"} /\ Settings!Doing(u).do = "remember" =>
                 memory'["remembered"] = memory["remembered"]
  PROVE  SavingOf(u)'
  BY DEF SavingOf, FoldersKept

LEMMA SettingsBegin ==
  ASSUME SettingsInv, NEW t \in Settings!Threads, Settings!Begin(t)
  PROVE  SettingsInv'
<1>1. PICK todo \in Settings!Operations(t) :
        thread' = [thread EXCEPT ![t] = [Settings!Idle EXCEPT !.pc = "wait", !.rest = todo]]
  BY DEF Settings!Begin
<1>. DEFINE new == [Settings!Idle EXCEPT !.pc = "wait", !.rest = todo]
<1>2. todo \in Rests(t) /\ Head(todo).do # "remember"
  <2>1. CASE t = Main
    <3>1. todo \in Settings!Density \cup Settings!Folders \cup Settings!AiConfig \cup Settings!ReadCurrent
      BY <2>1 DEF Settings!Operations
    <3>2. todo \in MainRests
      BY <3>1 DEF MainRests
    <3>3. Head(todo).do # "remember"
      BY <3>1 DEF Settings!Density, Settings!Folders, Settings!AiConfig, Settings!ReadCurrent,
                  Settings!Read, Settings!Write
    <3>. QED BY <2>1, <3>2, <3>3 DEF Rests
  <2>2. CASE t # Main
    <3>1. todo \in WorkerRests
      BY <2>2 DEF Settings!Operations, WorkerRests
    <3>. QED BY <2>2, <3>1, WorkerRest DEF Rests
  <2>. QED BY <2>1, <2>2
<1>3. new \in ThreadStates /\ new.pc = "wait" /\ new.rest = todo
  BY <1>2 DEF Settings!Idle, ThreadStates, SettingValues, Says, Rests
<1>4. thread' = [thread EXCEPT ![t] = new] /\ UNCHANGED <<settings, memory, lock>>
      /\ thread[t].pc = "idle"
  BY <1>1 DEF Settings!Begin
<1>. HIDE DEF new
<1>5. /\ thread' \in [Settings!Threads -> ThreadStates] /\ thread'[t] = new
      /\ \A u \in Settings!Threads : thread'[u].pc # "idle" => thread'[u].rest \in Rests(u)
      /\ \A u \in Settings!Threads \ {t} :
           thread'[u] = thread[u] /\ Settings!Doing(u)' = Settings!Doing(u)
  BY <1>2, <1>3, <1>4, OneThread DEF SettingsInv
<1>6. SettingsTypeOK'
  BY <1>4, <1>5 DEF SettingsInv, SettingsTypeOK
<1>7. LockOK'
  BY <1>3, <1>4, <1>5 DEF SettingsInv, LockOK
<1>8. ASSUME NEW u \in Settings!Threads PROVE SavingOf(u)'
  <2>1. CASE u = t
    BY <1>2, <1>3, <1>5, <2>1 DEF SavingOf, Settings!Doing
  <2>2. CASE u # t
    BY <1>4, <1>5, <2>2, OthersKeepSaving DEF SettingsInv, SavingOK, SavingOf
  <2>. QED BY <2>1, <2>2
<1>9. SavingOK'
  BY <1>3, <1>4, <1>5, <1>8 DEF SettingsInv, SavingOK, SavingOf
<1>. QED BY <1>6, <1>7, <1>9 DEF SettingsInv

\* While a thread has the lock no other one saves.
LEMMA NobodyElseSaves ==
  ASSUME SettingsInv, NEW t \in Settings!Threads, thread[t].pc \in {"locked", "save"}
  PROVE  lock = t /\ \A u \in Settings!Threads \ {t} : thread[u].pc \notin {"locked", "save"}
  BY DEF SettingsInv, LockOK

\* Every thread keeps to what the invariant says of it, and the files agree when none saves.
LEMMA SavingParts ==
  SavingOK <=> /\ (\A t \in Settings!Threads : thread[t].pc # "save") => memory = settings
               /\ \A t \in Settings!Threads : SavingOf(t)
  BY DEF SavingOK, SavingOf

LEMMA SettingsTakeLock ==
  ASSUME SettingsInv, NEW t \in Settings!Threads, Settings!TakeLock(t)
  PROVE  SettingsInv'
<1>. DEFINE new == [thread[t] EXCEPT !.pc = "locked"]
<1>1. /\ thread' = [thread EXCEPT ![t] = new] /\ UNCHANGED <<settings, memory>>
      /\ lock' = t /\ lock = Nobody /\ thread[t].pc = "wait"
  BY DEF Settings!TakeLock, Settings!LockIsFree
<1>2. /\ new \in ThreadStates /\ new.pc = "locked" /\ new.rest = thread[t].rest
      /\ new.read = thread[t].read /\ new.rest \in Rests(t)
  BY <1>1 DEF SettingsInv, SettingsTypeOK, ThreadStates
<1>. HIDE DEF new
<1>3. /\ thread' \in [Settings!Threads -> ThreadStates] /\ thread'[t] = new
      /\ \A u \in Settings!Threads : thread'[u].pc # "idle" => thread'[u].rest \in Rests(u)
      /\ \A u \in Settings!Threads \ {t} :
           thread'[u] = thread[u] /\ Settings!Doing(u)' = Settings!Doing(u)
  BY <1>1, <1>2, OneThread DEF SettingsInv
<1>4. SettingsTypeOK'
  BY <1>1, <1>3 DEF SettingsInv, SettingsTypeOK
<1>5. LockOK'
  BY <1>1, <1>2, <1>3, SettingsConstants DEF SettingsInv, LockOK
<1>6. ASSUME NEW u \in Settings!Threads PROVE SavingOf(u)'
  <2>1. CASE u = t
    <3>1. Settings!Doing(t)' = Settings!Doing(t)
      BY <1>2, <1>3 DEF Settings!Doing
    <3>. QED
      BY <1>1, <1>2, <1>3, <2>1, <3>1, SavingParts DEF SettingsInv, SavingOf
  <2>2. CASE u # t
    BY <1>1, <1>3, <2>2, OthersKeepSaving, SavingParts DEF SettingsInv
  <2>. QED BY <2>1, <2>2
<1>7. (\A u \in Settings!Threads : thread'[u].pc # "save") => memory' = settings'
  BY <1>1, <1>3, SavingParts DEF SettingsInv
<1>8. SavingOK'
  BY <1>6, <1>7 DEF SavingOK, SavingOf
<1>. QED BY <1>4, <1>5, <1>8 DEF SettingsInv

\* A transaction that leaves memory and file alike, and its thread idle or waiting.
LEMMA TransactionEnds ==
  ASSUME SettingsInv, NEW t \in Settings!Threads, thread[t].pc \in {"locked", "save"},
         NEW new \in ThreadStates, thread' = [thread EXCEPT ![t] = new],
         new.pc \in {"idle", "wait"}, lock' = Nobody,
         new.pc = "wait" => new.rest \in Rests(t),
         new.pc = "wait" /\ Head(new.rest).do = "remember" =>
           new.read = memory'["remembered"] /\ new.read \in Settings!Maps,
         settings' \in Files, memory' = settings',
         \/ memory'["remembered"] = memory["remembered"]
         \/ t = Main
  PROVE  SettingsInv'
<1>1. /\ thread' \in [Settings!Threads -> ThreadStates] /\ thread'[t] = new
      /\ \A u \in Settings!Threads : thread'[u].pc # "idle" => thread'[u].rest \in Rests(u)
      /\ \A u \in Settings!Threads \ {t} :
           thread'[u] = thread[u] /\ Settings!Doing(u)' = Settings!Doing(u)
  BY OneThread DEF SettingsInv
<1>2. SettingsTypeOK'
  BY <1>1 DEF SettingsInv, SettingsTypeOK
<1>3. lock = t /\ \A u \in Settings!Threads \ {t} : thread[u].pc \notin {"locked", "save"}
  BY NobodyElseSaves
<1>4. LockOK'
  BY <1>1, <1>3, SettingsConstants DEF LockOK
<1>5. ASSUME NEW u \in Settings!Threads PROVE SavingOf(u)'
  <2>1. CASE u = t
    BY <1>1, <2>1 DEF SavingOf, Settings!Doing
  <2>2. CASE u # t
    <3>1. /\ thread[u].pc \notin {"locked", "save"}
          /\ thread[u].pc = "wait" /\ Settings!Doing(u).do = "remember" => u = Main
      BY <1>3, <2>2, DoingIs DEF SettingsInv
    <3>. QED
      BY <1>1, <2>2, <3>1, OthersKeepSaving, SavingParts DEF SettingsInv
  <2>. QED BY <2>1, <2>2
<1>6. SavingOK'
  BY <1>5 DEF SavingOK, SavingOf
<1>. QED BY <1>2, <1>4, <1>6 DEF SettingsInv

LEMMA SettingsReadValue ==
  ASSUME SettingsInv, NEW t \in Settings!Threads, Settings!ReadValue(t)
  PROVE  SettingsInv'
<1>. DEFINE value == memory[Settings!Doing(t).key]
<1>1. /\ thread[t].pc = "locked" /\ Settings!Doing(t).do = "read" /\ lock' = Nobody
      /\ UNCHANGED <<settings, memory>>
      /\ \/ thread' = [thread EXCEPT ![t] = Settings!Idle]
         \/ /\ Settings!GoOn(t, value)
            /\ Settings!Doing(t).key = "remembered" => value # Corrupt
  BY DEF Settings!ReadValue, Settings!End, Settings!Unreadable
<1>2. Settings!Doing(t).key \in Settings!Keys
  BY <1>1, DoingIs DEF SettingsInv, Transactions
<1>3. value \in SettingValues
  BY <1>2 DEF SettingsInv, SettingsTypeOK, Files
<1>4. Settings!Doing(t).key = "remembered" /\ value # Corrupt => value \in Settings!Maps
  BY DEF SettingsInv, SettingsTypeOK, Files
<1>5. memory = settings
  BY <1>1, NobodyElseSaves, SavingParts DEF SettingsInv
<1>6. settings' \in Files
  BY <1>1 DEF SettingsInv, SettingsTypeOK
<1>7. CASE thread' = [thread EXCEPT ![t] = Settings!Idle]
  BY <1>1, <1>5, <1>6, <1>7, IdleThread, TransactionEnds
<1>8. CASE /\ Settings!GoOn(t, value)
           /\ Settings!Doing(t).key = "remembered" => value # Corrupt
  <2>1. PICK new \in ThreadStates :
           /\ thread' = [thread EXCEPT ![t] = new]
           /\ new.pc \in {"idle", "wait"}
           /\ new.pc = "wait" =>
                /\ new.rest \in Rests(t) /\ new.read = value
                /\ Head(new.rest).do = "remember" =>
                     Settings!Doing(t).do = "read" /\ Settings!Doing(t).key = "remembered"
    BY <1>1, <1>3, <1>8, GoesOn DEF SettingsInv
  <2>2. new.pc = "wait" /\ Head(new.rest).do = "remember" =>
          new.read = memory'["remembered"] /\ new.read \in Settings!Maps
    BY <1>1, <1>4, <1>8, <2>1
  <2>. QED BY <1>1, <1>5, <1>6, <2>1, <2>2, TransactionEnds
<1>. QED BY <1>1, <1>7, <1>8

\* What a thread sets keeps the folders.
LEMMA NewValueIs ==
  ASSUME SettingsInv, NEW t \in Settings!Threads, thread[t].pc = "locked",
         Settings!Doing(t).do # "read"
  PROVE  /\ Settings!NewValue(t) \in SettingValues
         /\ Settings!Doing(t).key = "remembered" =>
              /\ memory["remembered"] \in Settings!Maps
              /\ Settings!NewValue(t) \in Settings!Maps
              /\ \A p \in GithubProjects :
                   memory["remembered"][p] # None => Settings!NewValue(t)[p] # None
<1>1. /\ Settings!Doing(t) \in Transactions
      /\ Settings!Doing(t).do = "remember" =>
           /\ Settings!Doing(t).project \in GithubProjects /\ Settings!Doing(t).value \in Labels
      /\ Settings!Doing(t).do = "write" => Settings!Doing(t).key # "remembered"
  BY DoingIs DEF SettingsInv
<1>2. CASE Settings!Doing(t).do = "write"
  BY <1>1, <1>2 DEF Settings!NewValue, Transactions, SettingValues
<1>3. CASE Settings!Doing(t).do = "remember"
  <2>1. thread[t].read = memory["remembered"] /\ thread[t].read \in Settings!Maps
    BY <1>3, SavingParts DEF SettingsInv, SavingOf
  <2>2. Settings!NewValue(t) =
          [memory["remembered"] EXCEPT ![Settings!Doing(t).project] = Settings!Doing(t).value]
    BY <1>3, <2>1 DEF Settings!NewValue, Settings!FoldersIn
  <2>3. Settings!NewValue(t) \in Settings!Maps
    BY <1>1, <1>3, <2>1, <2>2 DEF Settings!Maps
  <2>4. \A p \in GithubProjects :
          memory["remembered"][p] # None => Settings!NewValue(t)[p] # None
    BY <1>1, <1>3, <2>1, <2>2, SettingsConstants DEF Settings!Maps
  <2>. QED BY <2>1, <2>3, <2>4 DEF SettingValues
<1>. QED BY <1>1, <1>2, <1>3 DEF Transactions

LEMMA SettingsSet ==
  ASSUME SettingsInv, NEW t \in Settings!Threads, Settings!Set(t)
  PROVE  SettingsInv'
<1>. DEFINE key == Settings!Doing(t).key
            new == [thread[t] EXCEPT !.pc = "save", !.previous = memory[key]]
<1>1. /\ thread[t].pc = "locked" /\ Settings!Doing(t).do # "read"
      /\ memory' = [memory EXCEPT ![key] = Settings!NewValue(t)]
      /\ UNCHANGED <<settings, lock>>
  BY DEF Settings!Set
<1>2. memory = settings /\ lock = t
      /\ \A u \in Settings!Threads \ {t} : thread[u].pc \notin {"locked", "save"}
  BY <1>1, NobodyElseSaves, SavingParts DEF SettingsInv
<1>3. key \in Settings!Keys /\ (t # Main => key # "remembered")
  BY <1>1, DoingIs DEF SettingsInv, Transactions
<1>4. memory \in Files /\ memory[key] \in SettingValues
  BY <1>3 DEF SettingsInv, SettingsTypeOK, Files
<1>5. thread[t] \in ThreadStates /\ thread[t].rest \in Rests(t)
  BY <1>1 DEF SettingsInv, SettingsTypeOK
<1>6. /\ new \in ThreadStates /\ new.pc = "save" /\ new.rest = thread[t].rest
      /\ new.previous = memory[key]
  BY <1>4, <1>5 DEF ThreadStates
<1>7. thread' = [thread EXCEPT ![t] = new]
  BY DEF Settings!Set, SettingsInv, SettingsTypeOK
<1>. HIDE DEF new
<1>8. /\ thread' \in [Settings!Threads -> ThreadStates] /\ thread'[t] = new
      /\ \A u \in Settings!Threads : thread'[u].pc # "idle" => thread'[u].rest \in Rests(u)
      /\ \A u \in Settings!Threads \ {t} :
           thread'[u] = thread[u] /\ Settings!Doing(u)' = Settings!Doing(u)
  BY <1>5, <1>6, <1>7, OneThread DEF SettingsInv
<1>9. Settings!Doing(t)' = Settings!Doing(t)
  BY <1>6, <1>8 DEF Settings!Doing
<1>10. memory' \in Files /\ (key # "remembered" => memory'["remembered"] = memory["remembered"])
  BY <1>1, <1>3, <1>4, NewValueIs DEF Files, Settings!Keys
<1>11. SettingsTypeOK'
  BY <1>1, <1>8, <1>10 DEF SettingsInv, SettingsTypeOK
<1>12. LockOK'
  BY <1>1, <1>2, <1>6, <1>8 DEF SettingsInv, LockOK
<1>13. memory' = [settings' EXCEPT ![key] = memory'[key]]
  BY <1>1, <1>2, <1>3, <1>4 DEF Files
<1>14. FoldersKept(settings, memory)'
  <2>1. CASE key # "remembered"
    BY <1>1, <1>2, <1>10, <2>1 DEF FoldersKept
  <2>2. CASE key = "remembered"
    <3>1. memory'["remembered"] = Settings!NewValue(t)
      BY <1>1, <1>3, <1>4, <2>2 DEF Files
    <3>. QED BY <1>1, <1>2, <2>2, <3>1, NewValueIs DEF FoldersKept
  <2>. QED BY <2>1, <2>2
<1>15. ASSUME NEW u \in Settings!Threads PROVE SavingOf(u)'
  <2>1. CASE u = t
    BY <1>1, <1>2, <1>6, <1>8, <1>9, <1>13, <1>14, <2>1 DEF SavingOf
  <2>2. CASE u # t
    <3>1. /\ thread[u].pc \notin {"locked", "save"}
          /\ thread[u].pc = "wait" /\ Settings!Doing(u).do = "remember" => u = Main
      BY <1>2, <2>2, DoingIs DEF SettingsInv
    <3>2. u = Main => memory'["remembered"] = memory["remembered"]
      BY <1>3, <1>10, <2>2
    <3>. QED
      BY <1>8, <2>2, <3>1, <3>2, OthersKeepSaving, SavingParts DEF SettingsInv
  <2>. QED BY <2>1, <2>2
<1>16. SavingOK'
  BY <1>6, <1>8, <1>15 DEF SavingOK, SavingOf
<1>. QED BY <1>11, <1>12, <1>16 DEF SettingsInv

LEMMA SettingsSave ==
  ASSUME SettingsInv, NEW t \in Settings!Threads, Settings!Save(t)
  PROVE  SettingsInv' /\ FoldersKept(settings, settings')
<1>1. /\ thread[t].pc = "save" /\ settings' = memory /\ Settings!GoOn(t, None)
      /\ lock' = Nobody /\ memory' = memory
  BY DEF Settings!Save
<1>2. FoldersKept(settings, memory) /\ Settings!Doing(t).do # "read"
  BY <1>1, SavingParts DEF SettingsInv, SavingOf
<1>3. PICK new \in ThreadStates :
        /\ thread' = [thread EXCEPT ![t] = new]
        /\ new.pc \in {"idle", "wait"}
        /\ new.pc = "wait" =>
             /\ new.rest \in Rests(t)
             /\ Head(new.rest).do = "remember" => Settings!Doing(t).do = "read"
  <2>1. None \in SettingValues
    BY DEF SettingValues, Says
  <2>. QED BY <1>1, <2>1, GoesOn DEF SettingsInv
<1>4. settings' \in Files
  BY <1>1 DEF SettingsInv, SettingsTypeOK
<1>. QED BY <1>1, <1>2, <1>3, <1>4, TransactionEnds

LEMMA SettingsSaveFails ==
  ASSUME SettingsInv, NEW t \in Settings!Threads, Settings!SaveFails(t)
  PROVE  SettingsInv'
<1>. DEFINE key == Settings!Doing(t).key
<1>1. /\ thread[t].pc = "save" /\ memory' = [memory EXCEPT ![key] = thread[t].previous]
      /\ thread' = [thread EXCEPT ![t] = Settings!Idle]
      /\ lock' = Nobody /\ settings' = settings
  BY DEF Settings!SaveFails, Settings!Restored, Settings!End
<1>2. /\ memory = [settings EXCEPT ![key] = memory[key]] /\ thread[t].previous = settings[key]
  BY <1>1, SavingParts DEF SettingsInv, SavingOf
<1>3. key \in Settings!Keys /\ (t # Main => key # "remembered")
  BY <1>1, DoingIs DEF SettingsInv, Transactions
<1>4. settings \in Files /\ memory \in Files
  BY DEF SettingsInv, SettingsTypeOK
<1>5. memory' = settings
  BY <1>1, <1>2, <1>3, <1>4 DEF Files
<1>6. t # Main => memory'["remembered"] = memory["remembered"]
  BY <1>1, <1>3, <1>4 DEF Files
<1>. QED BY <1>1, <1>4, <1>5, <1>6, IdleThread, TransactionEnds

LEMMA SettingsQuit ==
  ASSUME SettingsInv, Settings!Quit
  PROVE  SettingsInv' /\ FoldersKept(settings, settings')
<1>1. /\ settings' \in {settings, memory} /\ memory' = settings' /\ lock' = Nobody
      /\ thread' = [t \in Settings!Threads |-> Settings!Idle]
  BY DEF Settings!Quit
<1>2. FoldersKept(settings, memory)
  BY SavingParts DEF SettingsInv, SavingOf, FoldersKept
<1>3. FoldersKept(settings, settings')
  BY <1>1, <1>2 DEF FoldersKept
<1>4. SettingsTypeOK'
  BY <1>1, IdleThread DEF SettingsInv, SettingsTypeOK
<1>5. LockOK'
  BY <1>1, IdleThread, SettingsConstants DEF LockOK
<1>6. SavingOK'
  BY <1>1, IdleThread DEF SavingOK
<1>. QED BY <1>3, <1>4, <1>5, <1>6 DEF SettingsInv

LEMMA SettingsInit == Settings!Init => SettingsInv
<1>. SUFFICES ASSUME Settings!Init PROVE SettingsInv
  OBVIOUS
<1>1. PICK v \in {Settings!NoFolders, Corrupt} :
        settings = [key \in Settings!Keys |-> IF key = "remembered" THEN v ELSE None]
  BY DEF Settings!Init
<1>2. /\ memory = settings /\ lock = Nobody
      /\ thread = [t \in Settings!Threads |-> Settings!Idle]
  BY DEF Settings!Init
<1>3. v \in Settings!Maps \cup {Corrupt} /\ None \in SettingValues
  BY DEF Settings!NoFolders, Settings!Maps, SettingValues, Says
<1>4. settings \in Files
  BY <1>1, <1>3 DEF Files, SettingValues, Settings!Keys
<1>5. SettingsTypeOK
  BY <1>2, <1>4, IdleThread DEF SettingsTypeOK
<1>6. LockOK
  BY <1>2, IdleThread, SettingsConstants DEF LockOK
<1>7. SavingOK
  BY <1>2, IdleThread DEF SavingOK
<1>. QED BY <1>5, <1>6, <1>7 DEF SettingsInv

\* Every step keeps the invariant, and the folders of the file.
LEMMA SettingsStep ==
  ASSUME SettingsInv, Settings!Next
  PROVE  SettingsInv' /\ Settings!KeepsFolders
<1>1. SettingsInv' /\ FoldersKept(settings, settings')
  <2>1. ASSUME NEW t \in Settings!Threads,
               \/ Settings!Begin(t) \/ Settings!TakeLock(t) \/ Settings!ReadValue(t)
               \/ Settings!Set(t) \/ Settings!SaveFails(t)
        PROVE  SettingsInv' /\ FoldersKept(settings, settings')
    <3>1. settings' = settings
      BY <2>1 DEF Settings!Begin, Settings!TakeLock, Settings!ReadValue, Settings!Set,
                  Settings!SaveFails
    <3>2. FoldersKept(settings, settings')
      BY <3>1 DEF FoldersKept
    <3>. QED
      BY <2>1, <3>2, SettingsBegin, SettingsTakeLock, SettingsReadValue, SettingsSet,
         SettingsSaveFails
  <2>. QED BY <2>1, SettingsSave, SettingsQuit DEF Settings!Next
<1>2. Settings!KeepsFolders
  BY <1>1, SettingsConstants DEF FoldersKept, Settings!KeepsFolders
<1>. QED BY <1>1, <1>2

-----------------------------------------------------------------------------
(***************************************************************************)
(* DocumentSelection.                                                      *)
(***************************************************************************)
\* Nothing is selected at home, what is selected is listed, and only that is read.
UiOK(u) ==
  /\ u \in Selection!UiStates
  /\ u.home => u.selected = NoPath
  /\ u.selected # NoPath => Selection!Listed(u.tree, u.selected)
  /\ u.read # "idle" => u.selected # NoPath

\* What a message makes of the window: it stays home, and loads nothing by itself.
Answers(u, v) ==
  /\ UiOK(v)
  /\ u.home /\ ~u.removed => v.selected = NoPath
  /\ v.read = "loading" => u.read = "loading" /\ v.selected = u.selected

LEMMA SelectionConstants ==
  /\ NoPath \notin DocPaths
  /\ NoPath \in Selection!MaybePath /\ DocPaths \subseteq Selection!MaybePath
  /\ Selection!Absent \in Selection!Contents
<1>1. 0 \in 0..(MaxEdits + 1)
  BY ServicesAssumption DEF Selection!SelectionAssumption
<1>. QED BY <1>1, ServicesAssumption
         DEF Selection!SelectionAssumption, Selection!MaybePath, Selection!Absent, Selection!Contents

LEMMA NoPathIsNotListed == \A c : ~Selection!Listed(c, NoPath)
  BY SelectionConstants DEF Selection!Listed

LEMMA ListedIsPath == \A c, p : Selection!Listed(c, p) => p \in Selection!MaybePath /\ p # NoPath
  BY SelectionConstants DEF Selection!Listed

LEMMA ClearedUi ==
  ASSUME NEW u \in Selection!UiStates
  PROVE  LET v == Selection!ClearSelection(u)
         IN /\ v \in Selection!UiStates /\ v.selected = NoPath /\ v.read = "idle" /\ v.removed = FALSE
            /\ v.home = u.home /\ v.tree = u.tree /\ v.last = u.last /\ v.ready = u.ready
            /\ v.heard = u.heard
  BY SelectionConstants DEF Selection!UiStates, Selection!ClearSelection

LEMMA ReopenedUi ==
  ASSUME NEW u \in Selection!UiStates, NEW p \in Selection!MaybePath
  PROVE  LET v == Selection!Reopen(u, p)
         IN v \in Selection!UiStates /\ v.selected = p /\ v.read = "queued" /\ v.home = u.home /\ v.tree = u.tree
  BY SelectionConstants DEF Selection!UiStates, Selection!Reopen

\* What the invariant says of a window that has one.
LEMMA CalmUi ==
  ASSUME NEW u \in Selection!UiStates, u.selected = NoPath, u.read = "idle"
  PROVE  UiOK(u)
  BY DEF UiOK

LEMMA SelectedUi ==
  ASSUME NEW u \in Selection!UiStates, u.home = FALSE, Selection!Listed(u.tree, u.selected)
  PROVE  UiOK(u)
  BY ListedIsPath DEF UiOK

LEMMA OpenedUi ==
  ASSUME NEW u \in Selection!UiStates, NEW p \in Selection!MaybePath, p # NoPath => Selection!Listed(u.tree, p),
         p # NoPath => u.home = FALSE
  PROVE  LET v == Selection!OpenCurrentDocument(u, p)
         IN UiOK(v) /\ v.selected = p /\ (v.read = "loading" => v = u)
<1>. DEFINE v == Selection!OpenCurrentDocument(u, p)
<1>1. CASE p = NoPath
  <2>1. v = Selection!ClearSelection(u)
    BY <1>1 DEF Selection!OpenCurrentDocument
  <2>2. v \in Selection!UiStates /\ v.selected = NoPath /\ v.read = "idle"
    BY <2>1, ClearedUi
  <2>. QED BY <1>1, <2>2, CalmUi
<1>2. CASE p # NoPath /\ Selection!AlreadyOpen(u, p)
  <2>1. v = u /\ u.selected = p
    BY <1>2 DEF Selection!OpenCurrentDocument, Selection!AlreadyOpen
  <2>. QED BY <1>2, <2>1, SelectedUi
<1>3. CASE p # NoPath /\ ~Selection!AlreadyOpen(u, p)
  <2>1. v = Selection!Reopen(u, p)
    BY <1>3 DEF Selection!OpenCurrentDocument
  <2>2. /\ v \in Selection!UiStates /\ v.selected = p /\ v.read = "queued" /\ v.home = u.home
        /\ v.tree = u.tree
    BY <2>1, ReopenedUi
  <2>. QED BY <1>3, <2>2, SelectedUi
<1>. QED BY <1>1, <1>2, <1>3

LEMMA SnapshotArrives ==
  ASSUME NEW u \in Selection!UiStates, NEW s \in Selection!Snapshots, UiOK(u)
  PROVE  Answers(u, Selection!ApplyAuthoritativeSnapshot(u, s))
<1>. DEFINE last == IF Selection!Listed(s.tree, s.open) THEN s.open ELSE NoPath
            adopted == [u EXCEPT !.heard = TRUE, !.tree = s.tree, !.last = last]
            opened == [adopted EXCEPT !.home = (last = NoPath)]
            v == Selection!ApplyAuthoritativeSnapshot(u, s)
<1>. SUFFICES Answers(u, v)
  OBVIOUS
<1>3. last \in Selection!MaybePath /\ (last # NoPath => Selection!Listed(s.tree, last))
  BY ListedIsPath, SelectionConstants
<1>4. v = IF u.home /\ ~u.removed THEN Selection!ClearSelection(adopted)
          ELSE Selection!OpenCurrentDocument(opened, last)
  BY DEF Selection!ApplyAuthoritativeSnapshot
<1>. HIDE DEF last
<1>7. s.tree \in Selection!Catalogs
  BY DEF Selection!Snapshots
<1>1. /\ adopted \in Selection!UiStates /\ adopted.tree = s.tree /\ adopted.home = u.home
      /\ adopted.selected = u.selected /\ adopted.read = u.read
  BY <1>3, <1>7 DEF Selection!UiStates
<1>. HIDE DEF adopted
<1>2. /\ opened \in Selection!UiStates /\ opened.tree = s.tree /\ opened.home = (last = NoPath)
      /\ opened.selected = u.selected /\ opened.read = u.read
  BY <1>1 DEF Selection!UiStates
<1>. HIDE DEF opened, v
<1>5. CASE u.home /\ ~u.removed
  <2>1. v \in Selection!UiStates /\ v.selected = NoPath /\ v.read = "idle"
    BY <1>1, <1>4, <1>5, ClearedUi
  <2>2. UiOK(v)
    BY <2>1, CalmUi
  <2>. QED BY <2>1, <2>2 DEF Answers
<1>6. CASE ~(u.home /\ ~u.removed)
  <2>1. v = Selection!OpenCurrentDocument(opened, last)
    BY <1>4, <1>6
  <2>2. last # NoPath => Selection!Listed(opened.tree, last) /\ opened.home = FALSE
    BY <1>2, <1>3
  <2>3. UiOK(v) /\ v.selected = last /\ (v.read = "loading" => v = opened)
    BY <1>2, <1>3, <2>1, <2>2, OpenedUi
  <2>. QED BY <1>2, <1>6, <2>3 DEF Answers
<1>. QED BY <1>5, <1>6

LEMMA TreeArrives ==
  ASSUME NEW u \in Selection!UiStates, NEW t \in Selection!Catalogs, UiOK(u)
  PROVE  Answers(u, Selection!AfterTree(u, t))
<1>. DEFINE next == [u EXCEPT !.heard = TRUE, !.tree = t]
            p == u.selected
            cleared == Selection!ClearSelection(next)
            removed == [cleared EXCEPT !.home = TRUE, !.removed = TRUE, !.last = NoPath]
            v == Selection!AfterTree(u, t)
<1>. SUFFICES Answers(u, v)
  OBVIOUS
<1>1. /\ next \in Selection!UiStates /\ next.tree = t /\ next.home = u.home /\ next.selected = p
      /\ next.read = u.read
  BY DEF Selection!UiStates
<1>3. \/ p # NoPath /\ ~Selection!Listed(t, p) /\ v = removed
      \/ (p = NoPath \/ Selection!Listed(t, p)) /\ Selection!Listed(u.tree, p)
           /\ v = Selection!Reopen(next, p)
      \/ (p = NoPath \/ Selection!Listed(t, p)) /\ v = next
  BY DEF Selection!AfterTree
<1>. HIDE DEF next
<1>7. cleared \in Selection!UiStates /\ cleared.selected = NoPath /\ cleared.read = "idle"
  BY <1>1, ClearedUi
<1>. HIDE DEF cleared
<1>2. removed \in Selection!UiStates /\ removed.selected = NoPath /\ removed.read = "idle"
  BY <1>7, SelectionConstants DEF Selection!UiStates
<1>. HIDE DEF removed, v
<1>4. CASE p # NoPath /\ ~Selection!Listed(t, p) /\ v = removed
  <2>1. UiOK(v)
    BY <1>2, <1>4, CalmUi
  <2>. QED BY <1>2, <1>4, <2>1 DEF Answers
<1>5. CASE /\ p = NoPath \/ Selection!Listed(t, p)
           /\ Selection!Listed(u.tree, p) /\ v = Selection!Reopen(next, p)
  <2>1. p # NoPath /\ p \in Selection!MaybePath
    BY <1>5, ListedIsPath
  <2>2. v \in Selection!UiStates /\ v.selected = p /\ v.read = "queued" /\ v.home = u.home /\ v.tree = t
    BY <1>1, <1>5, <2>1, ReopenedUi
  <2>3. u.home = FALSE
    BY <2>1 DEF UiOK, Selection!UiStates
  <2>4. UiOK(v)
    BY <1>5, <2>1, <2>2, <2>3, SelectedUi
  <2>. QED BY <2>2, <2>3, <2>4 DEF Answers
<1>6. CASE (p = NoPath \/ Selection!Listed(t, p)) /\ v = next
  <2>1. UiOK(v)
    BY <1>1, <1>6 DEF UiOK
  <2>. QED BY <1>1, <1>6, <2>1 DEF Answers, UiOK
<1>. QED BY <1>3, <1>4, <1>5, <1>6

LEMMA OpenArrives ==
  ASSUME NEW u \in Selection!UiStates, NEW p \in DocPaths, UiOK(u)
  PROVE  Answers(u, Selection!AfterOpen(u, p))
<1>. DEFINE heard == [u EXCEPT !.heard = TRUE]
            same == [u EXCEPT !.heard = TRUE, !.last = p]
            away == [u EXCEPT !.heard = TRUE, !.last = p, !.home = FALSE]
            v == Selection!AfterOpen(u, p)
<1>. SUFFICES Answers(u, v)
  OBVIOUS
<1>7. p \in Selection!MaybePath /\ p # NoPath
  BY SelectionConstants
<1>1. /\ heard \in Selection!UiStates /\ heard.tree = u.tree /\ heard.home = u.home
      /\ heard.selected = u.selected /\ heard.read = u.read
  BY DEF Selection!UiStates
<1>2. /\ same \in Selection!UiStates /\ same.tree = u.tree /\ same.home = u.home
      /\ same.selected = u.selected /\ same.read = u.read
  BY <1>7 DEF Selection!UiStates
<1>3. /\ away \in Selection!UiStates /\ away.tree = u.tree /\ away.home = FALSE
      /\ away.selected = u.selected /\ away.read = u.read
  BY <1>7 DEF Selection!UiStates
<1>4. \/ v = same \/ v = heard
      \/ /\ p # u.selected /\ u.home /\ u.removed /\ Selection!Listed(u.tree, p)
         /\ v = Selection!OpenCurrentDocument(away, p)
  BY DEF Selection!AfterOpen
<1>. HIDE DEF heard, same, away, v
<1>5. CASE v = same \/ v = heard
  <2>1. /\ v \in Selection!UiStates /\ v.tree = u.tree /\ v.home = u.home
        /\ v.selected = u.selected /\ v.read = u.read
    BY <1>1, <1>2, <1>5
  <2>2. UiOK(v)
    BY <2>1 DEF UiOK
  <2>. QED BY <2>1, <2>2 DEF Answers, UiOK
<1>6. CASE /\ p # u.selected /\ u.home /\ u.removed /\ Selection!Listed(u.tree, p)
           /\ v = Selection!OpenCurrentDocument(away, p)
  <2>1. UiOK(v) /\ v.selected = p /\ (v.read = "loading" => v = away)
    BY <1>3, <1>6, <1>7, OpenedUi
  <2>. QED BY <1>3, <1>6, <2>1 DEF Answers
<1>. QED BY <1>4, <1>5, <1>6

\* The invariant: types, what a window keeps to, and an answer on its way for what is loading.
SelectionInv == Selection!TypeOK /\ UiOK(ui) /\ Selection!LoadingHasCall

LEMMA SelectionKept ==
  ASSUME Selection!TypeOK', UiOK(ui'), ui'.read = "loading" => calls'[ui'.selected].at # "none"
  PROVE  SelectionInv'
  BY DEF SelectionInv, UiOK, Selection!LoadingHasCall, Selection!UiStates, Selection!Listed

LEMMA EventTypes ==
  /\ \A t \in Selection!Catalogs, b \in BOOLEAN : Selection!TreeChanged(t, b) \in Selection!Events
  /\ \A p \in DocPaths : Selection!OpenDocumentChanged(p) \in Selection!Events
  /\ \A s \in Selection!Snapshots : Selection!Resynced(s) \in Selection!Events
  BY DEF Selection!TreeChanged, Selection!OpenDocumentChanged, Selection!Resynced, Selection!Events

LEMMA OneIsSeq ==
  ASSUME NEW S, NEW e \in S
  PROVE  <<e>> \in Seq(S)
  OBVIOUS

LEMMA RememberedIsPath ==
  ASSUME NEW open \in Selection!MaybePath, NEW old, NEW new
  PROVE  Selection!OpenAfter(open, old, new) \in Selection!MaybePath
  BY SelectionConstants DEF Selection!OpenAfter, Selection!Renamed

LEMMA SelectionInit == Selection!Init => SelectionInv
<1>. SUFFICES ASSUME Selection!Init PROVE SelectionInv
  OBVIOUS
<1>1. {MaxEdits, MaxPicks, MaxLags} \subseteq Nat
  BY ServicesAssumption DEF Selection!SelectionAssumption
<1>2. files \in Selection!Catalogs
  <2>1. \A c \in [id : DocIds, ver : {1}] : c \in Selection!Contents
    BY <1>1 DEF Selection!Contents
  <2>2. files \in [DocPaths -> {Selection!Absent} \cup [id : DocIds, ver : {1}]]
    BY DEF Selection!Init, Selection!Files
  <2>3. {Selection!Absent} \cup [id : DocIds, ver : {1}] \subseteq Selection!Contents
    BY <2>1, SelectionConstants
  <2>. QED BY <2>2, <2>3 DEF Selection!Catalogs
<1>3. runtime \in Selection!Snapshots
  BY <1>2 DEF Selection!Init, Selection!Snapshots
<1>4. wire \in Seq(Selection!Events)
  <2>1. Selection!TreeChanged(files, TRUE) \in Selection!Events
    BY <1>2, EventTypes
  <2>2. <<Selection!TreeChanged(files, TRUE)>> \in Seq(Selection!Events)
    BY <2>1, OneIsSeq
  <2>. QED BY <2>2 DEF Selection!Init
<1>5. result \in [status : {"sent", "received"}, snapshot : Selection!Snapshots]
  BY <1>3 DEF Selection!Init
<1>6. ui \in Selection!UiStates /\ ui.selected = NoPath /\ ui.read = "idle"
  <2>1. Selection!EmptyCatalog \in Selection!Catalogs
    BY SelectionConstants DEF Selection!EmptyCatalog, Selection!Catalogs
  <2>. QED BY <2>1, SelectionConstants DEF Selection!Init, Selection!UiStates
<1>7. query \in [DocPaths -> [content : Selection!Contents, fresh : BOOLEAN]]
  BY SelectionConstants DEF Selection!Init
<1>8. calls \in [DocPaths -> Selection!CallStates]
  BY SelectionConstants DEF Selection!Init, Selection!NoCall, Selection!CallStates
<1>9. edits \in 0..MaxEdits /\ lags \in 0..MaxLags /\ picks \in 0..MaxPicks /\ reads \in Nat
  BY <1>1 DEF Selection!Init
<1>10. Selection!TypeOK
  BY <1>2, <1>3, <1>4, <1>5, <1>6, <1>7, <1>8, <1>9 DEF Selection!TypeOK
<1>11. UiOK(ui)
  BY <1>6, CalmUi
<1>. QED BY <1>6, <1>10, <1>11 DEF SelectionInv, Selection!LoadingHasCall

\* What no step that leaves the window alone can break.
LEMMA WindowStays ==
  ASSUME SelectionInv, Selection!TypeOK', ui' = ui,
         ui.read = "loading" => calls'[ui.selected].at # "none"
  PROVE  SelectionInv' /\ Selection!KeepsHome
<1>1. UiOK(ui') /\ UiOK(ui)
  BY DEF SelectionInv
<1>2. SelectionInv'
  BY <1>1, SelectionKept
<1>. QED BY <1>1, <1>2 DEF UiOK, Selection!KeepsHome, Selection!AtHome

LEMMA LoadingIsSelected ==
  ASSUME SelectionInv, ui.read # "idle"
  PROVE  ui.selected \in DocPaths
  BY DEF SelectionInv, UiOK, Selection!Listed

LEMMA FilesStep ==
  ASSUME SelectionInv, Selection!FileSteps
  PROVE  SelectionInv' /\ Selection!KeepsHome
<1>1. PICK f : Selection!ChangeFiles(f) /\ f \in Selection!Catalogs
  <2>1. files \in Selection!Catalogs /\ edits \in 0..MaxEdits /\ MaxEdits \in Nat
    BY ServicesAssumption DEF SelectionInv, Selection!TypeOK, Selection!SelectionAssumption
  <2>2. ASSUME NEW p \in DocPaths, Selection!EditFile(p)
        PROVE  \E f \in Selection!Catalogs : Selection!ChangeFiles(f)
    <3>1. edits < MaxEdits
      BY <2>2 DEF Selection!EditFile, Selection!ChangeFiles
    <3>2. edits + 2 \in 0..(MaxEdits + 1)
      BY <2>1, <3>1
    <3>3. [files EXCEPT ![p].ver = edits + 2] \in Selection!Catalogs
      BY <2>1, <3>2 DEF Selection!Catalogs, Selection!Contents
    <3>. QED BY <2>2, <3>3 DEF Selection!EditFile
  <2>3. ASSUME NEW p \in DocPaths, Selection!DeleteFile(p)
        PROVE  \E f \in Selection!Catalogs : Selection!ChangeFiles(f)
    <3>1. [files EXCEPT ![p] = Selection!Absent] \in Selection!Catalogs
      BY <2>1, SelectionConstants DEF Selection!Catalogs
    <3>. QED BY <2>3, <3>1 DEF Selection!DeleteFile
  <2>4. ASSUME NEW p \in DocPaths, NEW q \in DocPaths, Selection!RenameFile(p, q)
        PROVE  \E f \in Selection!Catalogs : Selection!ChangeFiles(f)
    <3>1. [files EXCEPT ![p] = Selection!Absent, ![q] = files[p]] \in Selection!Catalogs
      BY <2>1, SelectionConstants DEF Selection!Catalogs
    <3>. QED BY <2>4, <3>1 DEF Selection!RenameFile
  <2>. QED BY <2>2, <2>3, <2>4 DEF Selection!FileSteps
<1>2. files' \in Selection!Catalogs /\ edits' \in 0..MaxEdits
  BY <1>1, ServicesAssumption
  DEF Selection!ChangeFiles, SelectionInv, Selection!TypeOK, Selection!SelectionAssumption
<1>3. UNCHANGED <<runtime, reads, wire, lags, result, ui, picks, query, calls>>
  BY <1>1 DEF Selection!ChangeFiles, Selection!backendVars, Selection!windowVars
<1>4. Selection!TypeOK'
  BY <1>2, <1>3 DEF SelectionInv, Selection!TypeOK
<1>. QED BY <1>3, <1>4, WindowStays DEF SelectionInv, Selection!LoadingHasCall

LEMMA ReconcileStep ==
  ASSUME SelectionInv, Selection!Reconcile
  PROVE  SelectionInv' /\ Selection!KeepsHome
<1>. DEFINE open == Selection!OpenAfter(runtime.open, runtime.tree, files)
            moved == IF open \in {runtime.open, NoPath} THEN <<>>
                     ELSE <<Selection!OpenDocumentChanged(open)>>
<1>1. runtime \in Selection!Snapshots /\ files \in Selection!Catalogs /\ wire \in Seq(Selection!Events)
  BY DEF SelectionInv, Selection!TypeOK
<1>2. open \in Selection!MaybePath
  BY <1>1, RememberedIsPath DEF Selection!Snapshots
<1>. HIDE DEF open
<1>3. moved \in Seq(Selection!Events)
  <2>1. CASE open \in {runtime.open, NoPath}
    BY <2>1
  <2>2. CASE open \notin {runtime.open, NoPath}
    <3>1. Selection!OpenDocumentChanged(open) \in Selection!Events
      BY <1>2, <2>2, EventTypes DEF Selection!MaybePath
    <3>. QED BY <2>2, <3>1, OneIsSeq
  <2>. QED BY <2>1, <2>2
<1>4. <<Selection!TreeChanged(files, FALSE)>> \in Seq(Selection!Events)
  <2>1. Selection!TreeChanged(files, FALSE) \in Selection!Events
    BY <1>1, EventTypes
  <2>. QED BY <2>1, OneIsSeq
<1>5. /\ runtime' = [tree |-> files, open |-> open]
      /\ wire' = wire \o <<Selection!TreeChanged(files, FALSE)>> \o moved
      /\ UNCHANGED <<files, edits, reads, lags, result, ui, picks, query, calls>>
  BY DEF Selection!Reconcile, Selection!windowVars, open
<1>. HIDE DEF moved
<1>6. wire' \in Seq(Selection!Events)
  BY <1>1, <1>3, <1>4, <1>5, ConcatProperties
<1>7. runtime' \in Selection!Snapshots
  BY <1>1, <1>2, <1>5 DEF Selection!Snapshots
<1>8. Selection!TypeOK'
  BY <1>5, <1>6, <1>7 DEF SelectionInv, Selection!TypeOK
<1>. QED BY <1>5, <1>8, WindowStays DEF SelectionInv, Selection!LoadingHasCall

LEMMA ResyncStep ==
  ASSUME SelectionInv, Selection!Resync
  PROVE  SelectionInv' /\ Selection!KeepsHome
<1>1. runtime \in Selection!Snapshots /\ wire \in Seq(Selection!Events) /\ lags \in 0..MaxLags /\ MaxLags \in Nat
  BY ServicesAssumption DEF SelectionInv, Selection!TypeOK, Selection!SelectionAssumption
<1>2. PICK k \in 0..(Len(wire) - 1) : wire' = Append(SubSeq(wire, 1, k), Selection!Resynced(runtime))
  BY DEF Selection!Resync
<1>3. lags < MaxLags /\ lags' = lags + 1 /\ UNCHANGED <<files, edits, runtime, reads, result, ui, picks, query, calls>>
  BY DEF Selection!Resync, Selection!backendVars, Selection!windowVars
<1>4. SubSeq(wire, 1, k) \in Seq(Selection!Events)
  <2>1. k \in Int /\ 1 \in Int /\ \A i \in 1..k : wire[i] \in Selection!Events
    BY <1>1, <1>2, LenProperties
  <2>. QED BY <2>1, SubSeqProperties
<1>5. Selection!Resynced(runtime) \in Selection!Events
  BY <1>1, EventTypes
<1>6. wire' \in Seq(Selection!Events)
  BY <1>2, <1>4, <1>5, AppendProperties
<1>7. lags' \in 0..MaxLags
  BY <1>1, <1>3
<1>8. Selection!TypeOK'
  BY <1>3, <1>6, <1>7 DEF SelectionInv, Selection!TypeOK
<1>. QED BY <1>3, <1>8, WindowStays DEF SelectionInv, Selection!LoadingHasCall

LEMMA CallsStep ==
  ASSUME SelectionInv, Selection!CallSteps
  PROVE  SelectionInv' /\ Selection!KeepsHome
<1>1. /\ runtime \in Selection!Snapshots /\ wire \in Seq(Selection!Events) /\ reads \in Nat
      /\ files \in [DocPaths -> Selection!Contents] /\ calls \in [DocPaths -> Selection!CallStates]
  BY DEF SelectionInv, Selection!TypeOK, Selection!Catalogs
<1>. DEFINE Goes == /\ reads' \in Nat /\ calls' \in [DocPaths -> Selection!CallStates]
                    /\ runtime' \in Selection!Snapshots /\ wire' \in Seq(Selection!Events)
                    /\ UNCHANGED <<files, edits, lags, result, ui, picks, query>>
                    /\ \A q \in DocPaths : calls[q].at # "none" => calls'[q].at # "none"
<1>2. Goes
  <2>1. ASSUME NEW p \in DocPaths, Selection!RegisterDocumentRead(p)
        PROVE  Goes
    <3>1. reads + 1 \in Nat /\ calls[p] \in Selection!CallStates
      BY <1>1
    <3>2. [calls[p] EXCEPT !.at = "reading", !.seq = reads + 1] \in Selection!CallStates
      BY <3>1 DEF Selection!CallStates
    <3>. QED BY <1>1, <2>1, <3>1, <3>2
         DEF Selection!RegisterDocumentRead, Selection!callVars, Selection!windowVars
  <2>2. ASSUME NEW p \in DocPaths, Selection!ReadFile(p)
        PROVE  Goes
    <3>1. files[p] \in Selection!Contents /\ calls[p] \in Selection!CallStates
      BY <1>1
    <3>2. [calls[p] EXCEPT !.at = "read", !.got = files[p]] \in Selection!CallStates
      BY <3>1 DEF Selection!CallStates
    <3>. QED BY <1>1, <2>2, <3>1, <3>2
         DEF Selection!ReadFile, Selection!callVars, Selection!backendVars, Selection!windowVars
  <2>3. ASSUME NEW p \in DocPaths, Selection!FinishRead(p)
        PROVE  Goes
    <3>1. p \in Selection!MaybePath /\ calls[p] \in Selection!CallStates
      BY <1>1, SelectionConstants
    <3>2. PICK got \in {Selection!Absent, calls[p].got} :
             calls' = [calls EXCEPT ![p] = [calls[p] EXCEPT !.at = "answered", !.got = got]]
      BY <2>3 DEF Selection!FinishRead
    <3>3. [calls[p] EXCEPT !.at = "answered", !.got = got] \in Selection!CallStates
      BY <3>1, SelectionConstants DEF Selection!CallStates
    <3>4. calls' \in [DocPaths -> Selection!CallStates]
      BY <1>1, <3>2, <3>3
    <3>5. \A q \in DocPaths : calls[q].at # "none" => calls'[q].at # "none"
      BY <1>1, <3>1, <3>2 DEF Selection!CallStates
    <3>6. Selection!OpenDocumentChanged(p) \in Selection!Events
      BY EventTypes
    <3>7. Append(wire, Selection!OpenDocumentChanged(p)) \in Seq(Selection!Events)
      BY <1>1, <3>6, AppendProperties
    <3>8. [runtime EXCEPT !.open = p] \in Selection!Snapshots
      BY <1>1, <3>1 DEF Selection!Snapshots
    <3>9. wire' \in Seq(Selection!Events) /\ runtime' \in Selection!Snapshots
      BY <1>1, <2>3, <3>7, <3>8 DEF Selection!FinishRead
    <3>10. UNCHANGED <<files, edits, lags, result, ui, picks, query, reads>>
      BY <2>3 DEF Selection!FinishRead, Selection!callVars, Selection!windowVars
    <3>. QED BY <1>1, <3>4, <3>5, <3>9, <3>10
  <2>. QED BY <2>1, <2>2, <2>3 DEF Selection!CallSteps
<1>3. Selection!TypeOK'
  BY <1>2 DEF SelectionInv, Selection!TypeOK
<1>4. ui.read = "loading" => calls'[ui.selected].at # "none"
  BY <1>2, LoadingIsSelected DEF SelectionInv, Selection!LoadingHasCall
<1>. QED BY <1>2, <1>3, <1>4, WindowStays

LEMMA UsersStep ==
  ASSUME SelectionInv, Selection!UserSteps
  PROVE  SelectionInv' /\ Selection!KeepsHome
<1>1. /\ ui \in Selection!UiStates /\ picks \in 0..MaxPicks /\ MaxPicks \in Nat
      /\ ui.read = "loading" => calls[ui.selected].at # "none"
  BY ServicesAssumption
  DEF SelectionInv, Selection!TypeOK, Selection!SelectionAssumption, Selection!LoadingHasCall
<1>2. PICK u : /\ Selection!Pick(u) /\ UiOK(u)
               /\ u.read = "loading" => ui.read = "loading" /\ u.selected = ui.selected
  <2>1. CASE Selection!ShowDocumentsHome
    <3>. DEFINE c == Selection!ClearSelection(ui)
                u == [c EXCEPT !.home = TRUE]
    <3>1. c \in Selection!UiStates /\ c.selected = NoPath /\ c.read = "idle"
      BY <1>1, ClearedUi
    <3>2. Selection!Pick(u)
      BY <2>1 DEF Selection!ShowDocumentsHome
    <3>. HIDE DEF c
    <3>3. u \in Selection!UiStates /\ u.selected = NoPath /\ u.read = "idle"
      BY <3>1 DEF Selection!UiStates
    <3>. QED BY <3>2, <3>3, CalmUi
  <2>2. ASSUME NEW p \in DocPaths, Selection!SelectDocument(p)
        PROVE  \E u : /\ Selection!Pick(u) /\ UiOK(u)
                      /\ u.read = "loading" => ui.read = "loading" /\ u.selected = ui.selected
    <3>. DEFINE away == [ui EXCEPT !.home = FALSE, !.removed = FALSE]
                u == Selection!OpenCurrentDocument(away, p)
    <3>1. Selection!Pick(u) /\ Selection!Listed(ui.tree, p)
      BY <2>2 DEF Selection!SelectDocument
    <3>2. /\ away \in Selection!UiStates /\ away.home = FALSE /\ away.tree = ui.tree
          /\ away.selected = ui.selected /\ away.read = ui.read
      BY <1>1 DEF Selection!UiStates
    <3>. HIDE DEF away
    <3>3. p \in Selection!MaybePath /\ p # NoPath
      BY SelectionConstants
    <3>4. UiOK(u) /\ u.selected = p /\ (u.read = "loading" => u = away)
      BY <3>1, <3>2, <3>3, OpenedUi
    <3>. QED BY <3>1, <3>2, <3>4
  <2>. QED BY <2>1, <2>2 DEF Selection!UserSteps
<1>3. /\ ui' = u /\ picks < MaxPicks /\ picks' = picks + 1
      /\ UNCHANGED <<files, edits, runtime, reads, lags, wire, result, query, calls>>
  BY <1>2 DEF Selection!Pick, Selection!outsideVars, Selection!backendVars
<1>4. picks' \in 0..MaxPicks /\ picks' # picks
  BY <1>1, <1>3
<1>5. u \in Selection!UiStates
  BY <1>2 DEF UiOK
<1>6. Selection!TypeOK'
  BY <1>3, <1>4, <1>5 DEF SelectionInv, Selection!TypeOK
<1>7. SelectionInv'
  BY <1>1, <1>2, <1>3, <1>6, SelectionKept
<1>. QED BY <1>4, <1>7 DEF Selection!KeepsHome

\* A message leaves the invariant whole, and the window at home.
LEMMA Answered ==
  ASSUME SelectionInv, Selection!TypeOK', Answers(ui, ui'), UNCHANGED calls
  PROVE  SelectionInv' /\ Selection!KeepsHome
<1>1. ui'.read = "loading" => calls'[ui'.selected].at # "none"
  BY DEF SelectionInv, Selection!LoadingHasCall, Answers
<1>2. SelectionInv'
  BY <1>1, SelectionKept DEF Answers
<1>. QED BY <1>2 DEF Answers, Selection!KeepsHome, Selection!AtHome

LEMMA EventStep ==
  ASSUME SelectionInv, Selection!DocumentEventReceived
  PROVE  SelectionInv' /\ Selection!KeepsHome
<1>. DEFINE e == Head(wire)
<1>1. /\ ui \in Selection!UiStates /\ UiOK(ui) /\ wire \in Seq(Selection!Events) /\ wire # <<>>
      /\ query \in [DocPaths -> [content : Selection!Contents, fresh : BOOLEAN]]
  BY DEF SelectionInv, Selection!TypeOK, Selection!DocumentEventReceived
<1>2. e \in Selection!Events /\ wire' = Tail(wire) /\ Tail(wire) \in Seq(Selection!Events)
  BY <1>1, HeadTailProperties DEF Selection!DocumentEventReceived
<1>3. /\ ui' = CASE e.type = "tree" -> Selection!AfterTree(ui, e.tree)
                 [] e.type = "open" -> Selection!AfterOpen(ui, e.path)
                 [] e.type = "resynced" -> Selection!ApplyAuthoritativeSnapshot(ui, e.snapshot)
      /\ query' = IF e.type = "tree" THEN [p \in DocPaths |-> [query[p] EXCEPT !.fresh = FALSE]]
                  ELSE query
      /\ UNCHANGED <<files, edits, runtime, reads, lags, result, picks, calls>>
  BY DEF Selection!DocumentEventReceived, Selection!outsideVars, Selection!backendVars
<1>4. query' \in [DocPaths -> [content : Selection!Contents, fresh : BOOLEAN]]
  BY <1>1, <1>3
<1>. HIDE DEF e
<1>5. \/ e.type = "tree" /\ e.tree \in Selection!Catalogs
      \/ e.type = "open" /\ e.path \in DocPaths
      \/ e.type = "resynced" /\ e.snapshot \in Selection!Snapshots
  BY <1>2 DEF Selection!Events
<1>6. Answers(ui, ui')
  <2>1. CASE e.type = "tree" /\ e.tree \in Selection!Catalogs
    <3>1. ui' = Selection!AfterTree(ui, e.tree)
      BY <1>3, <2>1
    <3>. QED BY <1>1, <2>1, <3>1, TreeArrives
  <2>2. CASE e.type = "open" /\ e.path \in DocPaths
    <3>1. ui' = Selection!AfterOpen(ui, e.path)
      BY <1>3, <2>2
    <3>. QED BY <1>1, <2>2, <3>1, OpenArrives
  <2>3. CASE e.type = "resynced" /\ e.snapshot \in Selection!Snapshots
    <3>1. ui' = Selection!ApplyAuthoritativeSnapshot(ui, e.snapshot)
      BY <1>3, <2>3
    <3>. QED BY <1>1, <2>3, <3>1, SnapshotArrives
  <2>. QED BY <1>5, <2>1, <2>2, <2>3
<1>7. Selection!TypeOK'
  BY <1>2, <1>3, <1>4, <1>6 DEF Answers, UiOK, SelectionInv, Selection!TypeOK
<1>. QED BY <1>3, <1>6, <1>7, Answered

LEMMA StartedStep ==
  ASSUME SelectionInv, Selection!SessionStarted
  PROVE  SelectionInv' /\ Selection!KeepsHome
<1>. DEFINE u == IF ui.heard THEN ui ELSE Selection!ApplyAuthoritativeSnapshot(ui, result.snapshot)
<1>1. /\ ui \in Selection!UiStates /\ UiOK(ui)
      /\ result \in [status : {"sent", "received"}, snapshot : Selection!Snapshots]
  BY DEF SelectionInv, Selection!TypeOK
<1>2. /\ ui' = [u EXCEPT !.ready = TRUE] /\ result' = [result EXCEPT !.status = "received"]
      /\ UNCHANGED <<files, edits, runtime, reads, lags, wire, picks, query, calls>>
  BY DEF Selection!SessionStarted, Selection!outsideVars, Selection!backendVars
<1>3. Answers(ui, u)
  <2>1. CASE ui.heard
    BY <1>1, <2>1 DEF Answers, UiOK
  <2>2. CASE ~ui.heard
    BY <1>1, <2>2, SnapshotArrives
  <2>. QED BY <2>1, <2>2
<1>. HIDE DEF u
<1>4. /\ ui' \in Selection!UiStates /\ ui'.selected = u.selected /\ ui'.read = u.read
      /\ ui'.home = u.home /\ ui'.tree = u.tree
  BY <1>2, <1>3 DEF Answers, UiOK, Selection!UiStates
<1>5. UiOK(ui')
  BY <1>3, <1>4 DEF Answers, UiOK
<1>6. Answers(ui, ui')
  BY <1>3, <1>4, <1>5 DEF Answers
<1>7. result' \in [status : {"sent", "received"}, snapshot : Selection!Snapshots]
  BY <1>1, <1>2
<1>8. Selection!TypeOK'
  BY <1>2, <1>4, <1>7 DEF SelectionInv, Selection!TypeOK
<1>. QED BY <1>2, <1>6, <1>8, Answered

\* The window keeps what it selected and where it is.
LEMMA ShownStep ==
  ASSUME SelectionInv, Selection!TypeOK', NEW r \in {"idle", "loading"},
         ui.selected # NoPath \/ r = "idle",
         r = "loading" => calls'[ui.selected].at # "none",
         ui'.selected = ui.selected, ui'.home = ui.home, ui'.tree = ui.tree, ui'.read = r
  PROVE  SelectionInv' /\ Selection!KeepsHome
<1>1. UiOK(ui) /\ ui' \in Selection!UiStates
  BY DEF SelectionInv, Selection!TypeOK
<1>2. UiOK(ui')
  BY <1>1 DEF UiOK
<1>3. SelectionInv'
  BY <1>2, SelectionKept
<1>. QED BY <1>1, <1>3 DEF UiOK, Selection!KeepsHome, Selection!AtHome

LEMMA StartReadStep ==
  ASSUME SelectionInv, Selection!StartRead
  PROVE  SelectionInv' /\ Selection!KeepsHome
<1>1. /\ ui \in Selection!UiStates /\ calls \in [DocPaths -> Selection!CallStates]
      /\ query \in [DocPaths -> [content : Selection!Contents, fresh : BOOLEAN]]
  BY DEF SelectionInv, Selection!TypeOK
<1>2. /\ ui.selected \in DocPaths /\ ui.selected # NoPath
      /\ UNCHANGED <<files, edits, runtime, reads, lags, wire, result, picks, query>>
  BY LoadingIsSelected, SelectionConstants
  DEF Selection!StartRead, Selection!outsideVars, Selection!backendVars
<1>3. CASE Selection!ShowsNow(query[ui.selected].content) /\ UNCHANGED calls
  <2>1. query[ui.selected].content \in Selection!Contents
    BY <1>1, <1>2
  <2>2. /\ ui' \in Selection!UiStates /\ ui'.selected = ui.selected /\ ui'.home = ui.home
        /\ ui'.tree = ui.tree /\ ui'.read = "idle"
    BY <1>1, <1>3, <2>1 DEF Selection!ShowsNow, Selection!UiStates
  <2>3. Selection!TypeOK'
    BY <1>2, <1>3, <2>2 DEF SelectionInv, Selection!TypeOK
  <2>. QED BY <1>2, <2>2, <2>3, ShownStep
<1>4. CASE /\ ui' = [ui EXCEPT !.read = "loading"]
           /\ calls' = IF calls[ui.selected].at # "none" THEN calls
                       ELSE [calls EXCEPT ![ui.selected] = [@ EXCEPT !.at = "sent"]]
  <2>1. calls[ui.selected] \in Selection!CallStates
    BY <1>1, <1>2
  <2>2. /\ [calls[ui.selected] EXCEPT !.at = "sent"] \in Selection!CallStates
        /\ [calls[ui.selected] EXCEPT !.at = "sent"].at = "sent"
    BY <2>1 DEF Selection!CallStates
  <2>3. calls' \in [DocPaths -> Selection!CallStates] /\ calls'[ui.selected].at # "none"
    BY <1>1, <1>2, <1>4, <2>2
  <2>4. /\ ui' \in Selection!UiStates /\ ui'.selected = ui.selected /\ ui'.home = ui.home
        /\ ui'.tree = ui.tree /\ ui'.read = "loading"
    BY <1>1, <1>4 DEF Selection!UiStates
  <2>5. Selection!TypeOK'
    BY <1>2, <2>3, <2>4 DEF SelectionInv, Selection!TypeOK
  <2>. QED BY <1>2, <2>3, <2>4, <2>5, ShownStep
<1>. QED BY <1>3, <1>4 DEF Selection!StartRead

LEMMA AnsweredStep ==
  ASSUME SelectionInv, NEW p \in DocPaths, Selection!ReadAnswered(p)
  PROVE  SelectionInv' /\ Selection!KeepsHome
<1>1. /\ ui \in Selection!UiStates /\ calls \in [DocPaths -> Selection!CallStates]
      /\ query \in [DocPaths -> [content : Selection!Contents, fresh : BOOLEAN]]
  BY DEF SelectionInv, Selection!TypeOK
<1>2. /\ calls' = [calls EXCEPT ![p] = Selection!NoCall]
      /\ IF Selection!Waiting(p) THEN Selection!ShowsNow(calls[p].got) ELSE UNCHANGED ui
      /\ UNCHANGED <<files, edits, runtime, reads, lags, wire, result, picks>>
  BY DEF Selection!ReadAnswered, Selection!outsideVars, Selection!backendVars
<1>3. Selection!NoCall \in Selection!CallStates /\ calls[p].got \in Selection!Contents
  BY <1>1, SelectionConstants DEF Selection!NoCall, Selection!CallStates
<1>4. calls' \in [DocPaths -> Selection!CallStates]
  BY <1>1, <1>2, <1>3
<1>5. query' \in [DocPaths -> [content : Selection!Contents, fresh : BOOLEAN]]
  <2>1. /\ [query[p] EXCEPT !.fresh = FALSE] \in [content : Selection!Contents, fresh : BOOLEAN]
        /\ [content |-> calls[p].got, fresh |-> TRUE] \in [content : Selection!Contents, fresh : BOOLEAN]
    BY <1>1, <1>3
  <2>. QED BY <1>1, <2>1 DEF Selection!ReadAnswered
<1>6. CASE Selection!Waiting(p)
  <2>2. /\ ui' \in Selection!UiStates /\ ui'.selected = ui.selected /\ ui'.home = ui.home
        /\ ui'.tree = ui.tree /\ ui'.read = "idle"
    BY <1>1, <1>2, <1>3, <1>6 DEF Selection!ShowsNow, Selection!UiStates
  <2>3. Selection!TypeOK'
    BY <1>2, <1>4, <1>5, <2>2 DEF SelectionInv, Selection!TypeOK
  <2>. QED BY <2>2, <2>3, ShownStep
<1>7. CASE ~Selection!Waiting(p)
  <2>1. Selection!TypeOK' /\ ui' = ui
    BY <1>2, <1>4, <1>5, <1>7 DEF SelectionInv, Selection!TypeOK
  <2>2. ui.read = "loading" => calls'[ui.selected].at # "none"
    <3>1. ui.read = "loading" => ui.selected \in DocPaths /\ ui.selected # p
      BY <1>7, LoadingIsSelected DEF Selection!Waiting
    <3>. QED BY <1>1, <1>2, <3>1 DEF SelectionInv, Selection!LoadingHasCall
  <2>. QED BY <2>1, <2>2, WindowStays
<1>. QED BY <1>6, <1>7

LEMMA StaleStep ==
  ASSUME SelectionInv, NEW p \in DocPaths, Selection!QueryGoesStale(p)
  PROVE  SelectionInv' /\ Selection!KeepsHome
<1>1. query \in [DocPaths -> [content : Selection!Contents, fresh : BOOLEAN]]
  BY DEF SelectionInv, Selection!TypeOK
<1>2. /\ query' = [query EXCEPT ![p] = [query[p] EXCEPT !.fresh = FALSE]]
      /\ UNCHANGED <<files, edits, runtime, reads, lags, wire, result, ui, picks, calls>>
  BY DEF Selection!QueryGoesStale, Selection!outsideVars, Selection!backendVars
<1>3. query' \in [DocPaths -> [content : Selection!Contents, fresh : BOOLEAN]]
  BY <1>1, <1>2
<1>4. Selection!TypeOK'
  BY <1>2, <1>3 DEF SelectionInv, Selection!TypeOK
<1>. QED BY <1>2, <1>4, WindowStays DEF SelectionInv, Selection!LoadingHasCall

LEMMA SelectionStep ==
  ASSUME SelectionInv, Selection!Next
  PROVE  SelectionInv' /\ Selection!KeepsHome
  BY FilesStep, ReconcileStep, ResyncStep, CallsStep, UsersStep, EventStep, StartedStep,
     StartReadStep, AnsweredStep, StaleStep DEF Selection!Next

-----------------------------------------------------------------------------
(***************************************************************************)
(* DocumentReads.  The reads of the active session carry different         *)
(* numbers, none beyond the last one given out.                            *)
(***************************************************************************)
Slots == Calls \cup {Page}
IsSession(s) ==
  /\ s = [n |-> s.n, issued |-> s.issued, latest |-> s.latest, reads |-> s.reads, opened |-> s.opened]
  /\ s.n \in Nat /\ s.reads \in Nat /\ s.latest = s.reads
IsCall(c) ==
  /\ c = [op |-> c.op, session |-> c.session, path |-> c.path, id |-> c.id, number |-> c.number,
          cursor |-> c.cursor, answer |-> c.answer, allowed |-> c.allowed]
  /\ c.session \in Nat /\ c.number \in Nat
Registers(c) == c.op \in {"read", "version"}

ReadsShape ==
  /\ IsSession(session)
  /\ call = [k \in Slots |-> call[k]]
  /\ \A k \in Slots : IsCall(call[k]) /\ call[k].session <= session.n

Current(k) == Registers(call[k]) /\ call[k].session = session.n
ReadsInv ==
  /\ ReadsShape
  /\ \A k \in Calls : Current(k) => call[k].number <= session.reads
  /\ \A k \in Calls : \A other \in Calls \ {k} :
       Current(k) /\ Current(other) => call[k].number # call[other].number

LEMMA IdleIsCall == IsCall(Reads!Idle) /\ ~Registers(Reads!Idle) /\ Reads!Idle.session = 0
  BY DEF IsCall, Registers, Reads!Idle

LEMMA PageIsNoCall == Page \notin Calls
  BY ServicesAssumption DEF Reads!DocumentReadsAssumption

LEMMA ReadsInit == Reads!Init => ReadsInv
<1>. SUFFICES ASSUME Reads!Init PROVE ReadsInv
  OBVIOUS
<1>1. call = [k \in Slots |-> Reads!Idle] /\ session = Reads!NewSession(1)
  BY DEF Reads!Init, Slots
<1>2. IsSession(session) /\ session.n = 1
  BY <1>1 DEF IsSession, Reads!NewSession
<1>3. \A k \in Slots : call[k] = Reads!Idle
  BY <1>1
<1>4. ReadsShape
  BY <1>1, <1>2, <1>3, IdleIsCall DEF ReadsShape
<1>5. \A k \in Calls : ~Registers(call[k])
  BY <1>3, IdleIsCall DEF Slots
<1>. QED BY <1>4, <1>5 DEF ReadsInv, Current

\* A call takes a slot, changes or ends, and registers no read.
LEMMA NothingRegistered ==
  ASSUME ReadsInv, NEW k \in Slots, NEW c, call' = [call EXCEPT ![k] = c],
         IsCall(c), c.session <= session.n,
         k \in Calls /\ Registers(c) =>
           Registers(call[k]) /\ c.session = call[k].session /\ c.number = call[k].number,
         IsSession(session'), session'.n = session.n, session'.reads = session.reads
  PROVE  ReadsInv'
<1>1. /\ \A j \in Slots : call'[j] = IF j = k THEN c ELSE call[j]
      /\ call' = [j \in Slots |-> call'[j]]
  BY DEF ReadsInv, ReadsShape
<1>2. ReadsShape'
  BY <1>1 DEF ReadsInv, ReadsShape
<1>3. \A j \in Calls : Current(j)' => Current(j) /\ call'[j].number = call[j].number
  BY <1>1 DEF Current, Slots
<1>. QED BY <1>2, <1>3 DEF ReadsInv

LEMMA AReadIsRegistered ==
  ASSUME ReadsInv, NEW k \in Calls, NEW c, call' = [call EXCEPT ![k] = c],
         IsCall(c), c.session = session.n, c.number = session.reads + 1,
         session' = Reads!Registered(session)
  PROVE  ReadsInv' /\ session'.opened = session.opened
<1>1. /\ \A j \in Slots : call'[j] = IF j = k THEN c ELSE call[j]
      /\ call' = [j \in Slots |-> call'[j]]
  BY DEF ReadsInv, ReadsShape, Slots
<1>8. /\ session = [n |-> session.n, issued |-> session.issued, latest |-> session.latest,
                    reads |-> session.reads, opened |-> session.opened]
      /\ session.n \in Nat /\ session.reads \in Nat
  BY DEF ReadsInv, ReadsShape, IsSession
<1>9. session' = [n |-> session.n, issued |-> session.issued, latest |-> session.reads + 1,
                  reads |-> session.reads + 1, opened |-> session.opened]
  BY <1>8 DEF Reads!Registered
<1>2. /\ IsSession(session') /\ session'.n = session.n /\ session'.reads = session.reads + 1
      /\ session'.opened = session.opened /\ session.n \in Nat /\ session.reads \in Nat
  BY <1>8, <1>9 DEF IsSession
<1>3. ReadsShape'
  BY <1>1, <1>2 DEF ReadsInv, ReadsShape
<1>4. \A j \in Calls \ {k} : /\ call'[j] = call[j] /\ call[j].number \in Nat
                             /\ Current(j)' => Current(j) /\ call[j].number <= session.reads
  BY <1>1, <1>2 DEF ReadsInv, ReadsShape, IsCall, Current, Slots
<1>5. call'[k].number = session.reads + 1
  BY <1>1 DEF Slots
<1>6. \A j \in Calls : Current(j)' => call'[j].number <= session'.reads
  BY <1>2, <1>4, <1>5
<1>7. ASSUME NEW i \in Calls, NEW j \in Calls \ {i}, Current(i)', Current(j)'
      PROVE  call'[i].number # call'[j].number
  <2>1. CASE i = k
    BY <1>2, <1>4, <1>5, <1>7, <2>1
  <2>2. CASE j = k
    BY <1>2, <1>4, <1>5, <1>7, <2>2
  <2>3. CASE i # k /\ j # k
    BY <1>4, <1>7, <2>3 DEF ReadsInv
  <2>. QED BY <2>1, <2>2, <2>3
<1>. QED BY <1>2, <1>3, <1>6, <1>7 DEF ReadsInv

\* Nothing but the end of a read opens a document.
LEMMA OpenStays ==
  ASSUME session'.opened = session.opened
  PROVE  Reads!OpensAskedLast
  BY DEF Reads!OpensAskedLast

LEMMA SelectStep ==
  ASSUME ReadsInv, NEW k \in Calls, NEW p, Reads!Select(k, p)
  PROVE  ReadsInv' /\ Reads!OpensAskedLast
<1>. DEFINE c == [Reads!Idle EXCEPT !.op = "read", !.session = session.n, !.path = p,
                                    !.number = session.reads + 1]
<1>1. call' = [call EXCEPT ![k] = c] /\ session' = Reads!Registered(session)
  BY DEF Reads!Select
<1>2. session.n \in Nat /\ session.reads + 1 \in Nat
  BY DEF ReadsInv, ReadsShape, IsSession
<1>4. c \in [op : {"read"}, session : {session.n}, path : {p}, id : {None},
             number : {session.reads + 1}, cursor : {None}, answer : {None}, allowed : {FALSE}]
  BY DEF Reads!Idle
<1>. HIDE DEF c
<1>3. IsCall(c) /\ c.session = session.n /\ c.number = session.reads + 1
  BY <1>2, <1>4 DEF IsCall
<1>. QED BY <1>1, <1>3, AReadIsRegistered, OpenStays

LEMMA AskVersionStep ==
  ASSUME ReadsInv, NEW k \in Calls, NEW i, Reads!AskVersion(k, i)
  PROVE  ReadsInv' /\ Reads!OpensAskedLast
<1>. DEFINE item == window.items[i]
            from == [commit |-> item.commit, path |-> item.path]
            allowed == <<item.commit, item.path>> \in session.issued
            c == [Reads!Idle EXCEPT
                   !.op = "version", !.session = session.n, !.path = item.path,
                   !.number = session.reads + 1, !.cursor = from, !.allowed = allowed]
<1>1. call' = [call EXCEPT ![k] = c] /\ session' = Reads!Registered(session)
  BY DEF Reads!AskVersion
<1>2. session.n \in Nat /\ session.reads + 1 \in Nat
  BY DEF ReadsInv, ReadsShape, IsSession
<1>. HIDE DEF item, from, allowed
<1>4. c \in [op : {"version"}, session : {session.n}, path : {item.path}, id : {None},
             number : {session.reads + 1}, cursor : {from}, answer : {None}, allowed : {allowed}]
  BY DEF Reads!Idle
<1>. HIDE DEF c
<1>3. IsCall(c) /\ c.session = session.n /\ c.number = session.reads + 1
  BY <1>2, <1>4 DEF IsCall
<1>. QED BY <1>1, <1>3, AReadIsRegistered, OpenStays

\* What ends a call leaves its slot idle.
LEMMA SlotEnds ==
  ASSUME ReadsInv, NEW k \in Slots, Reads!End(k),
         IsSession(session'), session'.n = session.n, session'.reads = session.reads
  PROVE  ReadsInv'
<1>1. call' = [call EXCEPT ![k] = Reads!Idle] /\ Reads!Idle.session <= session.n
  BY IdleIsCall DEF Reads!End, ReadsInv, ReadsShape, IsSession
<1>. QED BY <1>1, IdleIsCall, NothingRegistered

LEMMA WorkStep ==
  ASSUME ReadsInv, NEW k \in Slots, Reads!Work(k)
  PROVE  ReadsInv' /\ Reads!OpensAskedLast
<1>1. PICK given : call' = [call EXCEPT ![k].answer = given]
  BY DEF Reads!Work
<1>. DEFINE c == [call[k] EXCEPT !.answer = given]
<1>2. IsCall(call[k]) /\ call[k].session <= session.n
  BY DEF ReadsInv, ReadsShape
<1>3. /\ IsCall(c) /\ c.op = call[k].op /\ c.session = call[k].session /\ c.number = call[k].number
  BY <1>2 DEF IsCall
<1>4. call' = [call EXCEPT ![k] = c]
  BY <1>1
<1>5. session' = session /\ IsSession(session)
  BY DEF Reads!Work, ReadsInv, ReadsShape
<1>. HIDE DEF c
<1>6. ReadsInv'
  BY <1>2, <1>3, <1>4, <1>5, NothingRegistered DEF Registers
<1>. QED BY <1>5, <1>6, OpenStays

LEMMA AskPageStep ==
  ASSUME ReadsInv, NEW append, Reads!AskPage(append)
  PROVE  ReadsInv' /\ Reads!OpensAskedLast
<1>1. PICK o, path, id, cursor :
        call' = [call EXCEPT ![Page] = [Reads!Idle EXCEPT
                  !.op = o, !.session = session.n, !.path = path, !.id = id, !.cursor = cursor]]
  BY DEF Reads!AskPage
<1>. DEFINE c == [Reads!Idle EXCEPT
                  !.op = o, !.session = session.n, !.path = path, !.id = id, !.cursor = cursor]
<1>2. session' = session /\ IsSession(session) /\ session.n \in Nat
  BY DEF Reads!AskPage, ReadsInv, ReadsShape, IsSession
<1>6. c \in [op : {o}, session : {session.n}, path : {path}, id : {id}, number : {0},
             cursor : {cursor}, answer : {None}, allowed : {FALSE}]
  BY DEF Reads!Idle
<1>. HIDE DEF c
<1>3. IsCall(c) /\ c.session = session.n
  BY <1>2, <1>6 DEF IsCall
<1>4. call' = [call EXCEPT ![Page] = c] /\ Page \in Slots /\ Page \notin Calls /\ session.n <= session.n
  BY <1>1, <1>2, PageIsNoCall DEF Slots, c
<1>5. ReadsInv'
  BY <1>2, <1>3, <1>4, NothingRegistered
<1>. QED BY <1>2, <1>5, OpenStays

LEMMA PublishReadStep ==
  ASSUME ReadsInv, NEW k \in Calls, Reads!PublishRead(k)
  PROVE  ReadsInv' /\ Reads!OpensAskedLast
<1>1. IsSession(session) /\ k \in Slots /\ Reads!End(k)
  BY DEF ReadsInv, ReadsShape, Slots, Reads!PublishRead
<1>2. \/ session' = session
      \/ session' = [session EXCEPT !.opened = call[k].path] /\ session.latest = call[k].number
  BY DEF Reads!PublishRead, Reads!Opens
<1>3. IsSession(session') /\ session'.n = session.n /\ session'.reads = session.reads
  BY <1>1, <1>2 DEF IsSession
<1>4. ReadsInv'
  BY <1>1, <1>3, SlotEnds
<1>5. ASSUME NEW j \in Calls, session'.opened # session.opened, call[j].op = "read",
             call'[j] = Reads!Idle, call[j].session = session.n,
             NEW other \in Calls \ {j}, call[other].op = "read", call[other].session = session.n
      PROVE  call[other].number < call[j].number
  <2>1. j = k
    <3>1. j # k => call'[j] = call[j]
      BY <1>1 DEF Reads!End, ReadsInv, ReadsShape, Slots
    <3>. QED BY <1>5, <3>1, IdleIsCall DEF Registers
  <2>2. session.latest = call[k].number /\ session.latest = session.reads /\ session.reads \in Nat
    BY <1>1, <1>2, <1>5 DEF IsSession
  <2>3. Current(k) /\ Current(other)
    BY <1>5, <2>1 DEF Current, Registers
  <2>4. /\ call[other].number \in Nat /\ call[other].number <= session.reads
        /\ call[other].number # call[k].number
    BY <2>1, <2>3 DEF ReadsInv, ReadsShape, IsCall, Slots
  <2>. QED BY <2>1, <2>2, <2>4
<1>. QED BY <1>4, <1>5 DEF Reads!OpensAskedLast

LEMMA PublishVersionStep ==
  ASSUME ReadsInv, NEW k \in Calls, Reads!PublishVersion(k)
  PROVE  ReadsInv' /\ Reads!OpensAskedLast
<1>1. session' = session /\ IsSession(session) /\ k \in Slots /\ Reads!End(k)
  BY DEF Reads!PublishVersion, ReadsInv, ReadsShape, Slots
<1>. QED BY <1>1, SlotEnds, OpenStays

LEMMA PublishPageStep ==
  ASSUME ReadsInv, Reads!PublishPage
  PROVE  ReadsInv' /\ Reads!OpensAskedLast
<1>1. PICK issued : session' \in {session, [session EXCEPT !.issued = issued]}
  BY DEF Reads!PublishPage
<1>2. IsSession(session) /\ Page \in Slots /\ Reads!End(Page)
  BY DEF ReadsInv, ReadsShape, Slots, Reads!PublishPage
<1>3. /\ IsSession(session') /\ session'.n = session.n /\ session'.reads = session.reads
      /\ session'.opened = session.opened
  BY <1>1, <1>2 DEF IsSession
<1>. QED BY <1>2, <1>3, SlotEnds, OpenStays

\* Commits, HEAD and the catalog change on their own.
LEMMA SessionStays ==
  ASSUME ReadsInv, UNCHANGED <<session, call>>
  PROVE  ReadsInv' /\ Reads!OpensAskedLast
<1>1. ReadsInv'
  BY DEF ReadsInv, ReadsShape, IsSession, IsCall, Registers, Current, Slots
<1>. QED BY <1>1, OpenStays

LEMMA RestartStep ==
  ASSUME ReadsInv, Reads!Restart
  PROVE  ReadsInv' /\ Reads!OpensAskedLast
<1>1. session' = Reads!NewSession(session.n + 1) /\ call' = call /\ session.n \in Nat
  BY DEF Reads!Restart, ReadsInv, ReadsShape, IsSession
<1>2. IsSession(session') /\ session'.n = session.n + 1
  BY <1>1 DEF IsSession, Reads!NewSession
<1>3. \A k \in Slots : IsCall(call'[k]) /\ call'[k].session <= session.n
  BY <1>1 DEF ReadsInv, ReadsShape
<1>9. \A k \in Slots : call'[k].session \in Nat
  BY <1>3 DEF IsCall
<1>4. \A k \in Slots : call'[k].session <= session'.n /\ call'[k].session # session'.n
  BY <1>1, <1>2, <1>3, <1>9
<1>5. ReadsShape'
  BY <1>1, <1>2, <1>3, <1>4 DEF ReadsInv, ReadsShape
<1>6. \A k \in Calls : ~Current(k)'
  BY <1>4 DEF Current, Slots
<1>7. ReadsInv'
  BY <1>5, <1>6 DEF ReadsInv
<1>8. \A k \in Calls : ~(call[k].op = "read" /\ call'[k] = Reads!Idle)
  BY <1>1, IdleIsCall DEF Registers
<1>. QED BY <1>7, <1>8 DEF Reads!OpensAskedLast

LEMMA ReadsStep ==
  ASSUME ReadsInv, Reads!Next
  PROVE  ReadsInv' /\ Reads!OpensAskedLast
<1>1. CASE \E k \in Calls : \/ \E p \in {Guide, Journal} : Reads!Select(k, p)
                            \/ \E i \in DOMAIN window.items : Reads!AskVersion(k, i)
                            \/ Reads!Work(k) \/ Reads!PublishRead(k) \/ Reads!PublishVersion(k)
  BY <1>1, SelectStep, AskVersionStep, WorkStep, PublishReadStep, PublishVersionStep DEF Slots
<1>2. CASE (\E append \in BOOLEAN : Reads!AskPage(append)) \/ Reads!Work(Page) \/ Reads!PublishPage
  BY <1>2, AskPageStep, WorkStep, PublishPageStep DEF Slots
<1>3. CASE Reads!Commit \/ Reads!Reset \/ Reads!Refresh
  <2>1. UNCHANGED <<session, call>>
    BY <1>3 DEF Reads!Commit, Reads!Reset, Reads!Refresh, Reads!NewCommit
  <2>. QED BY <2>1, SessionStays
<1>4. CASE Reads!Restart
  BY <1>4, RestartStep
<1>. QED BY <1>1, <1>2, <1>3, <1>4 DEF Reads!Next

-----------------------------------------------------------------------------
(***************************************************************************)
(* GithubPages.  Every request is a page or is taken from the budget; the  *)
(* repositories that are listed are those before the cursor.               *)
(***************************************************************************)
IsRead(r) ==
  r = [items |-> r.items, got |-> r.got, pages |-> r.pages, budget |-> r.budget, gone |-> r.gone,
       sub |-> r.sub, turns |-> r.turns, truncated |-> r.truncated, dropped |-> r.dropped,
       requests |-> r.requests]
Counts(r) ==
  /\ IsRead(r)
  /\ r.pages \in 0..ItemPages /\ r.budget \in 0..Budget
  /\ r.requests = r.pages + (Budget - r.budget)
RequestsInv == Counts(read) /\ (pc = "page" => read.pages < ItemPages)

LEMMA PagesConstants ==
  /\ ItemPages \in Nat \ {0} /\ Budget \in Nat \ {0} /\ ReposPerPage \in Nat \ {0}
  /\ OwnersShown \in Nat \ {0} /\ ProjectsShown \in Nat \ {0} /\ MaxProjects \in Nat
  BY ServicesAssumption DEF Pages!GithubPagesAssumption

\* What is collected of one answer costs no further request.
LEMMA CollectedCounts ==
  ASSUME NEW r, NEW to, Counts(r)
  PROVE  Counts(Pages!Collected(r, to))
<1>. DEFINE c == Pages!Collected(r, to)
            sub == to
            got == [r.got EXCEPT ![Len(r.got)] = @ + Pages!Kept(r.sub, to)]
            dropped == r.dropped + (to - r.sub - Pages!Kept(r.sub, to))
<1>. SUFFICES Counts(c)
  OBVIOUS
<1>1. c = [r EXCEPT !.sub = sub, !.got = got, !.dropped = dropped]
  BY DEF Pages!Collected, Counts, IsRead
<1>. HIDE DEF sub, got, dropped, c
<1>2. /\ IsRead(c) /\ c.pages = r.pages /\ c.budget = r.budget /\ c.requests = r.requests
  BY <1>1 DEF Counts, IsRead
<1>. QED BY <1>2 DEF Counts

LEMMA TookCounts ==
  ASSUME NEW r, NEW complete, Counts(r), Pages!TookSubs(r, complete)
  PROVE  Counts(read') /\ pc' = "nodes"
<1>. DEFINE items == r.items - 1
            truncated == r.truncated \/ ~complete
<1>1. read' = [r EXCEPT !.items = items, !.truncated = truncated] /\ pc' = "nodes"
  BY DEF Pages!TookSubs, Counts, IsRead
<1>. HIDE DEF items, truncated
<1>2. /\ IsRead(read') /\ read'.pages = r.pages /\ read'.budget = r.budget /\ read'.requests = r.requests
  BY <1>1 DEF Counts, IsRead
<1>. QED BY <1>1, <1>2 DEF Counts

LEMMA RequestsInit == Pages!Init => RequestsInv
<1>. SUFFICES ASSUME Pages!Init PROVE RequestsInv
  OBVIOUS
<1>1. read = Pages!NothingRead
  BY DEF Pages!Init
<1>2. IsRead(read) /\ read.pages = 0 /\ read.budget = Budget /\ read.requests = 0
  BY <1>1 DEF Pages!NothingRead, IsRead
<1>. QED BY <1>2, PagesConstants DEF RequestsInv, Counts

LEMMA RequestsStep ==
  ASSUME RequestsInv, Pages!Next
  PROVE  RequestsInv'
<1>1. CASE UNCHANGED read /\ pc' # "page"
  <2>1. Counts(read')
    BY <1>1 DEF RequestsInv
  <2>. QED BY <1>1, <2>1 DEF RequestsInv, Counts, IsRead
<1>2. CASE Pages!ReadPage
  <2>. DEFINE pages == read.pages + 1
              requests == read.requests + 1
              items == Pages!InPage
  <2>1. read' = [read EXCEPT !.pages = pages, !.items = items, !.requests = requests]
    BY <1>2 DEF Pages!ReadPage, RequestsInv, Counts, IsRead
  <2>. HIDE DEF items, pages, requests
  <2>2. IsRead(read') /\ read'.pages = pages /\ read'.budget = read.budget /\ read'.requests = requests
    BY <2>1 DEF RequestsInv, Counts, IsRead
  <2>3. /\ read.pages < ItemPages /\ read.pages \in 0..ItemPages /\ read.budget \in 0..Budget
        /\ read.requests = read.pages + (Budget - read.budget) /\ pc' = "nodes"
    BY <1>2 DEF Pages!ReadPage, RequestsInv, Counts
  <2>4. /\ read'.pages \in 0..ItemPages /\ read'.budget \in 0..Budget
        /\ read'.requests = read'.pages + (Budget - read'.budget)
    BY <2>2, <2>3, PagesConstants DEF pages, requests
  <2>5. Counts(read')
    BY <2>2, <2>4 DEF Counts
  <2>. QED BY <2>3, <2>5 DEF RequestsInv, Counts, IsRead
<1>3. CASE Pages!Skip
  <2>. DEFINE items == read.items - 1
              dropped == read.dropped + (IF Pages!Node.kind = "null" THEN 0 ELSE 1)
  <2>1. read' = [read EXCEPT !.items = items, !.dropped = dropped] /\ pc' = pc /\ pc = "nodes"
    BY <1>3 DEF Pages!Skip, RequestsInv, Counts, IsRead
  <2>. HIDE DEF items, dropped
  <2>2. /\ IsRead(read') /\ read'.pages = read.pages /\ read'.budget = read.budget
        /\ read'.requests = read.requests
    BY <2>1 DEF RequestsInv, Counts, IsRead
  <2>3. Counts(read')
    BY <2>2 DEF RequestsInv, Counts
  <2>. QED BY <2>1, <2>3 DEF RequestsInv, Counts, IsRead
<1>4. CASE Pages!Take
  <2>. DEFINE got == Append(read.got, 0)
              fresh == [read EXCEPT !.sub = 0, !.turns = 0, !.got = got]
              to == Pages!Smaller(FirstSubs, Len(Pages!Node.subs))
              some == Pages!Collected(fresh, to)
              more == Len(Pages!Node.subs) > FirstSubs
  <2>1. \/ read' = some /\ pc' = "subs"
        \/ read' = [some EXCEPT !.items = some.items - 1, !.truncated = some.truncated \/ more] /\ pc' = "nodes"
    BY <1>4 DEF Pages!Take, RequestsInv, Counts, IsRead
  <2>. HIDE DEF got, to, more
  <2>9. fresh = [read EXCEPT !.sub = 0, !.turns = 0, !.got = got]
    OBVIOUS
  <2>. HIDE DEF fresh
  <2>2. /\ IsRead(fresh) /\ fresh.pages = read.pages /\ fresh.budget = read.budget
        /\ fresh.requests = read.requests
    BY <2>9 DEF RequestsInv, Counts, IsRead
  <2>3. Counts(fresh)
    BY <2>2 DEF RequestsInv, Counts
  <2>4. Counts(some)
    BY <2>3, CollectedCounts
  <2>. HIDE DEF some
  <2>. DEFINE items == some.items - 1
              truncated == some.truncated \/ more
              taken == [some EXCEPT !.items = items, !.truncated = truncated]
  <2>5. read' \in {some, taken} /\ pc' # "page"
    BY <2>1
  <2>. HIDE DEF items, truncated
  <2>10. taken = [some EXCEPT !.items = items, !.truncated = truncated]
    OBVIOUS
  <2>. HIDE DEF taken
  <2>6. /\ IsRead(taken) /\ taken.pages = some.pages /\ taken.budget = some.budget
        /\ taken.requests = some.requests
    BY <2>4, <2>10 DEF Counts, IsRead
  <2>7. Counts(taken)
    BY <2>4, <2>6 DEF Counts
  <2>8. Counts(read')
    BY <2>4, <2>5, <2>7
  <2>. QED BY <2>5, <2>8 DEF RequestsInv, Counts, IsRead
<1>5. CASE Pages!GiveUpSubs
  <2>1. Counts(read') /\ pc' = "nodes"
    BY <1>5, TookCounts DEF Pages!GiveUpSubs, RequestsInv
  <2>. QED BY <2>1 DEF RequestsInv, Counts, IsRead
<1>6. CASE Pages!ReadSubs
  <2>. DEFINE budget == read.budget - 1
              turns == read.turns + 1
              requests == read.requests + 1
              asked == [read EXCEPT !.budget = budget, !.turns = turns, !.requests = requests]
              r == Pages!Collected(asked, Pages!Smaller(read.sub + SubsPerPage, Len(Pages!Node.subs)))
              gone == asked.gone \cup {Len(read.got)}
              without == [asked EXCEPT !.gone = gone]
  <2>1. \/ Pages!TookSubs(without, TRUE)
        \/ Pages!TookSubs(r, TRUE)
        \/ read' = r /\ pc' = "subs"
        \/ Pages!TookSubs(r, FALSE)
    BY <1>6 DEF Pages!ReadSubs, RequestsInv, Counts, IsRead
  <2>2. read.budget # 0
    BY <1>6 DEF Pages!ReadSubs, Pages!SpentSubs
  <2>. HIDE DEF turns, gone, r, without
  <2>8. asked = [read EXCEPT !.budget = budget, !.turns = turns, !.requests = requests]
    OBVIOUS
  <2>. HIDE DEF asked, budget, requests
  <2>3. /\ IsRead(asked) /\ asked.pages = read.pages /\ asked.budget = budget
        /\ asked.requests = requests
    BY <2>8 DEF RequestsInv, Counts, IsRead
  <2>4. Counts(asked)
    <3>1. /\ read.pages \in 0..ItemPages /\ read.budget \in 0..Budget
          /\ read.requests = read.pages + (Budget - read.budget)
      BY DEF RequestsInv, Counts
    <3>2. budget \in 0..Budget /\ requests = read.pages + (Budget - budget)
      BY <2>2, <3>1, PagesConstants DEF budget, requests
    <3>. QED BY <2>3, <3>1, <3>2 DEF Counts
  <2>5. Counts(r)
    BY <2>4, CollectedCounts DEF r
  <2>6. Counts(without)
    <3>1. /\ IsRead(without) /\ without.pages = asked.pages /\ without.budget = asked.budget
          /\ without.requests = asked.requests
      BY <2>4 DEF without, Counts, IsRead
    <3>. QED BY <2>4, <3>1 DEF Counts
  <2>7. Counts(read') /\ pc' # "page"
    BY <2>1, <2>5, <2>6, TookCounts
  <2>. QED BY <2>7 DEF RequestsInv, Counts, IsRead
<1>7. CASE Pages!EndPage
  <2>1. CASE UNCHANGED read /\ pc' = "page" /\ read.pages # ItemPages
    <3>1. Counts(read') /\ read'.pages < ItemPages
      BY <2>1, PagesConstants DEF RequestsInv, Counts
    <3>. QED BY <3>1 DEF RequestsInv, Counts, IsRead
  <2>2. CASE \E truncated : Pages!Done(truncated)
    <3>1. PICK truncated : read' = [read EXCEPT !.truncated = truncated] /\ pc' = "done"
      BY <2>2 DEF Pages!Done
    <3>2. /\ IsRead(read') /\ read'.pages = read.pages /\ read'.budget = read.budget
          /\ read'.requests = read.requests
      BY <3>1 DEF RequestsInv, Counts, IsRead
    <3>3. Counts(read')
      BY <3>2 DEF RequestsInv, Counts
    <3>. QED BY <3>1, <3>3 DEF RequestsInv, Counts, IsRead
  <2>. QED BY <1>7, <2>1, <2>2 DEF Pages!EndPage
<1>8. CASE Pages!Fails \/ Pages!ListInstallations \/ Pages!ReadRepositories \/ Pages!InstallationGone
           \/ Pages!Uninstall \/ Pages!ListProjects
  <2>1. UNCHANGED read /\ pc' # "page"
    BY <1>8 DEF Pages!Fails, Pages!ListInstallations, Pages!ReadRepositories, Pages!InstallationGone,
                Pages!Uninstall, Pages!ListProjects
  <2>. QED BY <1>1, <2>1
<1>. QED BY <1>2, <1>3, <1>4, <1>5, <1>6, <1>7, <1>8 DEF Pages!Next

LEMMA RequestsAreFew == RequestsInv => Pages!RequestsAreBounded
<1>. SUFFICES ASSUME RequestsInv PROVE Pages!RequestsAreBounded
  OBVIOUS
<1>1. /\ read.pages \in 0..ItemPages /\ read.budget \in 0..Budget
      /\ read.requests = read.pages + (Budget - read.budget)
  BY DEF RequestsInv, Counts
<1>. QED BY <1>1, PagesConstants DEF Pages!RequestsAreBounded

\* The installations are those of different ids.
InstallsInv ==
  /\ installs \in Seq([id : Nat, repos : Nat])
  /\ \A i, j \in DOMAIN installs : installs[i].id = installs[j].id => i = j
IsListed(l) ==
  l = [cursor |-> l.cursor, pages |-> l.pages, twice |-> l.twice, truncated |-> l.truncated]

Pair(id, r) == <<id, r>>
Given(i) == \A r \in 1..installs[i].repos : Pair(installs[i].id, r) \in listed.pages
\* What is listed where the cursor is at page p of installation k.
ListedTo(k, p) ==
  /\ \A i \in DOMAIN installs : i < k => Given(i)
  /\ \A i \in DOMAIN installs : i > k => \A r : Pair(installs[i].id, r) \notin listed.pages
  /\ \A r : Pair(installs[k].id, r) \in listed.pages <=> r \in 1..((p - 1) * ReposPerPage)
  /\ (p - 1) * ReposPerPage <= installs[k].repos

RepositoriesInv ==
  /\ InstallsInv /\ IsListed(listed) /\ ~listed.twice
  /\ listed.cursor = <<>> =>
       pc # "repositories" /\ (op = "repositories" => listed.pages = {})
  /\ listed.cursor # <<>> /\ op = "repositories" =>
       /\ listed.cursor = <<listed.cursor[1], listed.cursor[2]>>
       /\ listed.cursor[2] \in Nat \ {0}
       /\ pc \in {"installations", "repositories"} =>
            \A k \in DOMAIN installs :
              installs[k].id = listed.cursor[1] => ListedTo(k, listed.cursor[2])
  /\ op = "repositories" /\ pc = "done" => \A i \in DOMAIN installs : Given(i)

LEMMA RepositoriesInit == Pages!Init => RepositoriesInv
<1>. SUFFICES ASSUME Pages!Init PROVE RepositoriesInv
  OBVIOUS
<1>1. MaxRepositories \in Nat
  BY ServicesAssumption DEF Pages!GithubPagesAssumption
<1>2. InstallsInv
  <2>1. CASE op = "repositories"
    <3>5. PICK n \in 0..MaxInstalls :
             installs \in {[i \in 1..n |-> [id |-> i, repos |-> g[i]]] : g \in [1..n -> 0..MaxRepositories]}
      BY <2>1 DEF Pages!Init
    <3>1. PICK g \in [1..n -> 0..MaxRepositories] :
             installs = [i \in 1..n |-> [id |-> i, repos |-> g[i]]]
      BY <3>5
    <3>2. \A i \in 1..n : [id |-> i, repos |-> g[i]] \in [id : Nat, repos : Nat]
      BY <1>1
    <3>3. installs \in [1..n -> [id : Nat, repos : Nat]] /\ n \in Nat
      BY <3>1, <3>2
    <3>4. ASSUME NEW S, NEW m \in Nat, NEW s \in [1..m -> S]
          PROVE  s \in Seq(S)
      OBVIOUS
    <3>6. installs \in Seq([id : Nat, repos : Nat])
      BY <3>3, <3>4
    <3>. QED BY <3>1, <3>6 DEF InstallsInv
  <2>2. CASE op # "repositories"
    <3>1. installs = <<>>
      BY <2>2 DEF Pages!Init
    <3>. QED BY <3>1 DEF InstallsInv
  <2>. QED BY <2>1, <2>2
<1>3. /\ listed = [cursor |-> <<>>, pages |-> {}, twice |-> FALSE, truncated |-> FALSE]
      /\ pc \notin {"repositories", "done"}
  BY DEF Pages!Init, Pages!NothingListed
<1>4. listed.cursor = <<>> /\ listed.pages = {} /\ ~listed.twice /\ IsListed(listed)
  BY <1>3 DEF IsListed
<1>. QED BY <1>2, <1>3, <1>4 DEF RepositoriesInv

\* What leaves the repositories alone.
LEMMA ListedStays ==
  ASSUME RepositoriesInv, UNCHANGED <<op, installs, listed>>,
         \/ pc' = pc
         \/ pc' \notin {"installations", "repositories", "done"}
         \/ op # "repositories" /\ pc' # "repositories"
  PROVE  RepositoriesInv'
<1>1. \A i, p : (Given(i) => Given(i)') /\ (ListedTo(i, p) => ListedTo(i, p)')
  BY DEF Given, ListedTo
<1>. QED BY <1>1 DEF RepositoriesInv, InstallsInv, IsListed

LEMMA ListInstallationsStep ==
  ASSUME RepositoriesInv, Pages!ListInstallations
  PROVE  RepositoriesInv'
<1>. USE DEF Pages!ListInstallations
<1>1. UNCHANGED <<op, installs>> /\ op = "repositories" /\ pc = "installations"
  BY DEF Pages!world
<1>2. CASE listed.cursor = <<>> /\ installs # <<>>
  <2>. DEFINE first == <<installs[1].id, 1>>
  <2>1. listed' = [listed EXCEPT !.cursor = first] /\ pc' = "repositories"
    BY <1>2
  <2>. HIDE DEF first
  <2>2. /\ IsListed(listed') /\ listed'.cursor = first /\ listed'.pages = {} /\ ~listed'.twice
    BY <1>1, <1>2, <2>1 DEF RepositoriesInv, IsListed
  <2>3. first # <<>> /\ first[1] = installs[1].id /\ first[2] = 1 /\ first = <<first[1], first[2]>>
    BY DEF first
  <2>4. 1 \in DOMAIN installs /\ DOMAIN installs = 1..Len(installs) /\ Len(installs) \in Nat
    BY <1>2, LenProperties, EmptySeq DEF RepositoriesInv, InstallsInv
  <2>5. ASSUME NEW k \in DOMAIN installs, installs[k].id = first[1]
        PROVE  ListedTo(k, 1)'
    <3>1. k = 1
      BY <2>3, <2>4, <2>5 DEF RepositoriesInv, InstallsInv
    <3>2. \A i \in DOMAIN installs : ~(i < k)
      BY <2>4, <3>1
    <3>3. 1..((1 - 1) * ReposPerPage) = {} /\ (1 - 1) * ReposPerPage = 0
      BY PagesConstants
    <3>4. installs[1] \in [id : Nat, repos : Nat]
      BY <2>4, ElementOfSeq DEF RepositoriesInv, InstallsInv
    <3>5. (1 - 1) * ReposPerPage <= installs[k].repos
      BY <3>1, <3>3, <3>4
    <3>. QED BY <1>1, <2>2, <3>2, <3>3, <3>5 DEF ListedTo
  <2>6. InstallsInv'
    BY <1>1 DEF RepositoriesInv, InstallsInv
  <2>. QED BY <1>1, <2>1, <2>2, <2>3, <2>5, <2>6 DEF RepositoriesInv
<1>3. CASE listed.cursor = <<>> /\ installs = <<>>
  <2>1. listed' = listed /\ pc' = "done"
    BY <1>3
  <2>2. DOMAIN installs = {}
    BY <1>3
  <2>. QED BY <1>1, <1>3, <2>1, <2>2 DEF RepositoriesInv, InstallsInv, IsListed
<1>4. CASE listed.cursor # <<>>
  <2>1. listed' = listed /\ pc' = "repositories"
    BY <1>4
  <2>2. \A i, p : ListedTo(i, p) => ListedTo(i, p)'
    BY <1>1, <2>1 DEF Given, ListedTo
  <2>. QED BY <1>1, <1>4, <2>1, <2>2 DEF RepositoriesInv, InstallsInv, IsListed
<1>. QED BY <1>2, <1>3, <1>4

\* What is left of a sequence keeps its order.
LEMMA Removed ==
  ASSUME NEW S, NEW s \in Seq(S), NEW i \in DOMAIN s
  PROVE  LET t == Pages!RemoveAt(s, i)
             from(j) == IF j < i THEN j ELSE j + 1
         IN /\ t \in Seq(S) /\ DOMAIN t = 1..(Len(s) - 1)
            /\ \A j \in DOMAIN t : from(j) \in DOMAIN s /\ t[j] = s[from(j)]
<1>. DEFINE a == SubSeq(s, 1, i - 1)
            b == SubSeq(s, i + 1, Len(s))
            t == Pages!RemoveAt(s, i)
<1>1. DOMAIN s = 1..Len(s) /\ Len(s) \in Nat /\ i \in 1..Len(s) /\ \A j \in 1..Len(s) : s[j] \in S
  BY LenProperties, ElementOfSeq
<1>2. /\ a \in Seq(S) /\ Len(a) = i - 1 /\ \A j \in 1..(i - 1) : a[j] = s[j]
  <2>1. 1 \in Int /\ i - 1 \in Int /\ \A j \in 1..(i - 1) : s[j] \in S
    BY <1>1
  <2>2. /\ a \in Seq(S) /\ Len(a) = IF 1 <= i - 1 THEN i - 1 - 1 + 1 ELSE 0
        /\ \A j \in 1..(i - 1 - 1 + 1) : a[j] = s[1 + j - 1]
    BY <2>1, SubSeqProperties
  <2>. HIDE DEF a
  <2>3. Len(a) = i - 1
    BY <1>1, <2>2
  <2>4. ASSUME NEW j \in 1..(i - 1)
        PROVE  a[j] = s[j]
    <3>1. j \in 1..(i - 1 - 1 + 1) /\ 1 + j - 1 = j
      BY <1>1
    <3>. QED BY <2>2, <3>1
  <2>. QED BY <2>2, <2>3, <2>4
<1>3. /\ b \in Seq(S) /\ Len(b) = Len(s) - i /\ \A j \in 1..(Len(s) - i) : b[j] = s[i + j]
  <2>1. i + 1 \in Int /\ Len(s) \in Int /\ \A j \in (i + 1)..Len(s) : s[j] \in S
    BY <1>1
  <2>2. /\ b \in Seq(S) /\ Len(b) = IF i + 1 <= Len(s) THEN Len(s) - (i + 1) + 1 ELSE 0
        /\ \A j \in 1..(Len(s) - (i + 1) + 1) : b[j] = s[i + 1 + j - 1]
    BY <2>1, SubSeqProperties
  <2>. HIDE DEF b
  <2>3. Len(b) = Len(s) - i
    BY <1>1, <2>2
  <2>4. ASSUME NEW j \in 1..(Len(s) - i)
        PROVE  b[j] = s[i + j]
    <3>1. j \in 1..(Len(s) - (i + 1) + 1) /\ i + 1 + j - 1 = i + j
      BY <1>1
    <3>. QED BY <2>2, <3>1
  <2>. QED BY <2>2, <2>3, <2>4
<1>. HIDE DEF a, b
<1>4. /\ a \o b \in Seq(S) /\ Len(a \o b) = Len(s) - 1
      /\ \A j \in 1..(Len(s) - 1) : (a \o b)[j] = IF j <= i - 1 THEN a[j] ELSE b[j - (i - 1)]
  <2>1. /\ a \o b \in Seq(S) /\ Len(a \o b) = Len(a) + Len(b)
        /\ \A j \in 1..(Len(a) + Len(b)) : (a \o b)[j] = IF j <= Len(a) THEN a[j] ELSE b[j - Len(a)]
    BY <1>2, <1>3, ConcatProperties
  <2>2. Len(a) + Len(b) = Len(s) - 1
    BY <1>1, <1>2, <1>3
  <2>. QED BY <1>2, <2>1, <2>2
<1>5. t = a \o b
  BY DEF Pages!RemoveAt, a, b
<1>. HIDE DEF t
<1>6. DOMAIN t = 1..(Len(s) - 1)
  BY <1>4, <1>5, LenProperties
<1>7. ASSUME NEW j \in 1..(Len(s) - 1)
      PROVE  /\ (IF j < i THEN j ELSE j + 1) \in 1..Len(s)
             /\ t[j] = s[IF j < i THEN j ELSE j + 1]
  <2>1. CASE j < i
    BY <1>1, <1>2, <1>4, <1>5, <2>1
  <2>2. CASE ~(j < i)
    <3>1. j - (i - 1) \in 1..(Len(s) - i) /\ i + (j - (i - 1)) = j + 1 /\ ~(j <= i - 1)
      BY <1>1, <2>2
    <3>2. t[j] = b[j - (i - 1)]
      BY <1>4, <1>5, <3>1
    <3>3. b[j - (i - 1)] = s[i + (j - (i - 1))]
      BY <1>3, <3>1
    <3>. QED BY <1>1, <2>2, <3>1, <3>2, <3>3
  <2>. QED BY <2>1, <2>2
<1>. QED BY <1>1, <1>4, <1>5, <1>6, <1>7 DEF t

LEMMA UninstallStep ==
  ASSUME RepositoriesInv, Pages!Uninstall
  PROVE  RepositoriesInv'
<1>. DEFINE from(i, j) == IF j < i THEN j ELSE j + 1
<1>1. /\ UNCHANGED <<op, listed, pc>> /\ pc = "installations"
      /\ installs \in Seq([id : Nat, repos : Nat])
  BY DEF Pages!Uninstall, RepositoriesInv, InstallsInv
<1>2. PICK i \in DOMAIN installs : installs' = Pages!RemoveAt(installs, i)
  BY DEF Pages!Uninstall
<1>3. /\ installs' \in Seq([id : Nat, repos : Nat]) /\ DOMAIN installs' = 1..(Len(installs) - 1)
      /\ \A j \in DOMAIN installs' :
           from(i, j) \in DOMAIN installs /\ installs'[j] = installs[from(i, j)]
  BY <1>1, <1>2, Removed
<1>4. Len(installs) \in Nat /\ DOMAIN installs = 1..Len(installs) /\ i \in Nat
  BY <1>1, LenProperties
<1>5. ASSUME NEW j \in DOMAIN installs', NEW k \in DOMAIN installs'
      PROVE  /\ j < k <=> from(i, j) < from(i, k)
             /\ j > k <=> from(i, j) > from(i, k)
             /\ from(i, j) = from(i, k) => j = k
  <2>1. j \in Int /\ k \in Int
    BY <1>3, <1>4
  <2>. QED BY <1>4, <2>1
<1>. HIDE DEF from
<1>9. \A j, k \in DOMAIN installs : installs[j].id = installs[k].id => j = k
  BY DEF RepositoriesInv, InstallsInv
<1>10. \A j, k \in DOMAIN installs' : installs'[j].id = installs'[k].id => j = k
  BY <1>3, <1>5, <1>9
<1>6. InstallsInv'
  BY <1>3, <1>10 DEF InstallsInv
<1>7. \A j \in DOMAIN installs' : Given(from(i, j)) => Given(j)'
  BY <1>1, <1>3 DEF Given
<1>8. ASSUME NEW k \in DOMAIN installs', NEW p, ListedTo(from(i, k), p)
      PROVE  ListedTo(k, p)'
  BY <1>1, <1>3, <1>5, <1>7, <1>8 DEF ListedTo
<1>. QED BY <1>1, <1>3, <1>6, <1>8 DEF RepositoriesInv, IsListed

LEMMA ReadRepositoriesStep ==
  ASSUME RepositoriesInv, Pages!ReadRepositories
  PROVE  RepositoriesInv'
<1>0. PICK id, p, k : id = listed.cursor[1] /\ p = listed.cursor[2] /\ k = Pages!Install
  OBVIOUS
<1>. DEFINE first == (p - 1) * ReposPerPage + 1
            last == Pages!Smaller(p * ReposPerPage, installs[k].repos)
            page == {Pair(id, r) : r \in first..last}
            next == Pages!NextCursor
            cursor == IF next = <<>> THEN listed.cursor ELSE next
            pages == listed.pages \cup page
            twice == listed.twice \/ page \cap listed.pages # {}
<1>1. /\ UNCHANGED <<op, installs>> /\ op = "repositories" /\ pc = "repositories"
      /\ listed.cursor # <<>> /\ listed.cursor = <<id, p>> /\ p \in Nat \ {0}
      /\ installs \in Seq([id : Nat, repos : Nat])
  BY <1>0 DEF Pages!ReadRepositories, Pages!world, RepositoriesInv, InstallsInv
<1>2. k \in DOMAIN installs /\ installs[k].id = id
  BY <1>0 DEF Pages!ReadRepositories, Pages!Install, Pages!Place
<1>3. /\ listed' = [listed EXCEPT !.pages = pages, !.twice = twice, !.cursor = cursor]
      /\ pc' = IF next = <<>> THEN "done" ELSE "installations"
  BY <1>0, <1>1 DEF Pages!ReadRepositories, Pages!PageNumber, RepositoriesInv, IsListed, Pair
<1>4. next = IF p * ReposPerPage < installs[k].repos THEN <<id, p + 1>>
             ELSE IF k < Len(installs) THEN <<installs[k + 1].id, 1>> ELSE <<>>
  BY <1>0 DEF Pages!NextCursor, Pages!PageNumber
<1>5. /\ DOMAIN installs = 1..Len(installs) /\ Len(installs) \in Nat /\ k \in 1..Len(installs)
      /\ \A i \in DOMAIN installs : installs[i].repos \in Nat
  <2>1. \A i \in 1..Len(installs) : installs[i] \in [id : Nat, repos : Nat]
    BY <1>1, ElementOfSeq
  <2>. QED BY <1>1, <1>2, <2>1, LenProperties
<1>6. ListedTo(k, p)
  BY <1>0, <1>1, <1>2 DEF RepositoriesInv
<1>. DEFINE whole == p * ReposPerPage
            done == (p - 1) * ReposPerPage
<1>7. whole \in Nat /\ done \in Nat /\ whole = done + ReposPerPage /\ ((p + 1) - 1) * ReposPerPage = whole
  <2>1. p \in Nat /\ p >= 1 /\ ReposPerPage \in Nat
    BY <1>1, PagesConstants
  <2>2. whole \in Nat
    BY <2>1
  <2>3. done = whole - ReposPerPage /\ ((p + 1) - 1) = p
    BY <2>1
  <2>4. (p - 1) \in Nat
    BY <2>1
  <2>5. done \in Nat
    BY <2>1, <2>4
  <2>. QED BY <2>1, <2>2, <2>3, <2>5
<1>8. last = IF whole < installs[k].repos THEN whole ELSE installs[k].repos
  BY DEF Pages!Smaller
<1>. HIDE DEF next, whole, done, last
<1>9. /\ \A i \in DOMAIN installs : i # k => installs[i].id # id
      /\ \A i \in DOMAIN installs : i # k => \A r : Pair(installs[i].id, r) \notin page
      /\ \A r : Pair(id, r) \in page <=> r \in (done + 1)..last
  BY <1>2 DEF RepositoriesInv, InstallsInv, Pair, first, done
<1>10. ~twice
  <2>1. \A r \in (done + 1)..last : Pair(id, r) \notin listed.pages
    BY <1>2, <1>5, <1>6, <1>7, <1>8 DEF ListedTo, done
  <2>2. page \cap listed.pages = {}
    BY <2>1 DEF first, done
  <2>. QED BY <2>2 DEF RepositoriesInv
<1>. HIDE DEF page, cursor, pages, twice
<1>11. /\ IsListed(listed') /\ listed'.cursor = cursor /\ listed'.pages = pages /\ listed'.twice = twice
  BY <1>3 DEF RepositoriesInv, IsListed
<1>12. InstallsInv'
  BY <1>1 DEF RepositoriesInv, InstallsInv
<1>13. \A i \in DOMAIN installs : i < k => Given(i)'
  BY <1>1, <1>6, <1>11 DEF ListedTo, Given, pages
<1>14. \A i \in DOMAIN installs : i > k => \A r : Pair(installs[i].id, r) \notin pages
  <2>3. \A i \in DOMAIN installs : i > k => i # k
    BY <1>5
  <2>1. \A i \in DOMAIN installs : i > k => \A r : Pair(installs[i].id, r) \notin listed.pages
    BY <1>6 DEF ListedTo
  <2>. QED BY <1>9, <2>1, <2>3 DEF pages
<1>15. \A r : Pair(id, r) \in pages <=> r \in 1..last
  <2>1. \A r : Pair(id, r) \in listed.pages <=> r \in 1..done
    BY <1>2, <1>6 DEF ListedTo, done
  <2>2. done <= last /\ last \in Nat
    BY <1>2, <1>5, <1>6, <1>7, <1>8, PagesConstants DEF ListedTo, done
  <2>. QED BY <1>7, <1>9, <2>1, <2>2 DEF pages
<1>16. CASE whole < installs[k].repos
  <2>1. next = <<id, p + 1>> /\ next # <<>> /\ last = whole
    BY <1>4, <1>8, <1>16 DEF whole
  <2>2. cursor = <<id, p + 1>> /\ cursor # <<>> /\ cursor[1] = id /\ cursor[2] = p + 1 /\ pc' = "installations"
    BY <1>3, <2>1 DEF cursor
  <2>3. ListedTo(k, p + 1)'
    <3>1. whole <= installs[k].repos
      BY <1>5, <1>7, <1>16
    <3>. QED BY <1>1, <1>2, <1>7, <1>11, <1>13, <1>14, <1>15, <2>1, <3>1 DEF ListedTo
  <2>4. ASSUME NEW i \in DOMAIN installs', installs'[i].id = listed'.cursor[1]
        PROVE  ListedTo(i, listed.cursor[2])'
    <3>1. i = k /\ listed'.cursor[2] = p + 1
      BY <1>1, <1>9, <1>11, <2>2, <2>4
    <3>. QED BY <2>3, <3>1 DEF ListedTo, Given
  <2>5. cursor = <<cursor[1], cursor[2]>> /\ cursor[2] \in Nat \ {0}
    BY <1>1, <2>2
  <2>. QED BY <1>1, <1>10, <1>11, <1>12, <2>2, <2>4, <2>5 DEF RepositoriesInv
<1>17. CASE ~(whole < installs[k].repos)
  <2>1. last = installs[k].repos
    BY <1>8, <1>17
  <2>2. Given(k)'
    BY <1>1, <1>2, <1>11, <1>15, <2>1 DEF Given
  <2>3. CASE k < Len(installs)
    <3>1. next = <<installs[k + 1].id, 1>> /\ next # <<>> /\ k + 1 \in DOMAIN installs
      BY <1>4, <1>5, <1>17, <2>3 DEF whole
    <3>2. /\ cursor = <<installs[k + 1].id, 1>> /\ cursor # <<>> /\ cursor[1] = installs[k + 1].id
          /\ cursor[2] = 1 /\ pc' = "installations"
      BY <1>3, <3>1 DEF cursor
    <3>3. ListedTo(k + 1, 1)'
      <4>1. \A i \in DOMAIN installs : i < k + 1 => Given(i)'
        BY <1>5, <1>13, <2>2
      <4>2. \A i \in DOMAIN installs : i > k + 1 => \A r : Pair(installs[i].id, r) \notin pages
        BY <1>5, <1>14
      <4>3. \A r : Pair(installs[k + 1].id, r) \notin pages
        BY <1>5, <1>14, <3>1
      <4>4. 1..((1 - 1) * ReposPerPage) = {} /\ (1 - 1) * ReposPerPage <= installs[k + 1].repos
        BY <1>5, <3>1, PagesConstants
      <4>. QED BY <1>1, <1>11, <4>1, <4>2, <4>3, <4>4 DEF ListedTo
    <3>4. ASSUME NEW i \in DOMAIN installs', installs'[i].id = listed'.cursor[1]
          PROVE  ListedTo(i, listed.cursor[2])'
      <4>1. i = k + 1 /\ listed'.cursor[2] = 1
        BY <1>1, <1>11, <3>1, <3>2, <3>4 DEF RepositoriesInv, InstallsInv
      <4>. QED BY <3>3, <4>1 DEF ListedTo, Given
    <3>5. cursor = <<cursor[1], cursor[2]>> /\ cursor[2] \in Nat \ {0}
      BY <3>2
    <3>. QED BY <1>1, <1>10, <1>11, <1>12, <3>2, <3>4, <3>5 DEF RepositoriesInv
  <2>4. CASE ~(k < Len(installs))
    <3>1. next = <<>> /\ cursor = listed.cursor /\ pc' = "done"
      BY <1>3, <1>4, <1>17, <2>4 DEF whole, cursor
    <3>2. \A i \in DOMAIN installs' : Given(i)'
      BY <1>1, <1>5, <1>13, <2>2, <2>4
    <3>. QED BY <1>1, <1>10, <1>11, <1>12, <3>1, <3>2 DEF RepositoriesInv
  <2>. QED BY <2>3, <2>4
<1>. QED BY <1>16, <1>17

\* Whoever the Projects belong to is known from the start; the list is read at once.
ProjectsInv ==
  /\ op = "projects" => owners \in Seq(0..MaxProjects)
  /\ Pages!ProjectsAreWhole

LEMMA ProjectsInit == Pages!Init => ProjectsInv
<1>. SUFFICES ASSUME Pages!Init PROVE ProjectsInv
  OBVIOUS
<1>1. op = "projects" => owners \in Seq(0..MaxProjects)
  <2>. SUFFICES ASSUME op = "projects" PROVE owners \in Seq(0..MaxProjects)
    OBVIOUS
  <2>1. PICK n \in 0..MaxOwners : owners \in [1..n -> 0..MaxProjects]
    BY DEF Pages!Init, Pages!SeqsUpTo
  <2>2. ASSUME NEW S, NEW m \in Nat, NEW s \in [1..m -> S]
        PROVE  s \in Seq(S)
    OBVIOUS
  <2>3. n \in Nat
    BY <2>1, ServicesAssumption DEF Pages!GithubPagesAssumption
  <2>. QED BY <2>1, <2>2, <2>3
<1>2. pc # "done"
  BY DEF Pages!Init
<1>. QED BY <1>1, <1>2 DEF ProjectsInv, Pages!ProjectsAreWhole

LEMMA ProjectsStep ==
  ASSUME ProjectsInv, Pages!Next, listed = [cursor |-> listed.cursor, pages |-> listed.pages,
                                            twice |-> listed.twice, truncated |-> listed.truncated]
  PROVE  ProjectsInv'
<1>1. UNCHANGED <<op, owners>>
  BY DEF Pages!Next, Pages!Fails, Pages!ReadPage, Pages!Skip, Pages!Take, Pages!GiveUpSubs,
         Pages!ReadSubs, Pages!EndPage, Pages!ListInstallations, Pages!ReadRepositories,
         Pages!InstallationGone, Pages!Uninstall, Pages!ListProjects, Pages!world
<1>2. op = "projects" => owners' \in Seq(0..MaxProjects)
  BY <1>1 DEF ProjectsInv
<1>3. CASE op # "projects"
  BY <1>1, <1>3 DEF ProjectsInv, Pages!ProjectsAreWhole
<1>4. CASE op = "projects" /\ pc' # "done"
  BY <1>1, <1>2, <1>4 DEF ProjectsInv, Pages!ProjectsAreWhole
<1>5. CASE op = "projects" /\ pc' = "done"
  <2>1. Pages!ListProjects
    BY <1>5 DEF Pages!Next, Pages!Fails, Pages!ReadPage, Pages!Skip, Pages!Take, Pages!GiveUpSubs,
         Pages!ReadSubs, Pages!EndPage, Pages!ListInstallations, Pages!ReadRepositories,
         Pages!InstallationGone, Pages!Uninstall
  <2>. DEFINE seen == Pages!Smaller(Len(owners), OwnersShown)
              pages == {x \in (1..seen) \X (1..ProjectsShown) : x[2] <= owners[x[1]]}
              cut == Pages!Cut(Len(owners), OwnersShown)
                       \/ \E o \in 1..seen : Pages!Cut(owners[o], ProjectsShown)
  <2>2. listed' = [listed EXCEPT !.pages = pages, !.truncated = cut]
    BY <2>1 DEF Pages!ListProjects
  <2>. HIDE DEF pages, cut
  <2>3. listed'.pages = pages /\ listed'.truncated = cut
    BY <2>2
  <2>4. ASSUME ~cut
        PROVE  pages = {x \in (DOMAIN owners) \X (1..MaxProjects) : x[2] <= owners[x[1]]}
    <3>1. /\ Len(owners) \in Nat /\ DOMAIN owners = 1..Len(owners)
          /\ \A o \in 1..Len(owners) : owners[o] \in 0..MaxProjects
      BY <1>5, LenProperties, ElementOfSeq DEF ProjectsInv
    <3>2. Len(owners) <= OwnersShown
      BY <2>4, <3>1, PagesConstants DEF cut, Pages!Cut
    <3>3. seen = Len(owners)
      BY <3>1, <3>2, PagesConstants DEF Pages!Smaller
    <3>4. \A o \in DOMAIN owners : owners[o] <= ProjectsShown
      BY <2>4, <3>1, <3>3, PagesConstants DEF cut, Pages!Cut
    <3>5. pages = {x \in (DOMAIN owners) \X (1..ProjectsShown) : x[2] <= owners[x[1]]}
      BY <3>1, <3>3 DEF pages
    <3>6. \A o \in DOMAIN owners : \A r :
            r \in 1..ProjectsShown /\ r <= owners[o] <=> r \in 1..MaxProjects /\ r <= owners[o]
      BY <3>1, <3>4, PagesConstants
    <3>7. ASSUME NEW x
          PROVE  x \in (DOMAIN owners) \X (1..ProjectsShown) /\ x[2] <= owners[x[1]]
                   <=> x \in (DOMAIN owners) \X (1..MaxProjects) /\ x[2] <= owners[x[1]]
      BY <3>6
    <3>. QED BY <3>5, <3>7
  <2>. QED BY <1>1, <1>2, <2>3, <2>4 DEF ProjectsInv, Pages!ProjectsAreWhole
<1>. QED BY <1>3, <1>4, <1>5

PagesInv == RequestsInv /\ RepositoriesInv /\ ProjectsInv

LEMMA PagesInit == Pages!Init => PagesInv
  BY RequestsInit, RepositoriesInit, ProjectsInit DEF PagesInv

LEMMA PagesStep ==
  ASSUME PagesInv, Pages!Next
  PROVE  PagesInv'
<1>1. RequestsInv' /\ ProjectsInv'
  BY RequestsStep, ProjectsStep DEF PagesInv, RepositoriesInv, IsListed
<1>2. CASE op # "repositories" /\ ~Pages!Fails
  <2>1. UNCHANGED <<op, installs>> /\ pc' # "repositories" /\ IsListed(listed')
        /\ listed'.twice = listed.twice /\ listed'.cursor = listed.cursor
    <3>1. CASE ~Pages!ListProjects
      BY <1>2, <3>1 DEF PagesInv, RepositoriesInv, IsListed, Pages!Next, Pages!ReadPage, Pages!Skip, Pages!Take, Pages!GiveUpSubs, Pages!TookSubs,
         Pages!ReadSubs, Pages!EndPage, Pages!Done, Pages!ListInstallations, Pages!ReadRepositories,
         Pages!InstallationGone, Pages!Uninstall, Pages!world
    <3>2. CASE Pages!ListProjects
      <4>1. PICK pages, cut : listed' = [listed EXCEPT !.pages = pages, !.truncated = cut]
        BY <3>2 DEF Pages!ListProjects
      <4>2. IsListed(listed') /\ listed'.twice = listed.twice /\ listed'.cursor = listed.cursor
        BY <4>1 DEF PagesInv, RepositoriesInv, IsListed
      <4>. QED BY <3>2, <4>2 DEF Pages!ListProjects, Pages!world
    <3>. QED BY <3>1, <3>2
  <2>2. RepositoriesInv'
    BY <1>2, <2>1 DEF PagesInv, RepositoriesInv, InstallsInv
  <2>. QED BY <1>1, <2>2 DEF PagesInv
<1>3. CASE Pages!Fails \/ Pages!InstallationGone
  <2>1. UNCHANGED <<op, installs, listed>> /\ pc' = "failed"
    BY <1>3 DEF Pages!Fails, Pages!InstallationGone, Pages!world
  <2>. QED BY <1>1, <2>1, ListedStays DEF PagesInv
<1>4. CASE op = "repositories" /\ ~Pages!Fails /\ ~Pages!InstallationGone
  <2>1. Pages!ListInstallations \/ Pages!ReadRepositories \/ Pages!Uninstall
    BY <1>4 DEF Pages!Next, Pages!ReadPage, Pages!Skip, Pages!Take, Pages!GiveUpSubs,
         Pages!ReadSubs, Pages!EndPage, Pages!ListProjects
  <2>2. RepositoriesInv'
    BY <2>1, ListInstallationsStep, ReadRepositoriesStep, UninstallStep DEF PagesInv
  <2>. QED BY <1>1, <2>2 DEF PagesInv
<1>. QED BY <1>2, <1>3, <1>4

LEMMA PagesAreWhole ==
  PagesInv => Pages!EveryRepositoryOnce /\ Pages!ProjectsAreWhole /\ Pages!RequestsAreBounded
<1>. SUFFICES ASSUME PagesInv
     PROVE  Pages!EveryRepositoryOnce /\ Pages!ProjectsAreWhole /\ Pages!RequestsAreBounded
  OBVIOUS
<1>1. Pages!EveryRepositoryOnce
  BY DEF PagesInv, RepositoriesInv, Given, Pair, Pages!EveryRepositoryOnce
<1>. QED BY <1>1, RequestsAreFew DEF PagesInv, ProjectsInv
-----------------------------------------------------------------------------
(***************************************************************************)
(* AssetReads.  What was opened has a size it was seen to have; what was   *)
(* read is no more than the file holds.                                    *)
(***************************************************************************)
IsRequest(c) ==
  c = [step |-> c.step, session |-> c.session, document |-> c.document,
       reference |-> c.reference, path |-> c.path, bytes |-> c.bytes, sizes |-> c.sizes]
Whole(c) == c.bytes \in c.sizes /\ c.bytes <= MaxAsset
AssetInv ==
  /\ size \in [AssetFiles -> Nat] /\ IsRequest(assetCall)
  /\ assetCall.step \in {"opened", "read"} =>
       assetCall.path \in AssetFiles /\ size[assetCall.path] \in assetCall.sizes
  /\ assetCall.step = "read" =>
       assetCall.bytes \in Nat /\ assetCall.bytes <= MaxAsset /\ assetCall.bytes <= size[assetCall.path]
  /\ assetCall.step = "done" => Whole(assetCall)
  /\ shown # Assets!NoAsset => Whole(shown)

LEMMA AssetConstants == MaxAsset \in Nat /\ MaxGrown \in Nat
  BY ServicesAssumption DEF Assets!AssetReadsAssumption

LEMMA AssetInit == Assets!Init => AssetInv
<1>. SUFFICES ASSUME Assets!Init PROVE AssetInv
  OBVIOUS
<1>1. IsRequest(Assets!NoCall) /\ Assets!NoCall.step = "idle"
  BY DEF IsRequest, Assets!NoCall
<1>2. size \in [AssetFiles -> Nat]
  BY DEF Assets!Init
<1>. QED BY <1>1, <1>2 DEF AssetInv, Assets!Init

\* A call that is asked for, failed or over has nothing to keep.
LEMMA AssetAsks ==
  ASSUME AssetInv, IsRequest(assetCall'), assetCall'.step \notin {"opened", "read", "done"},
         UNCHANGED <<size, shown>>
  PROVE  AssetInv'
  BY DEF AssetInv, Whole, IsRequest, Assets!NoAsset, Assets!NoCall

LEMMA AssetFails ==
  ASSUME AssetInv, Assets!Fail, UNCHANGED <<size, shown>>
  PROVE  AssetInv'
<1>1. assetCall' = [assetCall EXCEPT !.step = "failed"]
  BY DEF Assets!Fail
<1>2. IsRequest(assetCall') /\ assetCall'.step = "failed"
  BY <1>1 DEF AssetInv, IsRequest
<1>. QED BY <1>2, AssetAsks

LEMMA AssetStep ==
  ASSUME AssetInv, Assets!Next
  PROVE  AssetInv'
<1>1. ASSUME NEW d, NEW r, Assets!Ask(d, r)
      PROVE  AssetInv'
  <2>. DEFINE path == Assets!Resolved(d, r)
              asked == [Assets!NoCall EXCEPT !.session = assetSession, !.document = d,
                                             !.reference = r, !.path = path]
  <2>1. PICK step \in {"resolved", "failed"} : assetCall' = [asked EXCEPT !.step = step]
    BY <1>1 DEF Assets!Ask
  <2>2. IsRequest(assetCall') /\ assetCall'.step = step
    <3>. HIDE DEF path
    <3>1. asked \in [step : {"idle"}, session : {assetSession}, document : {d}, reference : {r},
                     path : {path}, bytes : {0}, sizes : {{}}]
      BY DEF Assets!NoCall
    <3>. HIDE DEF asked
    <3>2. IsRequest(asked)
      BY <3>1 DEF IsRequest
    <3>. QED BY <2>1, <3>2 DEF IsRequest
  <2>3. UNCHANGED <<size, shown>>
    BY <1>1 DEF Assets!Ask
  <2>. QED BY <2>2, <2>3, AssetAsks
<1>2. CASE Assets!Open
  <2>0. UNCHANGED <<size, shown>>
    BY <1>2 DEF Assets!Open
  <2>1. CASE Assets!Fail
    BY <2>0, <2>1, AssetFails
  <2>2. CASE ~Assets!Fail
    <3>1. PICK f \in AssetFiles :
            assetCall' = [assetCall EXCEPT !.step = "opened", !.path = f, !.sizes = {size[f]}]
      BY <1>2, <2>2 DEF Assets!Open, Assets!Readable
    <3>2. /\ IsRequest(assetCall') /\ assetCall'.step = "opened" /\ assetCall'.path = f
          /\ assetCall'.sizes = {size[f]}
      BY <3>1 DEF AssetInv, IsRequest
    <3>. QED BY <2>0, <3>2 DEF AssetInv, Whole, IsRequest, Assets!NoAsset, Assets!NoCall
  <2>. QED BY <2>1, <2>2
<1>3. CASE Assets!Read
  <2>. DEFINE bytes == IF size[assetCall.path] < MaxAsset THEN size[assetCall.path] ELSE MaxAsset
  <2>1. /\ assetCall.step = "opened" /\ UNCHANGED <<size, shown>>
        /\ assetCall' = [assetCall EXCEPT !.step = "read", !.bytes = bytes]
    BY <1>3 DEF Assets!Read
  <2>2. assetCall.path \in AssetFiles /\ size[assetCall.path] \in assetCall.sizes
        /\ size[assetCall.path] \in Nat
    BY <2>1 DEF AssetInv
  <2>3. bytes \in Nat /\ bytes <= MaxAsset /\ bytes <= size[assetCall.path]
    BY <2>2, AssetConstants
  <2>. HIDE DEF bytes
  <2>4. /\ IsRequest(assetCall') /\ assetCall'.step = "read" /\ assetCall'.path = assetCall.path
        /\ assetCall'.sizes = assetCall.sizes /\ assetCall'.bytes = bytes
    BY <2>1 DEF AssetInv, IsRequest
  <2>. QED BY <2>1, <2>2, <2>3, <2>4 DEF AssetInv, Whole, IsRequest, Assets!NoAsset, Assets!NoCall
<1>4. CASE Assets!Check
  <2>0. UNCHANGED <<size, shown>> /\ assetCall.step = "read"
    BY <1>4 DEF Assets!Check
  <2>1. CASE Assets!Fail
    BY <2>0, <2>1, AssetFails
  <2>2. CASE ~Assets!Fail
    <3>1. /\ assetCall' = [assetCall EXCEPT !.step = "done"]
          /\ size[assetCall.path] <= assetCall.bytes
      BY <1>4, <2>2 DEF Assets!Check, Assets!IsAll
    <3>2. /\ IsRequest(assetCall') /\ assetCall'.step = "done" /\ assetCall'.bytes = assetCall.bytes
          /\ assetCall'.sizes = assetCall.sizes
      BY <3>1 DEF AssetInv, IsRequest
    <3>3. /\ size[assetCall.path] \in assetCall.sizes /\ size[assetCall.path] \in Nat
          /\ assetCall.bytes \in Nat /\ assetCall.bytes <= MaxAsset
          /\ assetCall.bytes <= size[assetCall.path]
      BY <2>0 DEF AssetInv
    <3>4. assetCall.bytes = size[assetCall.path]
      BY <3>1, <3>3
    <3>5. Whole(assetCall')
      BY <3>2, <3>3, <3>4 DEF Whole
    <3>. QED BY <2>0, <3>2, <3>5 DEF AssetInv, Whole, IsRequest, Assets!NoAsset, Assets!NoCall
  <2>. QED BY <2>1, <2>2
<1>5. CASE Assets!Publish
  <2>1. /\ shown' \in {Assets!NoAsset, assetCall} /\ (shown' = assetCall => shown' = Assets!NoAsset \/ assetCall.step = "done")
        /\ assetCall' = Assets!NoCall /\ UNCHANGED size
    BY <1>5 DEF Assets!Publish
  <2>2. IsRequest(Assets!NoCall) /\ Assets!NoCall.step = "idle"
    BY DEF IsRequest, Assets!NoCall
  <2>3. shown' # Assets!NoAsset => Whole(shown')
    BY <2>1 DEF AssetInv
  <2>. QED BY <2>1, <2>2, <2>3 DEF AssetInv, Whole, IsRequest, Assets!NoAsset, Assets!NoCall
<1>6. ASSUME NEW f \in AssetFiles, NEW n \in 0..MaxGrown, Assets!Write(f, n)
      PROVE  AssetInv'
  <2>. DEFINE isOpen == assetCall.step \in {"opened", "read"} /\ assetCall.path = f
              sizes == assetCall.sizes \cup {n}
  <2>1. /\ isOpen => n > size[f]
        /\ assetCall' = IF isOpen THEN [assetCall EXCEPT !.sizes = sizes] ELSE assetCall
        /\ size' = [size EXCEPT ![f] = n] /\ shown' = shown
    BY <1>6 DEF Assets!Write, AssetInv, IsRequest
  <2>2. size \in [AssetFiles -> Nat] /\ n \in Nat
    BY AssetConstants DEF AssetInv
  <2>3. size' \in [AssetFiles -> Nat] /\ \A g \in AssetFiles : size'[g] = IF g = f THEN n ELSE size[g]
    BY <2>1, <2>2
  <2>4. CASE isOpen
    <3>. HIDE DEF sizes
    <3>1. /\ IsRequest(assetCall') /\ assetCall'.step = assetCall.step /\ assetCall'.path = assetCall.path
          /\ assetCall'.bytes = assetCall.bytes /\ assetCall'.sizes = sizes
      BY <2>1, <2>4 DEF AssetInv, IsRequest
    <3>2. size'[assetCall.path] \in sizes /\ size'[assetCall.path] = n
      BY <2>3, <2>4 DEF sizes
    <3>3. assetCall.step = "read" => assetCall.bytes \in Nat /\ assetCall.bytes <= MaxAsset /\ assetCall.bytes <= n
      BY <2>1, <2>2, <2>4, AssetConstants DEF AssetInv
    <3>. QED BY <2>1, <2>3, <2>4, <3>1, <3>2, <3>3 DEF AssetInv, Whole, IsRequest, Assets!NoAsset, Assets!NoCall
  <2>5. CASE ~isOpen
    <3>1. assetCall' = assetCall
      BY <2>1, <2>5
    <3>2. assetCall.step \in {"opened", "read"} => size'[assetCall.path] = size[assetCall.path]
      BY <2>3, <2>5 DEF AssetInv
    <3>. QED BY <2>1, <2>3, <3>1, <3>2 DEF AssetInv, Whole, IsRequest, Assets!NoAsset, Assets!NoCall
  <2>. QED BY <2>4, <2>5
<1>7. CASE (\E docs : Assets!Refresh(docs)) \/ Assets!Restart
  <2>1. UNCHANGED <<size, assetCall, shown>>
    BY <1>7 DEF Assets!Refresh, Assets!Restart
  <2>. QED BY <2>1 DEF AssetInv, Whole, IsRequest, Assets!NoAsset, Assets!NoCall
<1>. QED BY <1>1, <1>2, <1>3, <1>4, <1>5, <1>6, <1>7 DEF Assets!Next

LEMMA PicturesAreWhole == AssetInv => Assets!NothingIsCut
  BY DEF AssetInv, Whole, Assets!NothingIsCut

-----------------------------------------------------------------------------
(***************************************************************************)
(* DocumentSearch.  A row has an id and a path of its own, and no id is    *)
(* greater than the number of changes; an id that was deleted may come     *)
(* again, when its words are gone from the index.                          *)
(***************************************************************************)
SearchInv ==
  /\ searchChanges \in Nat /\ index = documents
  /\ \A r \in documents : r.id \in 1..searchChanges
  /\ \A r, s \in documents : r.id = s.id \/ r.path = s.path => r = s

\* A set of numbers that has a bound has a greatest one, the least of its bounds.
LEMMA BoundedHasGreatest ==
  ASSUME NEW S \in SUBSET Nat, NEW bound \in Nat, \A x \in S : x <= bound, 0 \in S
  PROVE  Search!Max(S) \in S /\ \A x \in S : x <= Search!Max(S)
<1>. DEFINE below == {ss \in Nat \X Nat : ss[1] < ss[2]}
            Bounds == {b \in Nat : \A x \in S : x <= b}
<1>1. IsWellFoundedOn(below, Nat)
  BY NatLessThanWellFounded DEF OpToRel
<1>2. Bounds \subseteq Nat /\ Bounds # {}
  OBVIOUS
<1>3. \E m \in Bounds : \A n \in Bounds : ~(<<n, m>> \in below)
  <2>. HIDE DEF below, Bounds
  <2>. QED BY <1>1, <1>2, WFMin
<1>4. PICK m \in Bounds : \A n \in Bounds : ~(n < m)
  BY <1>3
<1>5. m \in S
  <2>1. CASE m = 0
    BY <2>1
  <2>2. CASE m # 0 /\ m \notin S
    <3>1. m - 1 \in Nat /\ \A x \in S : x <= m - 1
      BY <2>2
    <3>. QED BY <3>1, <1>4
  <2>. QED BY <2>1, <2>2
<1>6. \E x \in S : \A y \in S : x >= y
  BY <1>5
<1>. QED BY <1>6 DEF Search!Max

LEMMA SearchInit == Search!Init => SearchInv
  BY DEF Search!Init, SearchInv

LEMMA SearchStep == SearchInv /\ Search!Next => SearchInv'
<1>. SUFFICES ASSUME SearchInv, Search!Next PROVE SearchInv'
  OBVIOUS
<1>1. ASSUME NEW path, NEW title, NEW body, Search!Put(path, title, body)
      PROVE  SearchInv'
  <2>. DEFINE id == IF Search!RowOf(path) = {} THEN Search!NewId
                    ELSE (CHOOSE r \in Search!RowOf(path) : TRUE).id
              row == Search!Row(id, path, title, body)
  <2>1. /\ searchChanges' = searchChanges + 1
        /\ documents' = (documents \ Search!RowOf(path)) \cup {row}
        /\ index' = {i \in index : i.id # row.id} \cup {row}
    BY <1>1 DEF Search!Put, Search!Change, Search!Indexed
  <2>2. row.id = id /\ row.path = path
    BY DEF Search!Row
  <2>3. CASE Search!RowOf(path) = {}
    <3>1. id = Search!NewId
      BY <2>3
    <3>. DEFINE ids == {0} \cup {r.id : r \in documents}
    <3>2. Search!NewId = Search!Max(ids) + 1
      BY DEF Search!NewId
    <3>3. ids \subseteq Nat /\ 0 \in ids /\ \A x \in ids : x <= searchChanges
      BY DEF SearchInv
    <3>. HIDE DEF ids, id
    <3>4. Search!Max(ids) \in ids /\ \A x \in ids : x <= Search!Max(ids)
      BY <3>3, BoundedHasGreatest DEF SearchInv
    <3>5. id \in 1..(searchChanges + 1) /\ \A x \in ids : x < id
      <4>. DEFINE top == Search!Max(ids)
      <4>1. top \in Nat /\ top <= searchChanges /\ \A x \in ids : x \in Nat /\ x <= top
        BY <3>3, <3>4
      <4>2. id = top + 1 /\ searchChanges \in Nat
        BY <3>1, <3>2 DEF SearchInv
      <4>. HIDE DEF top
      <4>. QED BY <4>1, <4>2
    <3>6. \A r \in documents : r.id < id /\ r.path # path
      BY <3>5, <2>3 DEF ids, Search!RowOf
    <3>. HIDE DEF row
    <3>7. documents' = documents \cup {row} /\ index' = documents \cup {row}
      BY <2>1, <2>2, <2>3, <3>6, <3>5 DEF SearchInv
    <3>. QED BY <2>1, <2>2, <3>5, <3>6, <3>7 DEF SearchInv
  <2>4. CASE Search!RowOf(path) # {}
    <3>1. PICK old : old \in Search!RowOf(path) /\ id = old.id
      BY <2>4
    <3>2. old \in documents /\ old.path = path /\ Search!RowOf(path) = {old}
      BY <3>1 DEF SearchInv, Search!RowOf
    <3>. HIDE DEF id, row
    <3>3. documents' = (documents \ {old}) \cup {row} /\ index' = (documents \ {old}) \cup {row}
      BY <2>1, <2>2, <3>1, <3>2 DEF SearchInv
    <3>4. row.id = old.id /\ row.path = old.path
      BY <2>2, <3>1, <3>2
    <3>. QED BY <2>1, <3>2, <3>3, <3>4 DEF SearchInv
  <2>. QED BY <2>3, <2>4
<1>2. ASSUME NEW paths, Search!Forget(paths)
      PROVE  SearchInv'
  <2>1. PICK gone : /\ gone \subseteq documents /\ documents' = documents \ gone
                    /\ index' = {i \in index : \A r \in gone : i.id # r.id}
                    /\ searchChanges' = searchChanges + 1
    BY <1>2 DEF Search!Forget, Search!Change, Search!Unindexed
  <2>2. index' = documents'
    BY <2>1 DEF SearchInv
  <2>. QED BY <2>1, <2>2 DEF SearchInv
<1>3. ASSUME NEW text, NEW limit, Search!Search(text, limit)
      PROVE  SearchInv'
  BY <1>3 DEF Search!Search, SearchInv
<1>. QED BY <1>1, <1>2, <1>3 DEF Search!Next

-----------------------------------------------------------------------------
(***************************************************************************)
(* WorkspaceInspection.  The shapes that the parts of workspace.yml have,  *)
(* for lists of any length; the two checks are compared part by part.      *)
(***************************************************************************)
WorkspaceShape(w) ==
  /\ w.kind \in {"absent", "scalar", "mapping"}
  /\ w.kind = "mapping" => w.id \in {"absent", "mistyped", "garbage", "v1", "v4"}

RootShape(r) == r.kind \in {"scalar", "mapping"}

RepositoryShape(r) ==
  /\ r.kind \in {"scalar", "mapping"}
  /\ r.kind = "mapping" => r.github.kind \in {"absent", "scalar", "mapping"}

ProjectShape(p) ==
  /\ p.kind \in {"null", "scalar", "mapping"}
  /\ p.kind = "null" => p = Inspection!Null
  /\ p.kind = "mapping" => p.number \in {"absent", "mistyped", "number"}

DocumentsShape(d) ==
  /\ d.kind \in {"absent", "scalar", "mapping"}
  /\ d.kind = "mapping" =>
       /\ d.roots.kind \in {"absent", "scalar", "list"}
       /\ d.roots.kind = "list" => \A i \in DOMAIN d.roots.items : RootShape(d.roots.items[i])

RepositoriesShape(list) ==
  /\ list.kind \in {"absent", "scalar", "list"}
  /\ list.kind = "list" => \A i \in DOMAIN list.items : RepositoryShape(list.items[i])

GithubShape(g) ==
  /\ g.kind \in {"absent", "null", "scalar", "mapping"}
  /\ g.kind = "mapping" =>
       /\ g.project.kind = "absent" \/ ProjectShape(g.project)
       /\ g.projects.kind \in {"absent", "null", "scalar", "list"}
       /\ g.projects.kind = "null" => g.projects = Inspection!Null
       /\ g.projects.kind = "list" =>
            \A i \in DOMAIN g.projects.items : ProjectShape(g.projects.items[i])

InspectionInv ==
  /\ DOMAIN document = {"version", "workspace", "documents", "repositories", "github"}
  /\ WorkspaceShape(document.workspace) /\ DocumentsShape(document.documents)
  /\ RepositoriesShape(document.repositories) /\ GithubShape(document.github)

-----------------------------------------------------------------------------
\* Two checks agree on a file when they agree on each of its parts.
LEMMA SameAgree ==
  ASSUME NEW said
  PROVE  Inspection!Agree(said, said)
  BY DEF Inspection!Agree

LEMMA PartsAgree ==
  ASSUME NEW raw, NEW valid, Inspection!Agree(raw, valid),
         NEW raws, NEW valids, Inspection!Agree(raws, valids)
  PROVE  Inspection!Agree(raw \cup raws, valid \cup valids)
  BY DEF Inspection!Agree

LEMMA MembersAgree ==
  ASSUME NEW members, NEW raw, NEW valid, NEW raws, NEW valids,
         \A problem : problem \in raws <=> \E i \in members : problem \in raw[i],
         \A problem : problem \in valids <=> \E i \in members : problem \in valid[i],
         \A i \in members : Inspection!Agree(raw[i], valid[i])
  PROVE  Inspection!Agree(raws, valids)
<1>1. ASSUME NEW problem \in raws
      PROVE  Inspection!LooseType(problem) \/ problem \in valids
  BY <1>1 DEF Inspection!Agree
<1>2. ASSUME NEW problem \in valids
      PROVE  problem \in raws \/ \E loose \in raws :
               Inspection!LooseType(loose) /\ Inspection!SamePlace(problem, loose)
  BY <1>2 DEF Inspection!Agree
<1>. QED BY <1>1, <1>2 DEF Inspection!Agree

LEMMA NothingThere ==
  ASSUME NEW place, NEW i
  PROVE  Inspection!AtEntry(place, i, {}) = {} /\ Inspection!Mistyped(place, i) # {}
         /\ \A problem : Inspection!If(FALSE, problem) = {}
  BY DEF Inspection!AtEntry, Inspection!Mistyped, Inspection!If

\* A scalar of a text field that is no string is all that the raw checks say of it.
LEMMA LooseAgrees ==
  ASSUME NEW place \in Inspection!TextFields, NEW i, NEW problems
  PROVE  /\ Inspection!Agree(Inspection!AtEntry(place, i, {"type"}), Inspection!AtEntry(place, i, problems))
         /\ Inspection!Agree(Inspection!AtEntry(place, i, {"type"}), {})
<1>. DEFINE loose == <<place, i, "type">>
<1>1. Inspection!LooseType(loose)
  BY DEF Inspection!LooseType
<1>2. \A problem \in Inspection!AtEntry(place, i, problems) : Inspection!SamePlace(problem, loose)
  BY DEF Inspection!AtEntry, Inspection!SamePlace
<1>3. Inspection!AtEntry(place, i, {"type"}) = {loose}
  BY DEF Inspection!AtEntry
<1>. HIDE DEF loose
<1>. QED BY <1>1, <1>2, <1>3 DEF Inspection!Agree

\* What a field needs is there, if it is a scalar of any type.
LEMMA RequiredText ==
  ASSUME NEW place, NEW i, NEW value, NEW strict \in BOOLEAN
  PROVE  /\ value \notin Inspection!Mute /\ value \notin Inspection!Plain =>
              Inspection!Required(place, i, value, strict) =
                Inspection!AtEntry(place, i, Inspection!If(strict /\ value = "blank", "missing"))
         /\ value \in Inspection!Plain =>
              Inspection!Required(place, i, value, strict) = Inspection!AtEntry(place, i, {"type"})
         /\ value \in Inspection!Mute => Inspection!Required(place, i, value, strict) # {}
<1>1. ASSUME value \notin Inspection!Mute, value \notin Inspection!Plain
      PROVE  Inspection!Required(place, i, value, strict) =
               Inspection!AtEntry(place, i, Inspection!If(strict /\ value = "blank", "missing"))
  <2>1. Inspection!If(value = "absent" \/ (strict /\ value = "blank"), "missing")
            \cup Inspection!If(value \in {"mistyped"} \cup Inspection!Plain, "type")
          = Inspection!If(strict /\ value = "blank", "missing")
    BY <1>1 DEF Inspection!If, Inspection!Mute
  <2>. QED BY <2>1 DEF Inspection!Required
<1>2. ASSUME value \in Inspection!Plain
      PROVE  Inspection!Required(place, i, value, strict) = Inspection!AtEntry(place, i, {"type"})
  <2>1. value # "absent" /\ value # "blank"
    BY <1>2 DEF Inspection!Plain
  <2>2. Inspection!If(value = "absent" \/ (strict /\ value = "blank"), "missing")
            \cup Inspection!If(value \in {"mistyped"} \cup Inspection!Plain, "type")
          = {"type"}
    BY <1>2, <2>1 DEF Inspection!If
  <2>. QED BY <2>2 DEF Inspection!Required
<1>3. ASSUME value = "absent"
      PROVE  <<place, i, "missing">> \in Inspection!Required(place, i, value, strict)
  BY <1>3 DEF Inspection!Required, Inspection!AtEntry, Inspection!If
<1>4. ASSUME value = "mistyped"
      PROVE  <<place, i, "type">> \in Inspection!Required(place, i, value, strict)
  BY <1>4 DEF Inspection!Required, Inspection!AtEntry, Inspection!If
<1>5. value \in Inspection!Mute => Inspection!Required(place, i, value, strict) # {}
  BY <1>3, <1>4 DEF Inspection!Mute
<1>. QED BY <1>1, <1>2, <1>5

\* A text that may be blank: nothing to say of it.
LEMMA LooseText ==
  ASSUME NEW place \in Inspection!TextFields, NEW i, NEW value
  PROVE  /\ value \notin Inspection!Mute =>
              Inspection!Agree(Inspection!Required(place, i, value, FALSE), {})
         /\ value \in Inspection!Mute => Inspection!Required(place, i, value, FALSE) # {}
<1>1. Inspection!AtEntry(place, i, Inspection!If(FALSE /\ value = "blank", "missing")) = {}
  BY DEF Inspection!If, Inspection!AtEntry
<1>2. ASSUME value \notin Inspection!Mute, value \notin Inspection!Plain
      PROVE  Inspection!Agree(Inspection!Required(place, i, value, FALSE), {})
  <2>1. Inspection!Required(place, i, value, FALSE) = {}
    BY <1>1, <1>2, RequiredText
  <2>. QED BY <2>1, SameAgree
<1>3. ASSUME value \in Inspection!Plain
      PROVE  Inspection!Agree(Inspection!Required(place, i, value, FALSE), {})
  <2>1. Inspection!Required(place, i, value, FALSE) = Inspection!AtEntry(place, i, {"type"})
    BY <1>3, RequiredText
  <2>. QED BY <2>1, LooseAgrees
<1>4. value \in Inspection!Mute => Inspection!Required(place, i, value, FALSE) # {}
  BY RequiredText
<1>. QED BY <1>2, <1>3, <1>4

\* One that may not be blank.
LEMMA StrictText ==
  ASSUME NEW place \in Inspection!TextFields, NEW i, NEW value
  PROVE  /\ value \notin Inspection!Mute =>
              Inspection!Agree(Inspection!Required(place, i, value, TRUE),
                Inspection!AtEntry(place, i, Inspection!If(value = "blank", "missing")))
         /\ value \in Inspection!Mute => Inspection!Required(place, i, value, TRUE) # {}
<1>1. (TRUE /\ value = "blank") = (value = "blank")
  OBVIOUS
<1>2. ASSUME value \notin Inspection!Mute, value \notin Inspection!Plain
      PROVE  Inspection!Agree(Inspection!Required(place, i, value, TRUE),
               Inspection!AtEntry(place, i, Inspection!If(value = "blank", "missing")))
  <2>1. Inspection!Required(place, i, value, TRUE) =
          Inspection!AtEntry(place, i, Inspection!If(TRUE /\ value = "blank", "missing"))
    BY <1>2, RequiredText
  <2>. QED BY <2>1, <1>1, SameAgree
<1>3. ASSUME value \in Inspection!Plain
      PROVE  Inspection!Agree(Inspection!Required(place, i, value, TRUE),
               Inspection!AtEntry(place, i, Inspection!If(value = "blank", "missing")))
  <2>1. Inspection!Required(place, i, value, TRUE) = Inspection!AtEntry(place, i, {"type"})
    BY <1>3, RequiredText
  <2>. QED BY <2>1, LooseAgrees
<1>4. value \in Inspection!Mute => Inspection!Required(place, i, value, TRUE) # {}
  BY RequiredText
<1>. QED BY <1>2, <1>3, <1>4

\* A Uuid or a number is no text: any other scalar is refused, and nothing is said of a right one.
LEMMA StrictScalar ==
  ASSUME NEW place, NEW i, NEW value
  PROVE  /\ value \notin Inspection!Mute /\ value \notin Inspection!Plain =>
              Inspection!Required(place, i, value, FALSE) = {}
         /\ value \in Inspection!Mute => Inspection!Required(place, i, value, FALSE) # {}
<1>1. Inspection!AtEntry(place, i, Inspection!If(FALSE /\ value = "blank", "missing")) = {}
  BY DEF Inspection!If, Inspection!AtEntry
<1>2. value \notin Inspection!Mute /\ value \notin Inspection!Plain =>
        Inspection!Required(place, i, value, FALSE) = {}
  BY <1>1, RequiredText
<1>3. value \in Inspection!Mute => Inspection!Required(place, i, value, FALSE) # {}
  BY RequiredText
<1>. QED BY <1>2, <1>3

LEMMA TextFieldsAre ==
  /\ "name" \in Inspection!TextFields /\ "path" \in Inspection!TextFields
  /\ "key" \in Inspection!TextFields /\ "label" \in Inspection!TextFields
  /\ "github id" \in Inspection!TextFields /\ "full name" \in Inspection!TextFields
  /\ "project id" \in Inspection!TextFields /\ "owner" \in Inspection!TextFields
  /\ "active project" \in Inspection!TextFields
  BY DEF Inspection!TextFields

-----------------------------------------------------------------------------
LEMMA WorkspacesAgree ==
  ASSUME NEW w, WorkspaceShape(w), w.kind = "mapping", w.id \in {"v1", "v4"},
         w.name \notin Inspection!Mute
  PROVE  Inspection!Agree(Inspection!RawWorkspace(w),
           Inspection!At("id", Inspection!If(w.id # "v4", "not v4"))
             \cup Inspection!At("name", Inspection!If(w.name = "blank", "empty")))
<1>. DEFINE name == Inspection!Required("name", 0, w.name, FALSE)
            said == Inspection!At("id", Inspection!If(w.id # "v4", "not v4"))
                      \cup Inspection!At("name", Inspection!If(w.name = "blank", "empty"))
<1>1. w.id \notin Inspection!Mute /\ w.id \notin Inspection!Plain
  BY DEF Inspection!Mute, Inspection!Plain
<1>2. Inspection!Required("id", 0, w.id, FALSE) = {}
  BY <1>1, StrictScalar
<1>3. Inspection!Agree(name, {})
  BY LooseText, TextFieldsAre
<1>4. Inspection!If(w.id \in {"garbage", "v1"}, "not v4") = Inspection!If(w.id # "v4", "not v4")
  BY DEF Inspection!If
<1>5. Inspection!RawWorkspace(w) = name \cup said
  BY <1>2, <1>4 DEF Inspection!RawWorkspace
<1>. HIDE DEF name, said
<1>6. Inspection!Agree(name \cup said, {} \cup said)
  BY <1>3, SameAgree, PartsAgree
<1>7. Inspection!Agree(Inspection!RawWorkspace(w), said)
  BY <1>5, <1>6
<1>. QED BY <1>7 DEF said

LEMMA RootsAgree ==
  ASSUME NEW d, DocumentsShape(d), d.kind = "mapping", Inspection!RootsParse(d.roots)
  PROVE  Inspection!Agree(Inspection!RawDocuments(d),
           Inspection!At("roots", Inspection!If(d.roots.items = <<>>, "missing"))
             \cup UNION {Inspection!AtEntry("path", i, Inspection!PathProblem(d.roots.items[i].path)) :
                           i \in DOMAIN d.roots.items})
<1>. DEFINE members == DOMAIN d.roots.items
            raw == [i \in members |-> Inspection!RawRoot(i, d.roots.items[i])]
            valid == [i \in members |->
                        Inspection!AtEntry("path", i, Inspection!PathProblem(d.roots.items[i].path))]
            none == Inspection!At("roots", Inspection!If(d.roots.items = <<>>, "missing"))
<1>1. ASSUME NEW i \in members
      PROVE  Inspection!Agree(raw[i], valid[i])
  <2>. DEFINE r == d.roots.items[i]
              said == Inspection!AtEntry("path", i, Inspection!PathProblem(r.path))
  <2>1. Inspection!RootParses(r)
    BY DEF Inspection!RootsParse, Inspection!Range
  <2>. HIDE DEF r
  <2>2. Inspection!Agree(Inspection!Required("path", i, r.path, FALSE), {})
    BY <2>1, LooseText, TextFieldsAre DEF Inspection!RootParses
  <2>. HIDE DEF said
  <2>3. Inspection!Agree(Inspection!Required("path", i, r.path, FALSE) \cup said, {} \cup said)
    BY <2>2, SameAgree, PartsAgree
  <2>4. Inspection!RawRoot(i, r) = Inspection!Required("path", i, r.path, FALSE) \cup said
    BY <2>1 DEF Inspection!RawRoot, Inspection!RootParses, said
  <2>5. Inspection!Agree(Inspection!RawRoot(i, r), said)
    BY <2>3, <2>4
  <2>. QED BY <2>5 DEF r, said
<1>2. Inspection!RawDocuments(d) = none \cup UNION {raw[i] : i \in members}
  BY DEF Inspection!RawDocuments, Inspection!RootsParse
<1>3. UNION {Inspection!AtEntry("path", i, Inspection!PathProblem(d.roots.items[i].path)) :
               i \in DOMAIN d.roots.items} = UNION {valid[i] : i \in members}
  OBVIOUS
<1>. HIDE DEF members, raw, valid, none
<1>6. \A i \in members : Inspection!Agree(raw[i], valid[i])
  BY <1>1
<1>4. Inspection!Agree(UNION {raw[i] : i \in members}, UNION {valid[i] : i \in members})
  <2>. DEFINE raws == UNION {raw[i] : i \in members}
              valids == UNION {valid[i] : i \in members}
  <2>1. \A problem : problem \in raws <=> \E i \in members : problem \in raw[i]
    OBVIOUS
  <2>2. \A problem : problem \in valids <=> \E i \in members : problem \in valid[i]
    OBVIOUS
  <2>. HIDE DEF raws, valids
  <2>3. Inspection!Agree(raws, valids)
    BY <1>6, <2>1, <2>2, MembersAgree
  <2>. QED BY <2>3 DEF raws, valids
<1>5. Inspection!Agree(none \cup UNION {raw[i] : i \in members},
                       none \cup UNION {valid[i] : i \in members})
  BY <1>4, SameAgree, PartsAgree
<1>. QED BY <1>2, <1>3, <1>5 DEF none

LEMMA RepositoryAgrees ==
  ASSUME NEW items, NEW i \in DOMAIN items, Inspection!RepositoryParses(items[i])
  PROVE  Inspection!Agree(Inspection!RawRepository(items, i), Inspection!RepositoryProblems(items, i))
<1>. DEFINE r == items[i]
            again == Inspection!Repeated(Inspection!KeysOf(items), i)
            twice == Inspection!Repeated(Inspection!LabelsOf(items), i)
            key == Inspection!AtEntry("key", i,
                     Inspection!KeyProblem(r.key) \cup Inspection!If(again, "duplicate"))
            label == Inspection!AtEntry("label", i, Inspection!If(twice, "duplicate"))
            id == Inspection!AtEntry("github id", i, Inspection!If(r.github.id = "blank", "missing"))
            rawKey == Inspection!Required("key", i, r.key, FALSE)
                        \cup (IF ~Inspection!IsText(r.key) THEN {} ELSE key)
            rawLabel == Inspection!Required("label", i, r.label, FALSE)
                          \cup Inspection!AtEntry("label", i,
                                 Inspection!If(Inspection!IsText(r.label) /\ twice, "duplicate"))
<1>1. /\ r.kind = "mapping" /\ r.key \notin Inspection!Mute /\ r.label \notin Inspection!Mute
      /\ r.github.kind = "mapping" /\ r.github.id \notin Inspection!Mute
      /\ r.github.full_name \notin Inspection!Mute
  BY DEF Inspection!RepositoryParses
<1>2. Inspection!RepositoryProblems(items, i) = (key \cup label) \cup id
  BY DEF Inspection!RepositoryProblems
<1>3. Inspection!RawRepository(items, i) = (rawKey \cup rawLabel) \cup Inspection!RawGithub(i, r.github)
  <2>1. Inspection!RawRepository(items, i) =
          ((((Inspection!Required("key", i, r.key, FALSE) \cup Inspection!Required("label", i, r.label, FALSE))
            \cup (IF ~Inspection!IsText(r.key) THEN {} ELSE key))
            \cup Inspection!AtEntry("label", i,
                   Inspection!If(Inspection!IsText(r.label) /\ twice, "duplicate")))
            \cup Inspection!RawGithub(i, r.github))
    BY <1>1 DEF Inspection!RawRepository
  <2>. HIDE DEF r, key, twice
  <2>. QED BY <2>1
<1>. HIDE DEF r, again, twice
<1>4. Inspection!Agree(rawKey, key)
  <2>1. CASE r.key \in Inspection!Plain
    <3>1. ~Inspection!IsText(r.key)
      BY <2>1 DEF Inspection!IsText
    <3>2. Inspection!Required("key", i, r.key, FALSE) = Inspection!AtEntry("key", i, {"type"})
      BY <2>1, RequiredText
    <3>3. rawKey = Inspection!AtEntry("key", i, {"type"})
      BY <3>1, <3>2
    <3>. QED BY <3>3, LooseAgrees, TextFieldsAre
  <2>2. CASE r.key \notin Inspection!Plain
    <3>1. Inspection!IsText(r.key)
      BY <1>1, <2>2 DEF Inspection!IsText
    <3>2. Inspection!Required("key", i, r.key, FALSE) = {}
      BY <1>1, <2>2, StrictScalar
    <3>3. rawKey = key
      BY <3>1, <3>2
    <3>. QED BY <3>3, SameAgree
  <2>. QED BY <2>1, <2>2
<1>5. Inspection!Agree(rawLabel, label)
  <2>1. CASE r.label \in Inspection!Plain
    <3>1. (Inspection!IsText(r.label) /\ twice) = FALSE
      BY <2>1 DEF Inspection!IsText
    <3>2. Inspection!AtEntry("label", i,
            Inspection!If(Inspection!IsText(r.label) /\ twice, "duplicate")) = {}
      BY <3>1, NothingThere
    <3>3. Inspection!Required("label", i, r.label, FALSE) = Inspection!AtEntry("label", i, {"type"})
      BY <2>1, RequiredText
    <3>4. rawLabel = Inspection!AtEntry("label", i, {"type"})
      BY <3>2, <3>3
    <3>. QED BY <3>4, LooseAgrees, TextFieldsAre
  <2>2. CASE r.label \notin Inspection!Plain
    <3>1. (Inspection!IsText(r.label) /\ twice) = twice
      BY <1>1, <2>2 DEF Inspection!IsText, Inspection!Repeated, twice
    <3>2. Inspection!Required("label", i, r.label, FALSE) = {}
      BY <1>1, <2>2, StrictScalar
    <3>3. rawLabel = label
      BY <3>1, <3>2
    <3>. QED BY <3>3, SameAgree
  <2>. QED BY <2>1, <2>2
<1>6. Inspection!Agree(Inspection!RawGithub(i, r.github), id)
  <2>1. Inspection!Agree(Inspection!Required("github id", i, r.github.id, TRUE), id)
    BY <1>1, StrictText, TextFieldsAre
  <2>2. Inspection!Agree(Inspection!Required("full name", i, r.github.full_name, FALSE), {})
    BY <1>1, LooseText, TextFieldsAre
  <2>3. Inspection!RawGithub(i, r.github) =
          Inspection!Required("github id", i, r.github.id, TRUE)
            \cup Inspection!Required("full name", i, r.github.full_name, FALSE)
    BY <1>1 DEF Inspection!RawGithub
  <2>. DEFINE gid == Inspection!Required("github id", i, r.github.id, TRUE)
              name == Inspection!Required("full name", i, r.github.full_name, FALSE)
  <2>. HIDE DEF id, gid, name
  <2>4. Inspection!Agree(gid \cup name, id \cup {})
    BY <2>1, <2>2, PartsAgree DEF gid, name
  <2>5. id \cup {} = id
    OBVIOUS
  <2>. QED BY <2>3, <2>4, <2>5 DEF gid, name
<1>. HIDE DEF key, label, id, rawKey, rawLabel
<1>7. Inspection!Agree(rawKey \cup rawLabel, key \cup label)
  BY <1>4, <1>5, PartsAgree
<1>8. Inspection!Agree((rawKey \cup rawLabel) \cup Inspection!RawGithub(i, r.github),
                       (key \cup label) \cup id)
  BY <1>6, <1>7, PartsAgree
<1>. QED BY <1>2, <1>3, <1>8

LEMMA RepositoriesAgree ==
  ASSUME NEW list, Inspection!RepositoriesParse(list)
  PROVE  Inspection!Agree(Inspection!RawRepositories(list),
           UNION {Inspection!RepositoryProblems(Inspection!Items(list), i) :
                    i \in DOMAIN Inspection!Items(list)})
<1>1. CASE list.kind = "absent"
  <2>1. Inspection!RawRepositories(list) = {} /\ Inspection!Items(list) = <<>>
    BY <1>1 DEF Inspection!RawRepositories, Inspection!Items
  <2>2. UNION {Inspection!RepositoryProblems(Inspection!Items(list), i) :
                 i \in DOMAIN Inspection!Items(list)} = {}
    BY <2>1
  <2>. QED BY <2>1, <2>2, SameAgree
<1>2. CASE list.kind = "list"
  <2>. DEFINE members == DOMAIN list.items
              raw == [i \in members |-> Inspection!RawRepository(list.items, i)]
              valid == [i \in members |-> Inspection!RepositoryProblems(list.items, i)]
  <2>1. Inspection!Items(list) = list.items
    BY <1>2 DEF Inspection!Items
  <2>2. \A i \in members : Inspection!Agree(raw[i], valid[i])
    <3>. SUFFICES ASSUME NEW i \in members PROVE Inspection!Agree(raw[i], valid[i])
      OBVIOUS
    <3>1. Inspection!RepositoryParses(list.items[i])
      BY <1>2 DEF Inspection!RepositoriesParse, Inspection!Range
    <3>2. Inspection!Agree(Inspection!RawRepository(list.items, i),
                           Inspection!RepositoryProblems(list.items, i))
      BY <3>1, RepositoryAgrees
    <3>. QED BY <3>2
  <2>3. Inspection!RawRepositories(list) = UNION {raw[i] : i \in members}
    BY <1>2 DEF Inspection!RawRepositories
  <2>4. UNION {Inspection!RepositoryProblems(Inspection!Items(list), i) :
                 i \in DOMAIN Inspection!Items(list)} = UNION {valid[i] : i \in members}
    BY <2>1
  <2>. HIDE DEF members, raw, valid
  <2>5. Inspection!Agree(UNION {raw[i] : i \in members}, UNION {valid[i] : i \in members})
    <3>. DEFINE raws == UNION {raw[i] : i \in members}
                valids == UNION {valid[i] : i \in members}
    <3>1. \A problem : problem \in raws <=> \E i \in members : problem \in raw[i]
      OBVIOUS
    <3>2. \A problem : problem \in valids <=> \E i \in members : problem \in valid[i]
      OBVIOUS
    <3>. HIDE DEF raws, valids
    <3>3. Inspection!Agree(raws, valids)
      BY <2>2, <3>1, <3>2, MembersAgree
    <3>. QED BY <3>3 DEF raws, valids
  <2>. QED BY <2>3, <2>4, <2>5
<1>. QED BY <1>1, <1>2 DEF Inspection!RepositoriesParse

LEMMA ProjectAgrees ==
  ASSUME NEW p, Inspection!ProjectParses(p)
  PROVE  Inspection!Agree(Inspection!RawProject(p),
           Inspection!At("project id", Inspection!If(p.id = "blank", "missing")))
<1>. DEFINE said == Inspection!At("project id", Inspection!If(p.id = "blank", "missing"))
            id == Inspection!Required("project id", 0, p.id, TRUE)
            owner == Inspection!Required("owner", 0, p.owner, FALSE)
<1>1. /\ p.kind = "mapping" /\ p.id \notin Inspection!Mute
      /\ p.owner \notin Inspection!Mute /\ p.number = "number"
  BY DEF Inspection!ProjectParses
<1>2. Inspection!Agree(id, said)
  BY <1>1, StrictText, TextFieldsAre DEF Inspection!At
<1>3. Inspection!Agree(owner, {})
  BY <1>1, LooseText, TextFieldsAre
<1>4. Inspection!Required("number", 0, p.number, FALSE) = {}
  <2>1. p.number \notin Inspection!Mute /\ p.number \notin Inspection!Plain
    BY <1>1 DEF Inspection!Mute, Inspection!Plain
  <2>. QED BY <2>1, StrictScalar
<1>5. Inspection!RawProject(p) = id \cup owner
  BY <1>1, <1>4 DEF Inspection!RawProject
<1>. HIDE DEF id, owner, said
<1>6. Inspection!Agree(id \cup owner, said \cup {})
  BY <1>2, <1>3, PartsAgree
<1>7. Inspection!Agree(Inspection!RawProject(p), said)
  BY <1>5, <1>6
<1>. QED BY <1>7 DEF said

\* The raw checks go over the single project and over the list, those of the configuration over
\* both together.
LEMMA ProjectsAgree ==
  ASSUME NEW g, g.kind = "mapping", g.active # "mistyped",
         g.project.kind \in {"absent", "null"} \/ Inspection!ProjectParses(g.project),
         Inspection!ProjectsParse(g.projects)
  PROVE  Inspection!Agree(Inspection!RawGithubProjects(g), Inspection!ProjectProblems(g))
<1>. DEFINE Said(p) == Inspection!At("project id", Inspection!If(p.id = "blank", "missing"))
            items == Inspection!Items(g.projects)
            members == DOMAIN items
            entries == {items[i] : i \in members}
            inList == UNION {Said(p) : p \in entries}
            active == Inspection!At("active project",
                        Inspection!If(g.active \in {"mistyped"} \cup Inspection!Plain, "type"))
<1>0. Inspection!ProjectProblems(g) = UNION {Said(p) : p \in Inspection!AllProjects(g)}
  <2>. DEFINE all == Inspection!AllProjects(g)
              missing == <<"project id", 0, "missing">>
  <2>1. \A p : Said(p) = IF p.id = "blank" THEN {missing} ELSE {}
    BY DEF Inspection!At, Inspection!AtEntry, Inspection!If
  <2>2. Inspection!ProjectProblems(g) = IF \E p \in all : p.id = "blank" THEN {missing} ELSE {}
    BY DEF Inspection!ProjectProblems, Inspection!At, Inspection!AtEntry, Inspection!If
  <2>. HIDE DEF Said, all, missing
  <2>3. CASE \E p \in all : p.id = "blank"
    <3>1. UNION {Said(p) : p \in all} = {missing}
      BY <2>1, <2>3
    <3>. QED BY <2>2, <2>3, <3>1 DEF all
  <2>4. CASE ~ \E p \in all : p.id = "blank"
    <3>1. UNION {Said(p) : p \in all} = {}
      BY <2>1, <2>4
    <3>. QED BY <2>2, <2>4, <3>1 DEF all
  <2>. QED BY <2>3, <2>4
<1>1. \A p \in entries : Inspection!ProjectParses(p)
  BY DEF Inspection!ProjectsParse, Inspection!Items, Inspection!Range
<1>2. Inspection!Agree(Inspection!RawProjects(g.projects), inList)
  <2>1. CASE g.projects.kind = "absent"
    <3>1. Inspection!RawProjects(g.projects) = {}
      BY <2>1 DEF Inspection!RawProjects
    <3>2. items = <<>>
      BY <2>1 DEF Inspection!Items
    <3>3. inList = {}
      BY <3>2
    <3>. QED BY <3>1, <3>3, SameAgree
  <2>2. CASE g.projects.kind = "list"
    <3>. DEFINE raw == [i \in members |-> Inspection!RawProject(items[i])]
                valid == [i \in members |-> Said(items[i])]
    <3>1. items = g.projects.items
      BY <2>2 DEF Inspection!Items
    <3>2. \A i \in members : Inspection!Agree(raw[i], valid[i])
      <4>. SUFFICES ASSUME NEW i \in members PROVE Inspection!Agree(raw[i], valid[i])
        OBVIOUS
      <4>1. Inspection!Agree(Inspection!RawProject(items[i]), Said(items[i]))
        BY <1>1, ProjectAgrees
      <4>. QED BY <4>1
    <3>3. Inspection!RawProjects(g.projects) = UNION {raw[i] : i \in members}
      BY <2>2, <3>1 DEF Inspection!RawProjects
    <3>4. inList = UNION {valid[i] : i \in members}
      <4>. HIDE DEF Said, items
      <4>. QED OBVIOUS
    <3>. HIDE DEF members, raw, valid, inList
    <3>5. Inspection!Agree(UNION {raw[i] : i \in members}, UNION {valid[i] : i \in members})
      <4>. DEFINE raws == UNION {raw[i] : i \in members}
                  valids == UNION {valid[i] : i \in members}
      <4>1. \A problem : problem \in raws <=> \E i \in members : problem \in raw[i]
        OBVIOUS
      <4>2. \A problem : problem \in valids <=> \E i \in members : problem \in valid[i]
        OBVIOUS
      <4>. HIDE DEF raws, valids
      <4>3. Inspection!Agree(raws, valids)
        BY <3>2, <4>1, <4>2, MembersAgree
      <4>. QED BY <4>3 DEF raws, valids
    <3>. QED BY <3>3, <3>4, <3>5
  <2>. QED BY <2>1, <2>2 DEF Inspection!ProjectsParse
<1>3. Inspection!Agree(active, {})
  <2>1. CASE g.active \in Inspection!Plain
    <3>1. active = Inspection!AtEntry("active project", 0, {"type"})
      BY <2>1 DEF Inspection!At, Inspection!If
    <3>. QED BY <3>1, LooseAgrees, TextFieldsAre
  <2>2. CASE g.active \notin Inspection!Plain
    <3>1. active = {}
      BY <2>2 DEF Inspection!At, Inspection!If, Inspection!AtEntry
    <3>. QED BY <3>1, SameAgree
  <2>. QED BY <2>1, <2>2
<1>4. Inspection!RawGithubProjects(g) =
        (Inspection!RawProject(g.project) \cup Inspection!RawProjects(g.projects)) \cup active
  BY DEF Inspection!RawGithubProjects
<1>5. Inspection!Range(items) = entries
  BY DEF Inspection!Range
<1>6. Inspection!AllProjects(g) = {p \in entries \cup {g.project} : p.kind = "mapping"}
  BY <1>5 DEF Inspection!AllProjects
<1>7. ASSUME NEW single, Inspection!Agree(Inspection!RawProject(g.project), single),
             Inspection!ProjectProblems(g) = single \cup inList
      PROVE  Inspection!Agree(Inspection!RawGithubProjects(g), Inspection!ProjectProblems(g))
  <2>. HIDE DEF inList, active
  <2>1. Inspection!Agree(Inspection!RawProject(g.project) \cup Inspection!RawProjects(g.projects),
                         single \cup inList)
    BY <1>2, <1>7, PartsAgree
  <2>2. Inspection!Agree(Inspection!RawGithubProjects(g), (single \cup inList) \cup {})
    BY <1>3, <1>4, <2>1, PartsAgree
  <2>. QED BY <1>7, <2>2
<1>8. CASE g.project.kind \in {"absent", "null"}
  <2>1. Inspection!RawProject(g.project) = {}
    BY <1>8 DEF Inspection!RawProject
  <2>2. Inspection!AllProjects(g) = entries
    <3>1. \A p \in entries : p.kind = "mapping"
      BY <1>1 DEF Inspection!ProjectParses
    <3>. HIDE DEF entries
    <3>. QED BY <1>6, <1>8, <3>1
  <2>3. Inspection!ProjectProblems(g) = {} \cup inList
    BY <1>0, <2>2
  <2>. HIDE DEF inList
  <2>. QED BY <1>7, <2>1, <2>3, SameAgree
<1>9. CASE Inspection!ProjectParses(g.project)
  <2>1. Inspection!Agree(Inspection!RawProject(g.project), Said(g.project))
    BY <1>9, ProjectAgrees
  <2>2. Inspection!AllProjects(g) = entries \cup {g.project}
    <3>1. \A p \in entries \cup {g.project} : p.kind = "mapping"
      BY <1>1, <1>9 DEF Inspection!ProjectParses
    <3>. HIDE DEF entries
    <3>. QED BY <1>6, <3>1
  <2>3. Inspection!ProjectProblems(g) = Said(g.project) \cup inList
    <3>1. Inspection!ProjectProblems(g) = UNION {Said(p) : p \in entries \cup {g.project}}
      BY <1>0, <2>2
    <3>. HIDE DEF Said, entries
    <3>. QED BY <3>1
  <2>. HIDE DEF Said, inList
  <2>. QED BY <1>7, <2>1, <2>3
<1>. QED BY <1>8, <1>9

\* What stands at other places than the active project.
Elsewhere(problems) == \A problem \in problems : problem[1] # "active project"

LEMMA AtItsPlace ==
  ASSUME NEW place, NEW i, NEW problems, NEW said \in Inspection!AtEntry(place, i, problems)
  PROVE  said[1] = place
<1>1. PICK problem \in problems : said = <<place, i, problem>>
  BY DEF Inspection!AtEntry
<1>. QED BY <1>1

LEMMA OthersAreElsewhere ==
  ASSUME NEW place, place # "active project", NEW i, NEW problems
  PROVE  Elsewhere(Inspection!AtEntry(place, i, problems))
  BY AtItsPlace DEF Elsewhere

LEMMA ChecksAgree == InspectionInv => Inspection!ValidatorsAgree
<1>. SUFFICES ASSUME InspectionInv, Inspection!Parses(document)
              PROVE  Inspection!Agree(Inspection!Raw(document),
                       Inspection!Validate(document) \ Inspection!At("active project", {"unknown"}))
  BY DEF Inspection!ValidatorsAgree
<1>. DEFINE w == document.workspace
            d == document.documents
            r == document.repositories
            g == document.github
            Ws == Inspection!At("id", Inspection!If(w.id # "v4", "not v4"))
                    \cup Inspection!At("name", Inspection!If(w.name = "blank", "empty"))
            Ds == Inspection!At("roots", Inspection!If(d.roots.items = <<>>, "missing"))
                    \cup UNION {Inspection!AtEntry("path", i, Inspection!PathProblem(d.roots.items[i].path)) :
                                  i \in DOMAIN d.roots.items}
            Rs == UNION {Inspection!RepositoryProblems(Inspection!Items(r), i) :
                           i \in DOMAIN Inspection!Items(r)}
            Ps == IF g.kind = "mapping" THEN Inspection!ProjectProblems(g) ELSE {}
            As == IF g.kind = "mapping" THEN Inspection!ActiveProblems(g) ELSE {}
<1>1. Inspection!Agree(Inspection!RawWorkspace(w), Ws)
  BY WorkspacesAgree DEF InspectionInv, Inspection!Parses
<1>2. Inspection!Agree(Inspection!RawDocuments(d), Ds)
  BY RootsAgree DEF InspectionInv, Inspection!Parses
<1>3. Inspection!Agree(Inspection!RawRepositories(r), Rs)
  BY RepositoriesAgree DEF Inspection!Parses
<1>4. Inspection!Agree(Inspection!RawGithubProjects(g), Ps)
  <2>1. CASE g.kind = "mapping"
    BY <2>1, ProjectsAgree DEF Inspection!Parses
  <2>2. CASE g.kind \in {"absent", "null"}
    <3>1. Inspection!RawGithubProjects(g) = {} /\ Ps = {}
      BY <2>2 DEF Inspection!RawGithubProjects
    <3>. QED BY <3>1, SameAgree
  <2>. QED BY <2>1, <2>2 DEF Inspection!Parses
<1>5. Elsewhere(Ws) /\ Elsewhere(Ds) /\ Elsewhere(Rs) /\ Elsewhere(Ps)
  <2>7. \A A, B : Elsewhere(A) /\ Elsewhere(B) => Elsewhere(A \cup B)
    BY DEF Elsewhere
  <2>1. Elsewhere(Ws)
    <3>1. /\ Elsewhere(Inspection!At("id", Inspection!If(w.id # "v4", "not v4")))
          /\ Elsewhere(Inspection!At("name", Inspection!If(w.name = "blank", "empty")))
      BY OthersAreElsewhere DEF Inspection!At
    <3>. QED BY <3>1, <2>7
  <2>2. Elsewhere(Ds)
    <3>1. \A i : Elsewhere(Inspection!AtEntry("path", i, Inspection!PathProblem(d.roots.items[i].path)))
      BY OthersAreElsewhere
    <3>2. Elsewhere(UNION {Inspection!AtEntry("path", i, Inspection!PathProblem(d.roots.items[i].path)) :
                             i \in DOMAIN d.roots.items})
      BY <3>1 DEF Elsewhere
    <3>3. Elsewhere(Inspection!At("roots", Inspection!If(d.roots.items = <<>>, "missing")))
      BY OthersAreElsewhere DEF Inspection!At
    <3>. QED BY <3>2, <3>3, <2>7
  <2>3. \A items, i : Elsewhere(Inspection!RepositoryProblems(items, i))
    <3>. SUFFICES ASSUME NEW items, NEW i PROVE Elsewhere(Inspection!RepositoryProblems(items, i))
      OBVIOUS
    <3>1. /\ \A problems : Elsewhere(Inspection!AtEntry("key", i, problems))
          /\ \A problems : Elsewhere(Inspection!AtEntry("label", i, problems))
          /\ \A problems : Elsewhere(Inspection!AtEntry("github id", i, problems))
      BY OthersAreElsewhere
    <3>. QED BY <3>1, <2>7 DEF Inspection!RepositoryProblems
  <2>4. Elsewhere(Rs)
    BY <2>3 DEF Elsewhere
  <2>5. Elsewhere(Inspection!ProjectProblems(g))
    BY OthersAreElsewhere DEF Inspection!ProjectProblems, Inspection!At, Elsewhere
  <2>6. Elsewhere(Ps)
    BY <2>5 DEF Elsewhere
  <2>. QED BY <2>1, <2>2, <2>4, <2>6
<1>6. As \subseteq Inspection!At("active project", {"unknown"})
  BY DEF Inspection!ActiveProblems, Inspection!At, Inspection!AtEntry, Inspection!If
<1>7. \A problem \in Inspection!At("active project", {"unknown"}) : problem[1] = "active project"
  BY AtItsPlace DEF Inspection!At
<1>8. Inspection!Agree(Inspection!Raw(document), ((Ws \cup Ds) \cup Rs) \cup Ps)
  <2>1. Inspection!Raw(document) =
          ((Inspection!RawWorkspace(w) \cup Inspection!RawDocuments(d)) \cup Inspection!RawRepositories(r))
            \cup Inspection!RawGithubProjects(g)
    BY DEF Inspection!Raw
  <2>. HIDE DEF w, d, r, g, Ws, Ds, Rs, Ps
  <2>2. Inspection!Agree(Inspection!RawWorkspace(w) \cup Inspection!RawDocuments(d), Ws \cup Ds)
    BY <1>1, <1>2, PartsAgree
  <2>3. Inspection!Agree((Inspection!RawWorkspace(w) \cup Inspection!RawDocuments(d))
                           \cup Inspection!RawRepositories(r), (Ws \cup Ds) \cup Rs)
    BY <1>3, <2>2, PartsAgree
  <2>4. Inspection!Agree(((Inspection!RawWorkspace(w) \cup Inspection!RawDocuments(d))
                           \cup Inspection!RawRepositories(r)) \cup Inspection!RawGithubProjects(g),
                         ((Ws \cup Ds) \cup Rs) \cup Ps)
    BY <1>4, <2>3, PartsAgree
  <2>. QED BY <2>1, <2>4
<1>9. Inspection!Validate(document) = (((Ws \cup Ds) \cup Rs) \cup Ps) \cup As
  <2>. DEFINE Gs == IF g.kind = "mapping"
                    THEN Inspection!ProjectProblems(g) \cup Inspection!ActiveProblems(g) ELSE {}
  <2>1. Gs = Ps \cup As
    OBVIOUS
  <2>2. Inspection!Validate(document) = ((Ws \cup Ds) \cup Rs) \cup Gs
    <3>1. Inspection!Validate(document) =
            ((((Inspection!At("id", Inspection!If(document.workspace.id # "v4", "not v4"))
              \cup Inspection!At("name", Inspection!If(document.workspace.name = "blank", "empty")))
              \cup Inspection!At("roots", Inspection!If(document.documents.roots.items = <<>>, "missing")))
              \cup UNION {Inspection!AtEntry("path", i,
                            Inspection!PathProblem(document.documents.roots.items[i].path)) :
                            i \in DOMAIN document.documents.roots.items}) \cup Rs) \cup Gs
      BY DEF Inspection!Validate
    <3>. HIDE DEF Rs, Gs
    <3>. QED BY <3>1
  <2>. QED BY <2>1, <2>2
<1>. HIDE DEF Ws, Ds, Rs, Ps, As
<1>10. Inspection!Validate(document) \ Inspection!At("active project", {"unknown"})
         = ((Ws \cup Ds) \cup Rs) \cup Ps
  BY <1>5, <1>6, <1>7, <1>9 DEF Elsewhere
<1>. QED BY <1>8, <1>10

-----------------------------------------------------------------------------
\* A part that does not deserialize is named by the raw checks.
LEMMA WorkspaceIsNamed ==
  ASSUME NEW w, WorkspaceShape(w), Inspection!RawWorkspace(w) = {}
  PROVE  w.kind = "mapping" /\ w.id \in {"v1", "v4"} /\ w.name \notin Inspection!Mute
<1>1. w.kind # "absent"
  <2>. SUFFICES ASSUME w.kind = "absent" PROVE FALSE
    OBVIOUS
  <2>1. <<"id", 0, "missing">> \in Inspection!RawWorkspace(w)
    BY DEF Inspection!RawWorkspace, Inspection!At, Inspection!AtEntry
  <2>. QED BY <2>1
<1>2. w.kind # "scalar"
  BY NothingThere DEF Inspection!RawWorkspace
<1>3. w.kind = "mapping" /\ w.id \in {"absent", "mistyped", "garbage", "v1", "v4"}
  BY <1>1, <1>2 DEF WorkspaceShape
<1>4. /\ Inspection!Required("id", 0, w.id, FALSE) = {}
      /\ Inspection!Required("name", 0, w.name, FALSE) = {}
      /\ Inspection!At("id", Inspection!If(w.id \in {"garbage", "v1"}, "not v4")) = {}
  BY <1>3 DEF Inspection!RawWorkspace
<1>5. w.id \notin Inspection!Mute /\ w.name \notin Inspection!Mute
  BY <1>4, StrictScalar
<1>6. w.id # "garbage"
  <2>. SUFFICES ASSUME w.id = "garbage" PROVE FALSE
    OBVIOUS
  <2>1. <<"id", 0, "not v4">> \in Inspection!At("id", Inspection!If(w.id \in {"garbage", "v1"}, "not v4"))
    BY DEF Inspection!At, Inspection!AtEntry, Inspection!If
  <2>. QED BY <2>1, <1>4
<1>. QED BY <1>3, <1>5, <1>6 DEF Inspection!Mute

LEMMA DocumentsAreNamed ==
  ASSUME NEW d, DocumentsShape(d), Inspection!RawDocuments(d) = {}
  PROVE  d.kind = "mapping" /\ Inspection!RootsParse(d.roots)
<1>1. \A place : Inspection!At(place, {"missing"}) # {}
  <2>. SUFFICES ASSUME NEW place PROVE <<place, 0, "missing">> \in Inspection!At(place, {"missing"})
    OBVIOUS
  <2>. QED BY DEF Inspection!At, Inspection!AtEntry
<1>2. d.kind = "mapping" /\ d.roots.kind = "list"
  BY <1>1, NothingThere DEF DocumentsShape, Inspection!RawDocuments
<1>3. \A i \in DOMAIN d.roots.items : Inspection!RawRoot(i, d.roots.items[i]) = {}
  <2>1. UNION {Inspection!RawRoot(i, d.roots.items[i]) : i \in DOMAIN d.roots.items} = {}
    BY <1>2 DEF Inspection!RawDocuments
  <2>. QED BY <2>1
<1>4. ASSUME NEW i \in DOMAIN d.roots.items
      PROVE  Inspection!RootParses(d.roots.items[i])
  <2>. DEFINE r == d.roots.items[i]
  <2>1. Inspection!RawRoot(i, r) = {}
    BY <1>3
  <2>2. r.kind = "mapping"
    BY <2>1, NothingThere DEF Inspection!RawRoot
  <2>3. Inspection!Required("path", i, r.path, FALSE) = {}
    BY <2>1, <2>2 DEF Inspection!RawRoot
  <2>. QED BY <2>2, <2>3, StrictScalar DEF Inspection!RootParses
<1>. QED BY <1>2, <1>4 DEF Inspection!RootsParse, Inspection!Range

LEMMA RepositoriesAreNamed ==
  ASSUME NEW list, RepositoriesShape(list), Inspection!RawRepositories(list) = {}
  PROVE  Inspection!RepositoriesParse(list)
<1>1. list.kind \in {"absent", "list"}
  BY NothingThere DEF RepositoriesShape, Inspection!RawRepositories
<1>2. ASSUME list.kind = "list", NEW i \in DOMAIN list.items
      PROVE  Inspection!RepositoryParses(list.items[i])
  <2>. DEFINE r == list.items[i]
  <2>1. Inspection!RawRepository(list.items, i) = {}
    <3>1. UNION {Inspection!RawRepository(list.items, j) : j \in DOMAIN list.items} = {}
      BY <1>2 DEF Inspection!RawRepositories
    <3>. QED BY <3>1, <1>2
  <2>2. r.kind = "mapping"
    BY <2>1, NothingThere DEF Inspection!RawRepository
  <2>3. /\ Inspection!Required("key", i, r.key, FALSE) = {}
        /\ Inspection!Required("label", i, r.label, FALSE) = {}
        /\ Inspection!RawGithub(i, r.github) = {}
    BY <2>1, <2>2 DEF Inspection!RawRepository
  <2>4. RepositoryShape(r)
    BY <1>2 DEF RepositoriesShape
  <2>. HIDE DEF r
  <2>5. r.key \notin Inspection!Mute /\ r.label \notin Inspection!Mute
    BY <2>3, StrictScalar
  <2>6. r.github.kind # "absent"
    <3>. SUFFICES ASSUME r.github.kind = "absent" PROVE FALSE
      OBVIOUS
    <3>1. <<"github", i, "missing">> \in Inspection!RawGithub(i, r.github)
      BY DEF Inspection!RawGithub, Inspection!AtEntry
    <3>. QED BY <3>1, <2>3
  <2>7. r.github.kind = "mapping"
    BY <2>2, <2>3, <2>4, <2>6, NothingThere DEF RepositoryShape, Inspection!RawGithub
  <2>8. /\ Inspection!Required("github id", i, r.github.id, TRUE) = {}
        /\ Inspection!Required("full name", i, r.github.full_name, FALSE) = {}
    BY <2>3, <2>7 DEF Inspection!RawGithub
  <2>9. r.github.id \notin Inspection!Mute /\ r.github.full_name \notin Inspection!Mute
    <3>1. r.github.id \notin Inspection!Mute
      BY <2>8, StrictText, TextFieldsAre
    <3>2. r.github.full_name \notin Inspection!Mute
      BY <2>8, StrictScalar
    <3>. QED BY <3>1, <3>2
  <2>. QED BY <2>2, <2>5, <2>7, <2>9 DEF Inspection!RepositoryParses, r
<1>. QED BY <1>1, <1>2 DEF Inspection!RepositoriesParse, Inspection!Range

LEMMA ProjectIsNamed ==
  ASSUME NEW p, ProjectShape(p), Inspection!RawProject(p) = {}
  PROVE  p.kind = "null" \/ Inspection!ProjectParses(p)
<1>. SUFFICES ASSUME p.kind # "null" PROVE Inspection!ProjectParses(p)
  OBVIOUS
<1>1. p.kind = "mapping"
  BY NothingThere DEF ProjectShape, Inspection!RawProject
<1>2. /\ Inspection!Required("project id", 0, p.id, TRUE) = {}
      /\ Inspection!Required("owner", 0, p.owner, FALSE) = {}
      /\ Inspection!Required("number", 0, p.number, FALSE) = {}
  BY <1>1 DEF Inspection!RawProject
<1>3. /\ p.id \notin Inspection!Mute /\ p.owner \notin Inspection!Mute
      /\ p.number \notin Inspection!Mute
  <2>1. p.id \notin Inspection!Mute
    BY <1>2, StrictText, TextFieldsAre
  <2>2. p.owner \notin Inspection!Mute
    BY <1>2, StrictScalar
  <2>3. p.number \notin Inspection!Mute
    BY <1>2, StrictScalar
  <2>. QED BY <2>1, <2>2, <2>3
<1>. QED BY <1>1, <1>3 DEF ProjectShape, Inspection!ProjectParses, Inspection!Mute

LEMMA GithubIsNamed ==
  ASSUME NEW g, GithubShape(g), Inspection!RawGithubProjects(g) = {},
         g.kind = "mapping" =>
           Inspection!Null \notin {g.projects} \cup Inspection!Range(Inspection!Items(g.projects))
  PROVE  \/ g.kind \in {"absent", "null"}
         \/ /\ g.kind = "mapping" /\ g.active # "mistyped"
            /\ g.project.kind \in {"absent", "null"} \/ Inspection!ProjectParses(g.project)
            /\ Inspection!ProjectsParse(g.projects)
<1>. SUFFICES ASSUME g.kind \notin {"absent", "null"}
              PROVE  /\ g.kind = "mapping" /\ g.active # "mistyped"
                     /\ g.project.kind \in {"absent", "null"} \/ Inspection!ProjectParses(g.project)
                     /\ Inspection!ProjectsParse(g.projects)
  OBVIOUS
<1>1. g.kind = "mapping"
  BY NothingThere DEF GithubShape, Inspection!RawGithubProjects
<1>2. /\ Inspection!RawProject(g.project) = {} /\ Inspection!RawProjects(g.projects) = {}
      /\ Inspection!At("active project",
           Inspection!If(g.active \in {"mistyped"} \cup Inspection!Plain, "type")) = {}
  BY <1>1 DEF Inspection!RawGithubProjects
<1>3. g.active # "mistyped"
  <2>. SUFFICES ASSUME g.active = "mistyped" PROVE FALSE
    OBVIOUS
  <2>1. <<"active project", 0, "type">> \in Inspection!At("active project",
          Inspection!If(g.active \in {"mistyped"} \cup Inspection!Plain, "type"))
    BY DEF Inspection!At, Inspection!AtEntry, Inspection!If
  <2>. QED BY <2>1, <1>2
<1>4. g.project.kind \in {"absent", "null"} \/ Inspection!ProjectParses(g.project)
  BY <1>1, <1>2, ProjectIsNamed DEF GithubShape
<1>5. ASSUME g.projects.kind = "list", NEW i \in DOMAIN g.projects.items
      PROVE  Inspection!ProjectParses(g.projects.items[i])
  <2>1. Inspection!RawProject(g.projects.items[i]) = {}
    <3>1. UNION {Inspection!RawProject(g.projects.items[j]) : j \in DOMAIN g.projects.items} = {}
      BY <1>2, <1>5 DEF Inspection!RawProjects
    <3>. QED BY <3>1, <1>5
  <2>2. ProjectShape(g.projects.items[i])
    BY <1>1, <1>5 DEF GithubShape
  <2>3. g.projects.items[i] # Inspection!Null
    BY <1>1, <1>5 DEF Inspection!Range, Inspection!Items
  <2>. QED BY <2>1, <2>2, <2>3, ProjectIsNamed DEF ProjectShape
<1>6. g.projects.kind \in {"absent", "list"}
  <2>1. g.projects.kind # "null"
    BY <1>1 DEF GithubShape
  <2>2. g.projects.kind # "scalar"
    BY <1>2, NothingThere DEF Inspection!RawProjects
  <2>. QED BY <1>1, <2>1, <2>2 DEF GithubShape
<1>. QED BY <1>1, <1>3, <1>4, <1>5, <1>6 DEF Inspection!ProjectsParse, Inspection!Range

LEMMA RefusalsAreNamed == InspectionInv => Inspection!RefusalIsExplained
<1>. SUFFICES ASSUME InspectionInv, Inspection!Raw(document) = {},
                     document.github.kind = "mapping" =>
                       Inspection!Null \notin {document.github.projects}
                         \cup Inspection!Range(Inspection!Items(document.github.projects))
              PROVE  Inspection!Parses(document)
  BY DEF Inspection!RefusalIsExplained
<1>1. /\ Inspection!RawWorkspace(document.workspace) = {}
      /\ Inspection!RawDocuments(document.documents) = {}
      /\ Inspection!RawRepositories(document.repositories) = {}
      /\ Inspection!RawGithubProjects(document.github) = {}
  BY DEF Inspection!Raw
<1>. QED BY <1>1, WorkspaceIsNamed, DocumentsAreNamed, RepositoriesAreNamed, GithubIsNamed
     DEF InspectionInv, Inspection!Parses

-----------------------------------------------------------------------------
LEMMA GeneratedHasShape ==
  /\ DOMAIN Inspection!Generated = {"version", "workspace", "documents", "repositories", "github"}
  /\ WorkspaceShape(Inspection!Generated.workspace) /\ DocumentsShape(Inspection!Generated.documents)
  /\ RepositoriesShape(Inspection!Generated.repositories) /\ GithubShape(Inspection!Generated.github)
<1>. DEFINE new == Inspection!Generated
<1>1. /\ DOMAIN new = {"version", "workspace", "documents", "repositories", "github"}
      /\ new.workspace = Inspection!Identity("v4", "text")
      /\ new.documents = Inspection!Documents(Inspection!List(<<Inspection!Root("docs")>>))
      /\ new.repositories = Inspection!List(<<>>) /\ new.github = Inspection!Absent
  BY DEF Inspection!Generated
<1>. HIDE DEF new
<1>2. WorkspaceShape(new.workspace)
  BY <1>1 DEF WorkspaceShape, Inspection!Identity
<1>3. DocumentsShape(new.documents)
  BY <1>1 DEF DocumentsShape, Inspection!Documents, Inspection!List, RootShape, Inspection!Root
<1>4. RepositoriesShape(new.repositories) /\ GithubShape(new.github)
  BY <1>1 DEF RepositoriesShape, GithubShape, Inspection!List, Inspection!Absent
<1>. QED BY <1>1, <1>2, <1>3, <1>4 DEF new

LEMMA InspectionInit == Inspection!Init => InspectionInv
<1>. SUFFICES ASSUME Inspection!Init PROVE InspectionInv
  OBVIOUS
<1>. DEFINE repository == Inspection!Repository("k1", "l1", "text", "text")
            project == Inspection!Project("p1")
<1>1. document = [Inspection!Generated EXCEPT
                    !.repositories = Inspection!List(<<repository>>),
                    !.github = Inspection!Github(project, Inspection!List(<<project>>), "p1")]
  BY DEF Inspection!Init, Inspection!Full
<1>2. RepositoryShape(repository)
  BY DEF RepositoryShape, Inspection!Repository
<1>3. ProjectShape(project)
  BY DEF ProjectShape, Inspection!Project
<1>. HIDE DEF repository, project
<1>4. RepositoriesShape(Inspection!List(<<repository>>))
  BY <1>2 DEF RepositoriesShape, Inspection!List
<1>5. GithubShape(Inspection!Github(project, Inspection!List(<<project>>), "p1"))
  BY <1>3 DEF GithubShape, Inspection!Github, Inspection!List
<1>. QED BY <1>1, <1>4, <1>5, GeneratedHasShape DEF InspectionInv

\* An edit writes one part, in a shape of that part.
LEMMA PartIsWritten ==
  ASSUME InspectionInv, NEW field, NEW value, Inspection!Write(field, value),
         field \in {"version", "workspace", "documents", "repositories", "github"},
         field = "workspace" => WorkspaceShape(value),
         field = "documents" => DocumentsShape(value),
         field = "repositories" => RepositoriesShape(value),
         field = "github" => GithubShape(value)
  PROVE  InspectionInv'
<1>1. document' = [document EXCEPT ![field] = value]
  BY DEF Inspection!Write
<1>. QED BY <1>1 DEF InspectionInv

LEMMA InspectionStep == InspectionInv /\ Inspection!Next => InspectionInv'
<1>. SUFFICES ASSUME InspectionInv, Inspection!Next PROVE InspectionInv'
  OBVIOUS
<1>10. \A p \in Inspection!Projects : ProjectShape(p) /\ p.kind = "mapping"
  BY DEF Inspection!Projects, Inspection!Project, ProjectShape
<1>11. ProjectShape(Inspection!Null) /\ ProjectShape(Inspection!Scalar)
  BY DEF ProjectShape, Inspection!Null, Inspection!Scalar
<1>1. CASE Inspection!CreatePreview \/ Inspection!EditDisk
  BY <1>1 DEF Inspection!CreatePreview, Inspection!EditDisk, InspectionInv
<1>2. CASE Inspection!Apply
  <2>1. document' = Inspection!Generated \/ document' = document
    BY <1>2 DEF Inspection!Apply
  <2>. QED BY <2>1, GeneratedHasShape DEF InspectionInv
<1>3. CASE Inspection!EditVersion
  BY <1>3, PartIsWritten DEF Inspection!EditVersion
<1>4. CASE Inspection!EditWorkspace
  <2>1. PICK w : /\ Inspection!Write("workspace", w)
                 /\ \/ w \in {Inspection!Absent, Inspection!Scalar}
                    \/ \E id \in {"absent", "mistyped", "garbage", "v1", "v4"},
                          name \in Inspection!Texts : w = Inspection!Identity(id, name)
    BY <1>4 DEF Inspection!EditWorkspace, Inspection!Mute
  <2>2. WorkspaceShape(w)
    BY <2>1 DEF WorkspaceShape, Inspection!Absent, Inspection!Scalar, Inspection!Identity
  <2>. QED BY <2>1, <2>2, PartIsWritten
<1>5. CASE Inspection!EditDocuments
  <2>. DEFINE Tops == {Inspection!Absent, Inspection!Scalar} \cup Inspection!Lists(Inspection!Named)
                        \cup {Inspection!List(<<r>>) : r \in Inspection!Odd}
                        \cup {Inspection!List(<<Inspection!Root("docs"), r>>) : r \in Inspection!Odd}
              RootsShape(list) ==
                /\ list.kind \in {"absent", "scalar", "list"}
                /\ list.kind = "list" => \A i \in DOMAIN list.items : RootShape(list.items[i])
  <2>1. PICK d : /\ Inspection!Write("documents", d)
                 /\ \/ d \in {Inspection!Absent, Inspection!Scalar}
                    \/ \E tops \in Tops : d = Inspection!Documents(tops)
    BY <1>5 DEF Inspection!EditDocuments
  <2>2. \A r \in Inspection!Named \cup Inspection!Odd : RootShape(r)
    BY DEF RootShape, Inspection!Named, Inspection!Odd, Inspection!Root, Inspection!Scalar
  <2>3. RootShape(Inspection!Root("docs"))
    BY DEF RootShape, Inspection!Root
  <2>4. \A list \in Tops : RootsShape(list)
    <3>1. RootsShape(Inspection!Absent) /\ RootsShape(Inspection!Scalar)
      BY DEF Inspection!Absent, Inspection!Scalar
    <3>2. ASSUME NEW list \in Inspection!Lists(Inspection!Named) PROVE RootsShape(list)
      <4>1. PICK s \in Inspection!BoundedSeq(Inspection!Named, FileEntries) : list = Inspection!List(s)
        BY DEF Inspection!Lists
      <4>2. \A i \in DOMAIN s : s[i] \in Inspection!Named
        BY <4>1 DEF Inspection!BoundedSeq, Inspection!SeqOf
      <4>. QED BY <4>1, <4>2, <2>2 DEF Inspection!List
    <3>3. ASSUME NEW r \in Inspection!Odd
          PROVE  /\ RootsShape(Inspection!List(<<r>>))
                 /\ RootsShape(Inspection!List(<<Inspection!Root("docs"), r>>))
      BY <2>2, <2>3 DEF Inspection!List
    <3>. HIDE DEF RootsShape
    <3>. QED BY <3>1, <3>2, <3>3
  <2>5. DocumentsShape(d)
    <3>. HIDE DEF Tops
    <3>1. CASE d \in {Inspection!Absent, Inspection!Scalar}
      BY <3>1 DEF DocumentsShape, Inspection!Absent, Inspection!Scalar
    <3>2. ASSUME NEW tops \in Tops, d = Inspection!Documents(tops)
          PROVE  DocumentsShape(d)
      <4>1. d.kind = "mapping" /\ d.roots = tops
        BY <3>2 DEF Inspection!Documents
      <4>. QED BY <2>4, <4>1 DEF DocumentsShape
    <3>. QED BY <2>1, <3>1, <3>2
  <2>. QED BY <2>1, <2>5, PartIsWritten
<1>6. CASE Inspection!EditRepositories
  <2>1. RepositoryShape(Inspection!Good)
    BY DEF RepositoryShape, Inspection!Good, Inspection!Repository
  <2>2. ASSUME NEW r \in Inspection!Repositories PROVE RepositoryShape(r)
    <3>1. \/ \E k, l, id, name : r = Inspection!Repository(k, l, id, name)
          \/ \E g \in {Inspection!Absent, Inspection!Scalar} : r = [Inspection!Good EXCEPT !.github = g]
          \/ r = Inspection!Scalar
      BY DEF Inspection!Repositories
    <3>. QED BY <3>1 DEF RepositoryShape, Inspection!Good, Inspection!Repository,
                         Inspection!Absent, Inspection!Scalar
  <2>3. PICK list : /\ Inspection!Write("repositories", list)
                    /\ \/ list \in {Inspection!Absent, Inspection!Scalar, Inspection!List(<<>>)}
                       \/ \E r \in Inspection!Repositories :
                            \/ list = Inspection!List(<<r>>)
                            \/ list = Inspection!List(<<Inspection!Good, r>>)
    BY <1>6 DEF Inspection!EditRepositories
  <2>4. RepositoriesShape(list)
    <3>1. CASE list \in {Inspection!Absent, Inspection!Scalar, Inspection!List(<<>>)}
      BY <3>1 DEF RepositoriesShape, Inspection!Absent, Inspection!Scalar, Inspection!List
    <3>2. ASSUME NEW r \in Inspection!Repositories,
                 \/ list = Inspection!List(<<r>>)
                 \/ list = Inspection!List(<<Inspection!Good, r>>)
          PROVE  RepositoriesShape(list)
      BY <3>2, <2>1, <2>2 DEF RepositoriesShape, Inspection!List
    <3>. QED BY <2>3, <3>1, <3>2
  <2>. QED BY <2>3, <2>4, PartIsWritten
<1>7. CASE Inspection!EditGithub
  <2>1. ASSUME NEW g \in {Inspection!Absent, Inspection!Null, Inspection!Scalar},
               Inspection!Write("github", g)
        PROVE  InspectionInv'
    <3>1. GithubShape(g)
      BY DEF GithubShape, Inspection!Absent, Inspection!Null, Inspection!Scalar
    <3>. QED BY <3>1, <2>1, PartIsWritten
  <2>0. ASSUME NEW project, NEW projects, NEW active,
               project.kind = "absent" \/ ProjectShape(project),
               \/ projects \in {Inspection!Absent, Inspection!Null, Inspection!Scalar}
               \/ \E other : ProjectShape(other) /\ projects = Inspection!List(<<other>>),
               Inspection!Write("github", Inspection!Github(project, projects, active))
        PROVE  InspectionInv'
    <3>1. \/ projects.kind \in {"absent", "scalar"}
          \/ projects.kind = "null" /\ projects = Inspection!Null
          \/ projects.kind = "list" /\ \A i \in DOMAIN projects.items : ProjectShape(projects.items[i])
      BY <2>0 DEF Inspection!Absent, Inspection!Null, Inspection!Scalar, Inspection!List
    <3>2. GithubShape(Inspection!Github(project, projects, active))
      BY <2>0, <3>1 DEF GithubShape, Inspection!Github
    <3>. QED BY <3>2, <2>0, PartIsWritten
  <2>5. \A project \in {Inspection!Absent, Inspection!Project("p2")} :
          project.kind = "absent" \/ ProjectShape(project)
    BY DEF Inspection!Absent, Inspection!Project, ProjectShape
  <2>2. ASSUME NEW active,
               NEW project \in {Inspection!Absent, Inspection!Null, Inspection!Scalar}
                                  \cup Inspection!Projects,
               Inspection!Write("github", Inspection!Github(project, Inspection!Absent, active))
        PROVE  InspectionInv'
    <3>1. project.kind = "absent" \/ ProjectShape(project)
      BY <1>10, <1>11 DEF Inspection!Absent
    <3>. QED BY <2>0, <2>2, <3>1
  <2>3. ASSUME NEW active,
               NEW project \in {Inspection!Absent, Inspection!Project("p2")},
               NEW other \in {Inspection!Null, Inspection!Scalar} \cup Inspection!Projects,
               Inspection!Write("github", Inspection!Github(project, Inspection!List(<<other>>), active))
        PROVE  InspectionInv'
    <3>1. ProjectShape(other)
      BY <1>10, <1>11
    <3>. QED BY <2>0, <2>3, <2>5, <3>1
  <2>4. ASSUME NEW active,
               NEW project \in {Inspection!Absent, Inspection!Project("p2")},
               NEW projects \in {Inspection!Null, Inspection!Scalar},
               Inspection!Write("github", Inspection!Github(project, projects, active))
        PROVE  InspectionInv'
    BY <2>0, <2>4, <2>5
  <2>. QED BY <1>7, <2>1, <2>2, <2>3, <2>4 DEF Inspection!EditGithub
<1>. QED BY <1>1, <1>2, <1>3, <1>4, <1>5, <1>6, <1>7 DEF Inspection!Next

-----------------------------------------------------------------------------
(***************************************************************************)
(* All of them.  Each component keeps its own invariant, and a behaviour   *)
(* is one of the component that `part` names.                              *)
(***************************************************************************)
ServicesInv ==
  /\ part = "device" => DeviceInv
  /\ part = "settings" => SettingsInv
  /\ part = "selection" => SelectionInv
  /\ part = "reads" => ReadsInv
  /\ part = "pages" => PagesInv
  /\ part = "assets" => AssetInv
  /\ part = "search" => SearchInv
  /\ part = "inspection" => InspectionInv

LEMMA ServicesInit == Init => ServicesInv
  BY DeviceInit, SettingsInit, SelectionInit, ReadsInit, PagesInit, AssetInit, SearchInit,
     InspectionInit
     DEF Init, ServicesInv

\* A component that does not move keeps its invariant.
LEMMA DeviceRests ==
  ASSUME DeviceInv, UNCHANGED <<now, github, login, getter, tokens, handed>>
  PROVE  DeviceInv'
  BY DEF DeviceInv, DeviceTypeOK, IntervalOK, DistanceOK, ClockOK, TokensOK,
         Device!PollsKeepTheirDistance, Device!IsHurried

LEMMA SettingsRest ==
  ASSUME SettingsInv, UNCHANGED <<settings, memory, lock, thread>>
  PROVE  SettingsInv'
  BY DEF SettingsInv, SettingsTypeOK, LockOK, SavingOK, Settings!Doing

LEMMA SelectionRests ==
  ASSUME SelectionInv,
         UNCHANGED <<files, edits, runtime, wire, lags, result, ui, picks, query, calls, reads>>
  PROVE  SelectionInv'
  BY DEF SelectionInv, Selection!TypeOK, Selection!LoadingHasCall

LEMMA PagesRest ==
  ASSUME PagesInv, UNCHANGED <<op, pagesProject, installs, owners, pc, read, listed>>
  PROVE  PagesInv'
<1>1. RequestsInv' /\ ProjectsInv'
  BY DEF PagesInv, RequestsInv, ProjectsInv, Pages!ProjectsAreWhole
<1>2. UNCHANGED <<op, installs, listed>> /\ pc' = pc
  OBVIOUS
<1>3. RepositoriesInv'
  BY <1>2, ListedStays DEF PagesInv
<1>. QED BY <1>1, <1>3 DEF PagesInv

LEMMA AssetsRest ==
  ASSUME AssetInv, UNCHANGED <<size, assetCall, shown>>
  PROVE  AssetInv'
  BY DEF AssetInv

LEMMA SearchRests ==
  ASSUME SearchInv, UNCHANGED <<documents, index, answer, searchChanges>>
  PROVE  SearchInv'
  BY DEF SearchInv

LEMMA InspectionRests ==
  ASSUME InspectionInv, UNCHANGED <<document, folders, preview, folderEdits>>
  PROVE  InspectionInv'
  BY DEF InspectionInv

LEMMA ServicesRest ==
  ASSUME ServicesInv, UNCHANGED vars
  PROVE  ServicesInv'
<1>1. part = "device" => DeviceInv'
  BY DeviceRests DEF ServicesInv, vars
<1>2. part = "settings" => SettingsInv'
  BY SettingsRest DEF ServicesInv, vars
<1>3. part = "selection" => SelectionInv'
  BY SelectionRests DEF ServicesInv, vars
<1>4. part = "reads" => ReadsInv'
  BY SessionStays DEF ServicesInv, vars
<1>5. part = "pages" => PagesInv'
  BY PagesRest DEF ServicesInv, vars
<1>6. part = "assets" => AssetInv'
  BY AssetsRest DEF ServicesInv, vars
<1>7. part = "search" => SearchInv'
  BY SearchRests DEF ServicesInv, vars
<1>8. part = "inspection" => InspectionInv'
  BY InspectionRests DEF ServicesInv, vars
<1>9. part' = part
  BY DEF vars
<1>. QED BY <1>1, <1>2, <1>3, <1>4, <1>5, <1>6, <1>7, <1>8, <1>9 DEF ServicesInv

\* A step is one of the component that is named, and leaves the choices of the user alone.
LEMMA ServicesStep ==
  ASSUME ServicesInv, Next
  PROVE  /\ ServicesInv'
         /\ part = "settings" => Settings!KeepsFolders
         /\ part = "selection" => Selection!KeepsHome
         /\ part = "reads" => Reads!OpensAskedLast
<1>1. /\ part = "device" => Device!Next
      /\ part = "settings" => Settings!Next
      /\ part = "selection" => Selection!Next
      /\ part = "reads" => Reads!Next
      /\ part = "pages" => Pages!Next
      /\ part = "assets" => Assets!Next
      /\ part = "search" => Search!Next
      /\ part = "inspection" => Inspection!Next
  BY DEF Next
<1>2. part = "device" => DeviceInv'
  BY <1>1, DeviceStep DEF ServicesInv
<1>3. part = "settings" => SettingsInv' /\ Settings!KeepsFolders
  BY <1>1, SettingsStep DEF ServicesInv
<1>4. part = "selection" => SelectionInv' /\ Selection!KeepsHome
  BY <1>1, SelectionStep DEF ServicesInv
<1>5. part = "reads" => ReadsInv' /\ Reads!OpensAskedLast
  BY <1>1, ReadsStep DEF ServicesInv
<1>6. part = "pages" => PagesInv'
  BY <1>1, PagesStep DEF ServicesInv
<1>7. part = "assets" => AssetInv'
  BY <1>1, AssetStep DEF ServicesInv
<1>8. part = "search" => SearchInv'
  BY <1>1, SearchStep DEF ServicesInv
<1>9. part = "inspection" => InspectionInv'
  BY <1>1, InspectionStep DEF ServicesInv
<1>10. part' = part
  BY PartStays
<1>. QED BY <1>2, <1>3, <1>4, <1>5, <1>6, <1>7, <1>8, <1>9, <1>10 DEF ServicesInv

LEMMA ServicesHold == ServicesInv /\ [Next]_vars => ServicesInv'
  BY ServicesStep, ServicesRest

LEMMA ServicesPromise ==
  ASSUME ServicesInv
  PROVE  LimitsAreKept /\ ReadsAreTrue /\ CopiesAgree
<1>1. part = "device" => /\ Device!PollsKeepTheirDistance /\ Device!LoginEndsWithItsCode
                         /\ Device!TokenIsAlive
  BY DEF ServicesInv, DeviceInv, ClockOK, TokensOK, Device!LoginEndsWithItsCode,
         Device!TokenIsAlive
<1>2. part = "pages" =>
        /\ Pages!RequestsAreBounded /\ Pages!EveryRepositoryOnce /\ Pages!ProjectsAreWhole
  BY PagesAreWhole DEF ServicesInv
<1>3. part = "assets" => Assets!NothingIsCut
  BY PicturesAreWhole DEF ServicesInv
<1>4. part = "settings" => Settings!ReadsAreSaved
  <2>. SUFFICES ASSUME SettingsInv, NEW t \in Settings!Threads,
                       thread[t].pc = "locked", Settings!Doing(t).do = "read"
                PROVE  memory[Settings!Doing(t).key] = settings[Settings!Doing(t).key]
    BY DEF ServicesInv, Settings!ReadsAreSaved
  <2>1. \A other \in Settings!Threads : thread[other].pc # "save"
    BY DEF SettingsInv, LockOK
  <2>. QED BY <2>1 DEF SettingsInv, SavingOK
<1>5. part = "selection" => Selection!SelectionIsListed /\ Selection!LoadingHasCall
  BY DEF ServicesInv, SelectionInv, UiOK, Selection!SelectionIsListed
<1>6. part = "search" => Search!IndexMirrorsDocuments
  BY DEF ServicesInv, SearchInv, Search!IndexMirrorsDocuments
<1>7. part = "inspection" => Inspection!ValidatorsAgree /\ Inspection!RefusalIsExplained
  BY ChecksAgree, RefusalsAreNamed DEF ServicesInv
<1>8. LimitsAreKept
  BY <1>1, <1>2, <1>3 DEF LimitsAreKept
<1>9. ReadsAreTrue
  BY <1>2, <1>5 DEF ReadsAreTrue
<1>. QED BY <1>4, <1>6, <1>7, <1>8, <1>9 DEF CopiesAgree

\* GitHub is polled no faster than it asks, a login ends with its code, a token that is handed
\* out is alive, no list costs more requests than its pages and its budget allow, and a picture
\* that is shown is within the limit and has all the bytes its file had at one moment, whatever
\* is written to it while it is read (auth/service.rs, begin_login, complete_login and
\* access_token; github/client.rs; documents/reader.rs).
THEOREM TheLimitsAreKept == Spec => []LimitsAreKept
  <1>. QED BY ServicesInit, ServicesHold, ServicesPromise, PTL DEF Spec

\* Whatever events, answers, picks and resyncs reach the window: the selected document is in the
\* tree on screen, a document that loads has a call that will answer it, and the pages give each
\* repository once and every Project or the word that some are missing (documents-reducer.ts;
\* DocumentsProvider.tsx; github/client.rs, list_repositories and list_projects).
THEOREM TheReadsAreTrue == Spec => []ReadsAreTrue
  <1>. QED BY ServicesInit, ServicesHold, ServicesPromise, PTL DEF Spec

\* Whatever is written to workspace.yml, its two validators find the same and name a place in what
\* the parser refuses; whatever sequence of batches and deletions changes the cache, the search
\* index has the rows of the documents and no others; and a setting that is read is the saved one,
\* whatever threads save at once or fail to (workspace/validation.rs, diagnostics.rs;
\* documents/cache.rs; settings/store_adapter.rs).
THEOREM TheCopiesAgree == Spec => []CopiesAgree
  <1>. QED BY ServicesInit, ServicesHold, ServicesPromise, PTL DEF Spec

\* Nothing but the user moves what the user chose: a folder that was remembered stays
\* remembered when two threads save at once and when a save fails, the home of the documents is
\* left only for a picked document, and the document on record as opened is the one whose read
\* was asked last (settings/service.rs; documents-reducer.ts; commands/documents.rs).
THEOREM TheChoicesStay == Spec => ChoicesStay
<1>1. ASSUME ServicesInv, [Next]_vars
      PROVE  [/\ part = "settings" => Settings!KeepsFolders
              /\ part = "selection" => Selection!KeepsHome
              /\ part = "reads" => Reads!OpensAskedLast]_vars
  BY <1>1, ServicesStep
<1>. QED BY <1>1, ServicesInit, ServicesHold, PTL DEF Spec, ChoicesStay
=============================================================================
