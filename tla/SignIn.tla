------------------------------- MODULE SignIn -------------------------------
(***************************************************************************)
(* How the owner gets into an account and out of it (ADR-0004, ADR-0035):  *)
(* the sign-in page, Google's redirects, the self-host secret, the session *)
(* cookie that every request is checked against, logging out, and logging  *)
(* out everywhere, and the token bucket in front of the secret.  Handlers  *)
(* await the database between their steps, so those of different browsers  *)
(* interleave.                                                             *)
(***************************************************************************)
EXTENDS Integers, Sequences, FiniteSets

CONSTANTS
    Browsers,
    Identities,  \* (provider, subject) pairs
    LocalOwner,  \* the one of the self-host secret
    Deployments, \* what each offers: subsets of {"google", "local"}
    Capacity,    \* burst of the secret's bucket, which regains one a minute
    MaxMinutes,  \* how far that clock runs
    MaxEvents    \* bounds what users, clocks and bots do

None == "none"
ASSUME SignInAssumption ==
    /\ None \notin Identities /\ LocalOwner \in Identities
    /\ Deployments \subseteq SUBSET {"google", "local"}
    /\ Capacity \in Nat \ {0} /\ MaxMinutes \in Nat /\ MaxEvents \in Nat

VARIABLES
    offer,   \* the ways to sign in that are configured
    account, \* the Account table, by identity
    cookie,  \* the session cookie of each browser
    page,    \* the sign-in page of each browser
    flow,    \* the sign-in of each browser that the backend works on
    request, \* the request of each browser that passed requireSession
    ended,   \* cookies that were out when their account logged out everywhere (history)
    proved,  \* the identities each browser proved to be (history)
    minute,  \* the clock of the bucket
    bucket,  \* localLimit's bucket of each browser's address
    guesses, \* the minutes of each browser's admitted attempts (history)
    events

limitVars == <<offer, minute, bucket, guesses>>
\* all but the request and the budget
signInRest == <<offer, account, cookie, page, flow, ended, proved, minute, bucket, guesses>>
signInVars == <<offer, account, cookie, page, flow, request, ended, proved, minute, bucket, guesses, events>>

NoCookie == [account |-> None, epoch |-> 0]
Cookie == [account : Identities, epoch : Nat] \cup {NoCookie}
NoFlow == [step |-> "no", who |-> None, found |-> FALSE]
NoRequest == [op |-> "no", account |-> None]
Ops == {"no", "logoutAll", "redeem", "mint", "unlink"}

SignInTypeOK ==
    /\ offer \in Deployments
    /\ account \in [Identities -> [exists : BOOLEAN, epoch : Nat, deleted : BOOLEAN]]
    /\ cookie \in [Browsers -> Cookie]
    /\ page \in [Browsers -> {"away", "loading", "form", "busy"}]
    /\ flow \in [Browsers -> [step : {"no", "consent", "resolved"}, who : Identities \cup {None}, found : BOOLEAN]]
    /\ request \in [Browsers -> [op : Ops, account : Identities \cup {None}]]
    /\ ended \subseteq Cookie /\ proved \in [Browsers -> SUBSET Identities]
    /\ minute \in 0..MaxMinutes /\ guesses \in [Browsers -> Seq(0..MaxMinutes)]
    /\ bucket \in [Browsers -> [tokens : 0..Capacity, last : 0..MaxMinutes]]
    /\ events \in 0..MaxEvents

(* some browsers have signed in before, others are at the sign-in page *)
SignInInit ==
    /\ offer \in Deployments
    /\ cookie \in [Browsers -> [account : Identities, epoch : {0}] \cup {NoCookie}]
    /\ proved = [b \in Browsers |-> {cookie[b].account} \ {None}]
    /\ account = [i \in Identities |->
         [exists |-> \E b \in Browsers : cookie[b].account = i, epoch |-> 0, deleted |-> FALSE]]
    /\ page = [b \in Browsers |->
         IF cookie[b] = NoCookie /\ "local" \in offer THEN "form" ELSE "away"]
    /\ flow = [b \in Browsers |-> NoFlow]
    /\ request = [b \in Browsers |-> NoRequest]
    /\ ended = {} /\ minute = 0
    /\ bucket = [b \in Browsers |-> [tokens |-> Capacity, last |-> 0]]
    /\ guesses = [b \in Browsers |-> <<>>]
    /\ events = 0

Event == events < MaxEvents /\ events' = events + 1

(* requireSession, with verifySession: the HMAC and the database agree *)
Valid(c) ==
    /\ c.account # None /\ account[c.account].exists /\ ~account[c.account].deleted
    /\ account[c.account].epoch = c.epoch
-----------------------------------------------------------------------------
(* the sign-in page: loaded, it asks for /auth/me and the methods on offer *)
OpenLogin(b) ==
    /\ page[b] = "away" /\ flow[b] = NoFlow /\ Event
    /\ page' = [page EXCEPT ![b] = "loading"]
    /\ UNCHANGED <<limitVars, account, cookie, flow, request, ended, proved>>

(* Signed in (me), it leaves.  Else, or if that request is lost, it forwards *)
(* to Google if that is all there is, or shows the form; if the methods      *)
(* cannot be read either it shows an error, and is to be opened again.       *)
LoginLoads(b) ==
    /\ page[b] = "loading"
    /\ \E me, methods \in BOOLEAN :
         LET forward == ~me /\ methods /\ offer = {"google"}
             lost == me # Valid(cookie[b]) \/ ~methods
         IN
         /\ me => Valid(cookie[b])
         /\ page' = [page EXCEPT ![b] = IF me \/ forward \/ ~methods THEN "away" ELSE "form"]
         /\ flow' = IF forward THEN [flow EXCEPT ![b].step = "consent"] ELSE flow
         /\ IF lost THEN Event ELSE UNCHANGED events
    /\ UNCHANGED <<limitVars, account, cookie, request, ended, proved>>

(* GET /auth/google: off to the consent screen with a signed state *)
StartOAuth(b) ==
    /\ page[b] = "form" /\ "google" \in offer
    /\ page' = [page EXCEPT ![b] = "away"]
    /\ flow' = [flow EXCEPT ![b].step = "consent"]
    /\ UNCHANGED <<limitVars, account, cookie, request, ended, proved, events>>

(* upsertAccount looks the identity up; a deleted one is refused *)
Resolve(b, i) ==
    IF account[i].deleted THEN [flow EXCEPT ![b] = NoFlow]
    ELSE [flow EXCEPT ![b] = [step |-> "resolved", who |-> i, found |-> account[i].exists]]

(* the callback, whose code Google exchanged for an identity *)
Callback(b, i) ==
    /\ flow[b].step = "consent" /\ i \in Identities \ {LocalOwner}
    /\ flow' = Resolve(b, i)
    /\ proved' = [proved EXCEPT ![b] = @ \cup {i}]
    /\ UNCHANGED <<limitVars, account, cookie, page, request, ended, events>>

(* denied, a state older than its TTL, no code, or a failed exchange *)
CallbackRefused(b) ==
    /\ flow[b].step = "consent"
    /\ flow' = [flow EXCEPT ![b] = NoFlow]
    /\ UNCHANGED <<limitVars, account, cookie, page, request, ended, proved, events>>

(* tokenBucket *)
Attempt(k) ==
    LET full == k.tokens + (minute - k.last)
        held == IF full > Capacity THEN Capacity ELSE full
    IN  [tokens |-> IF held >= 1 THEN held - 1 ELSE held, last |-> minute, admitted |-> held >= 1]

MinutePasses ==
    /\ minute < MaxMinutes /\ minute' = minute + 1 /\ Event
    /\ UNCHANGED <<offer, account, cookie, page, flow, request, ended, proved, bucket, guesses>>

(* POST /auth/local: 429 from the bucket, 401 for a wrong secret *)
SubmitSecret(b, right) ==
  LET try == Attempt(bucket[b]) IN
    /\ page[b] = "form" /\ "local" \in offer /\ Event
    /\ bucket' = [bucket EXCEPT ![b] = [tokens |-> try.tokens, last |-> try.last]]
    /\ guesses' = IF try.admitted THEN [guesses EXCEPT ![b] = Append(@, minute)] ELSE guesses
    /\ page' = IF right /\ try.admitted THEN [page EXCEPT ![b] = "busy"] ELSE page
    /\ flow' = IF right /\ try.admitted THEN Resolve(b, LocalOwner) ELSE flow
    /\ proved' = IF right /\ try.admitted THEN [proved EXCEPT ![b] = @ \cup {LocalOwner}] ELSE proved
    /\ UNCHANGED <<offer, account, cookie, request, ended, minute>>

(* The rest of upsertAccount, and the cookie.  An identity that was looked   *)
(* up in vain may exist by now: the unique key refuses the second row.       *)
AccountOf(who) == who
Complete(b) ==
    LET who == AccountOf(flow[b].who)
        refused == ~flow[b].found /\ account[who].exists
    IN
    /\ flow[b].step = "resolved"
    /\ account' = IF refused THEN account ELSE [account EXCEPT ![who].exists = TRUE]
    /\ cookie' = IF refused THEN cookie
                 ELSE [cookie EXCEPT ![b] = [account |-> who, epoch |-> account[who].epoch]]
    /\ page' = [page EXCEPT ![b] = IF refused /\ @ = "busy" THEN "form" ELSE "away"]
    /\ flow' = [flow EXCEPT ![b] = NoFlow]
    /\ UNCHANGED <<limitVars, request, ended, proved, events>>
(* what the page shows when the account behind the right secret was deleted *)
Forbidden(b) ==
    /\ page[b] = "busy" /\ flow[b] = NoFlow
    /\ page' = [page EXCEPT ![b] = "form"]
    /\ UNCHANGED <<limitVars, account, cookie, flow, request, ended, proved, events>>
-----------------------------------------------------------------------------
(* a request to the owner plane passes requireSession; others get a 401 *)
Pass(b, op) ==
    /\ request[b] = NoRequest /\ Valid(cookie[b]) /\ op # "no" /\ Event
    /\ request' = [request EXCEPT ![b] = [op |-> op, account |-> cookie[b].account]]
    /\ UNCHANGED <<limitVars, account, cookie, page, flow, ended, proved>>

Logout(b) ==
    /\ cookie[b] # NoCookie /\ Event
    /\ cookie' = [cookie EXCEPT ![b] = NoCookie]
    /\ UNCHANGED <<limitVars, account, page, flow, request, ended, proved>>

(* POST /auth/logout-all *)
(* mutated form: the browser's own cookie is all that is cleared *)
KeptEpoch(epoch) == epoch
NextEpoch(epoch) == epoch + 1
LogoutAll(b) ==
    LET a == request[b].account IN
    /\ request[b].op = "logoutAll"
    /\ account' = [account EXCEPT ![a].epoch = NextEpoch(@)]
    /\ cookie' = [cookie EXCEPT ![b] = NoCookie]
    /\ ended' = ended \cup {c \in {cookie[x] : x \in Browsers} : c.account = a}
    /\ request' = [request EXCEPT ![b] = NoRequest]
    /\ UNCHANGED <<limitVars, page, flow, proved, events>>

(* the maximal age of the cookie is over *)
CookieExpires(b) ==
    /\ cookie[b] # NoCookie /\ Event
    /\ cookie' = [cookie EXCEPT ![b] = NoCookie]
    /\ UNCHANGED <<limitVars, account, page, flow, request, ended, proved>>

(* an account is marked deleted: by hand, no code does it *)
DeleteAccount(i) ==
    /\ account[i].exists /\ ~account[i].deleted /\ Event
    /\ account' = [account EXCEPT ![i].deleted = TRUE]
    /\ UNCHANGED <<limitVars, cookie, page, flow, request, ended, proved>>

SignInNext ==
    \/ \E b \in Browsers :
         \/ OpenLogin(b) \/ LoginLoads(b) \/ StartOAuth(b) \/ CallbackRefused(b)
         \/ \E i \in Identities : Callback(b, i)
         \/ \E right \in BOOLEAN : SubmitSecret(b, right)
         \/ Complete(b) \/ Forbidden(b) \/ Logout(b) \/ CookieExpires(b)
         \/ Pass(b, "logoutAll") \/ LogoutAll(b)
    \/ \E i \in Identities : DeleteAccount(i)
    \/ MinutePasses
-----------------------------------------------------------------------------
(* Logging out everywhere ends every session for good: no cookie that was    *)
(* out then is accepted again, whoever signs in, and however sign-ins that   *)
(* were under way interleave with it.                                        *)
EndedForGood == \A c \in ended : ~Valid(c)

(* A browser only ever holds a session of an identity it proved to be, of an *)
(* account that exists, even when two browsers sign in for the first time at *)
(* once and only one of them gets to create the row.                         *)
OwnAccount ==
    \A b \in Browsers : cookie[b] # NoCookie =>
        cookie[b].account \in proved[b] /\ account[cookie[b].account].exists

(* The secret is guessed at most a burst plus one a minute, over any stretch *)
(* of time, however refused attempts fall in between.                        *)
GuessesBounded ==
    \A b \in Browsers : \A m, n \in 1..Len(guesses[b]) : m <= n =>
        n - m + 1 <= Capacity + (guesses[b][n] - guesses[b][m])
=============================================================================
