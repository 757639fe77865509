--------------------------- MODULE AccountsProofs ---------------------------
(***************************************************************************)
(* Accounts, for any number of browsers, identities, codes, chat users and *)
(* tokens: sessions end for good, what was granted is kept, and nothing is *)
(* taken that was not given back by its owner.  The services beside them:  *)
(* the bots recover from every trouble, the distribution server catches up *)
(* and never goes back, and the integrations page ends with a cause.       *)
(***************************************************************************)
EXTENDS MCAccounts, FiniteSetTheorems, TLAPS

USE DEF limitVars, signInRest, signInVars, promoVars, linkVars, None

(***************************************************************************)
(* Sessions.                                                               *)
(***************************************************************************)
AccountRow == [exists : BOOLEAN, epoch : Nat, deleted : BOOLEAN]
PageStates == {"away", "loading", "form", "busy"}
Flow == [step : {"no", "consent", "resolved"}, who : Identities \cup {None}, found : BOOLEAN]
Asking == [op : Ops, account : Identities \cup {None}]
Level == [tokens : 0..Capacity, last : 0..MaxMinutes]

(* SignInTypeOK, with its sets named *)
SessionsTyped ==
    /\ offer \in Deployments /\ account \in [Identities -> AccountRow] /\ cookie \in [Browsers -> Cookie]
    /\ page \in [Browsers -> PageStates] /\ flow \in [Browsers -> Flow] /\ request \in [Browsers -> Asking]
    /\ ended \subseteq Cookie /\ proved \in [Browsers -> SUBSET Identities]
    /\ minute \in 0..MaxMinutes /\ guesses \in [Browsers -> Seq(0..MaxMinutes)]
    /\ bucket \in [Browsers -> Level] /\ events \in 0..MaxEvents

(* What a sign-in resolved to has been proved; who asks has an account.     *)
Proven == \A b \in Browsers : flow[b].step = "resolved" => flow[b].who \in proved[b]
Asked == \A b \in Browsers : request[b].op # "no" => request[b].account \in Identities

(* No cookie is of a later epoch than its account, and one that has ended    *)
(* is of an earlier one.                                                    *)
CookiesPast ==
    \A b \in Browsers : cookie[b] # NoCookie => cookie[b].epoch <= account[cookie[b].account].epoch
EndedPast ==
    \A c \in ended : c.account \in Identities /\ c.epoch < account[c.account].epoch

(* What is left in a bucket and the guesses since any earlier one are no     *)
(* more than a burst and what has flowed in since then.                     *)
Filled(g, tokens, last) ==
    \A m \in 1..Len(g) : g[m] <= last /\ tokens + Len(g) - m + 1 <= Capacity + last - g[m]
Spread(g) == \A m, o \in 1..Len(g) : m <= o => o - m + 1 <= Capacity + (g[o] - g[m])
Metered == \A b \in Browsers : Filled(guesses[b], bucket[b].tokens, bucket[b].last)

(* An attempt at w on a bucket that held t at l, which leaves some of it.    *)
Takes(g, t, l, w, h, left) ==
    \E held \in Nat :
        /\ held <= Capacity /\ held <= t + (w - l)
        /\ \/ held = 0 /\ left = 0 /\ h = g
           \/ held >= 1 /\ left = held - 1 /\ h = Append(g, w)

Dripping == (\A b \in Browsers : bucket[b].last <= minute) /\ Metered /\ GuessesBounded

SessionsInv == SessionsTyped /\ Proven /\ Asked /\ CookiesPast /\ EndedPast /\ OwnAccount /\ Dripping

(* What the rest of the accounts does to sessions: it takes from the budget  *)
(* of events, and answers requests.                                         *)
Beside ==
    /\ UNCHANGED signInRest /\ (events' = events \/ Event)
    /\ request' = request \/ \E b \in Browsers : request' = [request EXCEPT ![b] = NoRequest]

Rebooted ==
    /\ Event
    /\ request' = [b \in Browsers |-> NoRequest]
    /\ bucket' = [b \in Browsers |-> [tokens |-> Capacity, last |-> minute]]
    /\ guesses' = [b \in Browsers |-> <<>>]
    /\ flow' = [b \in Browsers |-> IF flow[b].step = "resolved" THEN NoFlow ELSE flow[b]]
    /\ UNCHANGED <<offer, account, cookie, page, ended, proved, minute>>

SessionStep == SignInNext \/ (\E b \in Browsers, op \in Ops : Pass(b, op)) \/ Beside \/ Rebooted

(* The sets that the types are named by. *)
LEMMA SessionTypes == SessionsTyped <=> SignInTypeOK
BY DEF SignInTypeOK, SessionsTyped, AccountRow, PageStates, Flow, Asking, Level

(* Empty values have the types, and the constants are what is assumed. *)
LEMMA Shapes ==
    /\ NoCookie \in Cookie /\ \A i \in Identities, e \in Nat : [account |-> i, epoch |-> e] \in Cookie
    /\ \A c \in Cookie : c # NoCookie => c.account \in Identities /\ c.epoch \in Nat
    /\ NoFlow \in Flow /\ NoRequest \in Asking
    /\ Capacity \in Nat \ {0} /\ MaxMinutes \in Nat /\ MaxEvents \in Nat
    /\ LocalOwner \in Identities /\ None \notin Identities
BY SignInAssumption DEF Cookie, NoCookie, NoFlow, Flow, NoRequest, Asking, Ops

(* What upsertAccount found is a state of a sign-in. *)
LEMMA Resolves ==
    ASSUME SessionsTyped, NEW b \in Browsers, NEW i \in Identities
    PROVE  /\ Resolve(b, i) \in [Browsers -> Flow]
           /\ \A x \in Browsers \ {b} : Resolve(b, i)[x] = flow[x]
           /\ Resolve(b, i)[b].step = "resolved" => Resolve(b, i)[b].who = i
<1>1. flow \in [Browsers -> Flow] /\ account[i].exists \in BOOLEAN
  BY DEF SessionsTyped, AccountRow
<1>2. [step |-> "resolved", who |-> i, found |-> account[i].exists] \in Flow
  BY <1>1 DEF Flow
<1> QED BY <1>1, <1>2, Shapes DEF Resolve, NoFlow

(* The bucket stays between empty and full. *)
LEMMA Attempts ==
    ASSUME NEW k \in Level, minute \in 0..MaxMinutes, k.last <= minute
    PROVE  [tokens |-> Attempt(k).tokens, last |-> Attempt(k).last] \in Level
BY Shapes DEF Level, Attempt

(* Every step keeps the types of the sessions. *)
LEMMA SessionsStayTyped ==
    ASSUME SessionsInv, SessionStep \/ UNCHANGED signInVars
    PROVE  SessionsTyped'
<1>0. /\ offer \in Deployments /\ account \in [Identities -> AccountRow] /\ cookie \in [Browsers -> Cookie]
      /\ page \in [Browsers -> PageStates] /\ flow \in [Browsers -> Flow] /\ request \in [Browsers -> Asking]
      /\ ended \subseteq Cookie /\ proved \in [Browsers -> SUBSET Identities]
      /\ minute \in 0..MaxMinutes /\ guesses \in [Browsers -> Seq(0..MaxMinutes)]
      /\ bucket \in [Browsers -> Level] /\ events \in 0..MaxEvents
      /\ \A b \in Browsers : bucket[b].last <= minute
      /\ Proven /\ Asked /\ SessionsTyped
  BY DEF SessionsInv, SessionsTyped, Dripping
<1>1. ASSUME NEW b \in Browsers, OpenLogin(b) PROVE SessionsTyped'
  <2>1. events' \in 0..MaxEvents
    BY <1>1, <1>0, Shapes DEF OpenLogin, Event
  <2>2. page' \in [Browsers -> PageStates]
    BY <1>1, <1>0 DEF OpenLogin, PageStates
  <2> QED BY <1>1, <1>0, <2>1, <2>2 DEF OpenLogin, SessionsTyped
<1>2. ASSUME NEW b \in Browsers, LoginLoads(b) PROVE SessionsTyped'
  <2>1. page' \in [Browsers -> PageStates]
    BY <1>2, <1>0 DEF LoginLoads, PageStates
  <2>2. flow' \in [Browsers -> Flow]
    <3>1. flow' = flow \/ flow' = [flow EXCEPT ![b].step = "consent"]
      BY <1>2 DEF LoginLoads
    <3>2. [flow[b] EXCEPT !.step = "consent"] \in Flow
      BY ZenonT(40), <1>0 DEF Flow
    <3> QED BY <1>0, <3>1, <3>2
  <2>3. events' \in 0..MaxEvents
    <3>1. events' = events \/ Event
      BY <1>2 DEF LoginLoads
    <3> QED BY <1>0, <3>1, Shapes DEF Event
  <2> QED BY <1>2, <1>0, <2>1, <2>2, <2>3 DEF LoginLoads, SessionsTyped
<1>3. ASSUME NEW b \in Browsers, StartOAuth(b) PROVE SessionsTyped'
  <2>1. page' \in [Browsers -> PageStates]
    BY <1>3, <1>0 DEF StartOAuth, PageStates
  <2>2. flow' \in [Browsers -> Flow]
    BY <1>3, <1>0, Shapes DEF StartOAuth, Flow
  <2> QED BY <1>3, <1>0, <2>1, <2>2 DEF StartOAuth, SessionsTyped
<1>4. ASSUME NEW b \in Browsers, CallbackRefused(b) PROVE SessionsTyped'
  <2>1. flow' \in [Browsers -> Flow]
    BY <1>4, <1>0, Shapes DEF CallbackRefused
  <2> QED BY <1>4, <1>0, <2>1 DEF CallbackRefused, SessionsTyped
<1>5. ASSUME NEW b \in Browsers, NEW i \in Identities, Callback(b, i) PROVE SessionsTyped'
  <2>1. flow' \in [Browsers -> Flow]
    BY <1>5, <1>0, Resolves DEF Callback
  <2>2. proved' \in [Browsers -> SUBSET Identities]
    BY <1>5, <1>0 DEF Callback
  <2> QED BY <1>5, <1>0, <2>1, <2>2 DEF Callback, SessionsTyped
<1>6. ASSUME NEW b \in Browsers, NEW right \in BOOLEAN, SubmitSecret(b, right) PROVE SessionsTyped'
  <2>1. events' \in 0..MaxEvents
    BY <1>6, <1>0, Shapes DEF SubmitSecret, Event
  <2>2. page' \in [Browsers -> PageStates]
    BY <1>6, <1>0 DEF SubmitSecret, PageStates
  <2>3. flow' \in [Browsers -> Flow]
    BY <1>6, <1>0, Resolves, Shapes DEF SubmitSecret
  <2>4. proved' \in [Browsers -> SUBSET Identities]
    BY <1>6, <1>0, Shapes DEF SubmitSecret
  <2>5. bucket' \in [Browsers -> Level]
    BY <1>6, <1>0, Attempts DEF SubmitSecret
  <2>6. guesses' \in [Browsers -> Seq(0..MaxMinutes)]
    BY <1>6, <1>0 DEF SubmitSecret
  <2> QED BY <1>6, <1>0, <2>1, <2>2, <2>3, <2>4, <2>5, <2>6 DEF SubmitSecret, SessionsTyped
<1>7. ASSUME NEW b \in Browsers, Complete(b) PROVE SessionsTyped'
  <2>1. flow[b].who \in Identities
    BY <1>7, <1>0 DEF Complete, Proven
  <2>2. account' \in [Identities -> AccountRow]
    BY <1>7, <1>0, <2>1 DEF Complete, AccountOf, AccountRow
  <2>3. account[flow[b].who].epoch \in Nat
    BY <1>0, <2>1 DEF AccountRow
  <2>4. cookie' \in [Browsers -> Cookie]
    BY <1>7, <1>0, <2>1, <2>3, Shapes DEF Complete, AccountOf
  <2>5. page' \in [Browsers -> PageStates]
    BY <1>7, <1>0 DEF Complete, PageStates
  <2>6. flow' \in [Browsers -> Flow]
    BY <1>7, <1>0, Shapes DEF Complete
  <2> QED BY <1>7, <1>0, <2>2, <2>4, <2>5, <2>6 DEF Complete, SessionsTyped
<1>8. ASSUME NEW b \in Browsers, Forbidden(b) PROVE SessionsTyped'
  <2>1. page' \in [Browsers -> PageStates]
    BY <1>8, <1>0 DEF Forbidden, PageStates
  <2> QED BY <1>8, <1>0, <2>1 DEF Forbidden, SessionsTyped
<1>9. ASSUME NEW b \in Browsers, Logout(b) PROVE SessionsTyped'
  <2>1. events' \in 0..MaxEvents
    BY <1>9, <1>0, Shapes DEF Logout, Event
  <2>2. cookie' \in [Browsers -> Cookie]
    BY <1>9, <1>0, Shapes DEF Logout
  <2> QED BY <1>9, <1>0, <2>1, <2>2 DEF Logout, SessionsTyped
<1>10. ASSUME NEW b \in Browsers, CookieExpires(b) PROVE SessionsTyped'
  <2>1. events' \in 0..MaxEvents
    BY <1>10, <1>0, Shapes DEF CookieExpires, Event
  <2>2. cookie' \in [Browsers -> Cookie]
    BY <1>10, <1>0, Shapes DEF CookieExpires
  <2> QED BY <1>10, <1>0, <2>1, <2>2 DEF CookieExpires, SessionsTyped
<1>11. ASSUME NEW b \in Browsers, NEW op \in Ops, Pass(b, op) PROVE SessionsTyped'
  <2>1. events' \in 0..MaxEvents
    BY <1>11, <1>0, Shapes DEF Pass, Event
  <2>2. cookie[b].account \in Identities
    BY <1>11, <1>0, Shapes DEF Pass, Valid, NoCookie
  <2>3. request' \in [Browsers -> Asking]
    BY <1>11, <1>0, <2>2 DEF Pass, Asking
  <2> QED BY <1>11, <1>0, <2>1, <2>2, <2>3 DEF Pass, SessionsTyped
<1>12. ASSUME NEW b \in Browsers, LogoutAll(b) PROVE SessionsTyped'
  <2>1. request[b].account \in Identities
    BY <1>12, <1>0 DEF LogoutAll, Asked
  <2>2. \A r \in AccountRow : [r EXCEPT !.epoch = r.epoch + 1] \in AccountRow
    BY DEF AccountRow
  <2>3. account' = [account EXCEPT ![request[b].account].epoch = account[request[b].account].epoch + 1]
    BY <1>12, <1>0, <2>1 DEF LogoutAll, NextEpoch, AccountRow
  <2>4. account' \in [Identities -> AccountRow]
    BY <1>0, <2>1, <2>2, <2>3 DEF AccountRow
  <2>5. cookie' \in [Browsers -> Cookie]
    BY <1>12, <1>0, Shapes DEF LogoutAll
  <2>6. ended' \subseteq Cookie
    BY <1>12, <1>0 DEF LogoutAll
  <2>7. request' \in [Browsers -> Asking]
    BY <1>12, <1>0, Shapes DEF LogoutAll
  <2> QED BY <1>12, <1>0, <2>1, <2>2, <2>3, <2>4, <2>5, <2>6, <2>7 DEF LogoutAll, SessionsTyped
<1>13. ASSUME NEW i \in Identities, DeleteAccount(i) PROVE SessionsTyped'
  <2>1. events' \in 0..MaxEvents
    BY <1>13, <1>0, Shapes DEF DeleteAccount, Event
  <2>2. account' \in [Identities -> AccountRow]
    BY <1>13, <1>0 DEF DeleteAccount, AccountRow
  <2> QED BY <1>13, <1>0, <2>1, <2>2 DEF DeleteAccount, SessionsTyped
<1>14. CASE MinutePasses
  <2>1. events' \in 0..MaxEvents
    BY <1>14, <1>0, Shapes DEF MinutePasses, Event
  <2>2. minute' \in 0..MaxMinutes
    BY <1>14, <1>0, Shapes DEF MinutePasses
  <2> QED BY <1>14, <1>0, <2>1, <2>2 DEF MinutePasses, SessionsTyped
<1>15. CASE Beside
  <2>1. events' \in 0..MaxEvents
    BY <1>15, <1>0, Shapes DEF Beside, Event
  <2>2. request' \in [Browsers -> Asking]
    BY <1>15, <1>0, Shapes DEF Beside
  <2> QED BY <1>15, <1>0, <2>1, <2>2 DEF Beside, SessionsTyped
<1>16. CASE Rebooted
  <2>1. events' \in 0..MaxEvents
    BY <1>16, <1>0, Shapes DEF Rebooted, Event
  <2>2. request' \in [Browsers -> Asking]
    BY <1>16, Shapes DEF Rebooted
  <2>3. bucket' \in [Browsers -> Level]
    BY <1>16, <1>0, Shapes DEF Rebooted, Level
  <2>4. guesses' \in [Browsers -> Seq(0..MaxMinutes)]
    BY <1>16 DEF Rebooted
  <2>5. flow' \in [Browsers -> Flow]
    BY <1>16, <1>0, Shapes DEF Rebooted
  <2> QED BY <1>16, <1>0, <2>1, <2>2, <2>3, <2>4, <2>5 DEF Rebooted, SessionsTyped
<1>17. CASE UNCHANGED signInVars
  BY <1>17, <1>0 DEF SessionsTyped
<1> QED
  BY <1>1, <1>2, <1>3, <1>4, <1>5, <1>6, <1>7, <1>8, <1>9, <1>10, <1>11, <1>12, <1>13,
     <1>14, <1>15, <1>16, <1>17
     DEF SessionStep, SignInNext, Ops

(* A sign-in resolves to an identity that its browser has just proved. *)
LEMMA StaysProven ==
    ASSUME SessionsInv, SessionStep \/ UNCHANGED signInVars
    PROVE  Proven'
<1>0. /\ account \in [Identities -> AccountRow] /\ cookie \in [Browsers -> Cookie]
      /\ flow \in [Browsers -> Flow] /\ request \in [Browsers -> Asking] /\ ended \subseteq Cookie
      /\ proved \in [Browsers -> SUBSET Identities] /\ SessionsTyped
      /\ Proven /\ Asked /\ OwnAccount /\ CookiesPast /\ EndedPast
  BY DEF SessionsInv, SessionsTyped
<1>1. ASSUME NEW b \in Browsers, OpenLogin(b) PROVE Proven'
  BY <1>1, <1>0 DEF OpenLogin, Proven
<1>2. ASSUME NEW b \in Browsers, LoginLoads(b) PROVE Proven'
  BY <1>2, <1>0 DEF LoginLoads, Proven
<1>3. ASSUME NEW b \in Browsers, StartOAuth(b) PROVE Proven'
  BY <1>3, <1>0 DEF StartOAuth, Proven
<1>4. ASSUME NEW b \in Browsers, CallbackRefused(b) PROVE Proven'
  BY <1>4, <1>0 DEF CallbackRefused, Proven, NoFlow
<1>5. ASSUME NEW b \in Browsers, NEW i \in Identities, Callback(b, i) PROVE Proven'
  BY <1>5, <1>0, Resolves DEF Callback, Proven
<1>6. ASSUME NEW b \in Browsers, NEW right \in BOOLEAN, SubmitSecret(b, right) PROVE Proven'
  BY <1>6, <1>0, Resolves, Shapes DEF SubmitSecret, Proven
<1>7. ASSUME NEW b \in Browsers, Complete(b) PROVE Proven'
  BY <1>7, <1>0 DEF Complete, Proven, NoFlow
<1>8. ASSUME NEW b \in Browsers, Forbidden(b) PROVE Proven'
  BY <1>8, <1>0 DEF Forbidden, Proven
<1>9. ASSUME NEW b \in Browsers, Logout(b) PROVE Proven'
  BY <1>9, <1>0 DEF Logout, Proven
<1>10. ASSUME NEW b \in Browsers, CookieExpires(b) PROVE Proven'
  BY <1>10, <1>0 DEF CookieExpires, Proven
<1>11. ASSUME NEW b \in Browsers, NEW op \in Ops, Pass(b, op) PROVE Proven'
  BY <1>11, <1>0 DEF Pass, Proven
<1>12. ASSUME NEW b \in Browsers, LogoutAll(b) PROVE Proven'
  BY <1>12, <1>0 DEF LogoutAll, Proven
<1>13. ASSUME NEW i \in Identities, DeleteAccount(i) PROVE Proven'
  BY <1>13, <1>0 DEF DeleteAccount, Proven
<1>14. CASE MinutePasses
  BY <1>14, <1>0 DEF MinutePasses, Proven
<1>15. CASE Beside
  BY <1>15, <1>0 DEF Beside, Proven
<1>16. CASE Rebooted
  BY <1>16, <1>0 DEF Rebooted, Proven, NoFlow
<1>17. CASE UNCHANGED signInVars
  BY <1>17, <1>0 DEF Proven
<1> QED
  BY <1>1, <1>2, <1>3, <1>4, <1>5, <1>6, <1>7, <1>8, <1>9, <1>10, <1>11, <1>12, <1>13,
     <1>14, <1>15, <1>16, <1>17
     DEF SessionStep, SignInNext, Ops

(* A request that passed requireSession is of an account. *)
LEMMA StaysAsked ==
    ASSUME SessionsInv, SessionStep \/ UNCHANGED signInVars
    PROVE  Asked'
<1>0. /\ account \in [Identities -> AccountRow] /\ cookie \in [Browsers -> Cookie]
      /\ flow \in [Browsers -> Flow] /\ request \in [Browsers -> Asking] /\ ended \subseteq Cookie
      /\ proved \in [Browsers -> SUBSET Identities] /\ SessionsTyped
      /\ Proven /\ Asked /\ OwnAccount /\ CookiesPast /\ EndedPast
  BY DEF SessionsInv, SessionsTyped
<1>1. ASSUME NEW b \in Browsers, OpenLogin(b) PROVE Asked'
  BY <1>1, <1>0 DEF OpenLogin, Asked
<1>2. ASSUME NEW b \in Browsers, LoginLoads(b) PROVE Asked'
  BY <1>2, <1>0 DEF LoginLoads, Asked
<1>3. ASSUME NEW b \in Browsers, StartOAuth(b) PROVE Asked'
  BY <1>3, <1>0 DEF StartOAuth, Asked
<1>4. ASSUME NEW b \in Browsers, CallbackRefused(b) PROVE Asked'
  BY <1>4, <1>0 DEF CallbackRefused, Asked
<1>5. ASSUME NEW b \in Browsers, NEW i \in Identities, Callback(b, i) PROVE Asked'
  BY <1>5, <1>0 DEF Callback, Asked
<1>6. ASSUME NEW b \in Browsers, NEW right \in BOOLEAN, SubmitSecret(b, right) PROVE Asked'
  BY <1>6, <1>0 DEF SubmitSecret, Asked
<1>7. ASSUME NEW b \in Browsers, Complete(b) PROVE Asked'
  BY <1>7, <1>0 DEF Complete, Asked
<1>8. ASSUME NEW b \in Browsers, Forbidden(b) PROVE Asked'
  BY <1>8, <1>0 DEF Forbidden, Asked
<1>9. ASSUME NEW b \in Browsers, Logout(b) PROVE Asked'
  BY <1>9, <1>0 DEF Logout, Asked
<1>10. ASSUME NEW b \in Browsers, CookieExpires(b) PROVE Asked'
  BY <1>10, <1>0 DEF CookieExpires, Asked
<1>11. ASSUME NEW b \in Browsers, NEW op \in Ops, Pass(b, op) PROVE Asked'
  BY <1>11, <1>0, Shapes DEF Pass, Asked, Valid, NoCookie
<1>12. ASSUME NEW b \in Browsers, LogoutAll(b) PROVE Asked'
  BY <1>12, <1>0 DEF LogoutAll, Asked, NoRequest
<1>13. ASSUME NEW i \in Identities, DeleteAccount(i) PROVE Asked'
  BY <1>13, <1>0 DEF DeleteAccount, Asked
<1>14. CASE MinutePasses
  BY <1>14, <1>0 DEF MinutePasses, Asked
<1>15. CASE Beside
  BY <1>15, <1>0 DEF Beside, Asked, NoRequest
<1>16. CASE Rebooted
  BY <1>16, <1>0 DEF Rebooted, Asked, NoRequest
<1>17. CASE UNCHANGED signInVars
  BY <1>17, <1>0 DEF Asked
<1> QED
  BY <1>1, <1>2, <1>3, <1>4, <1>5, <1>6, <1>7, <1>8, <1>9, <1>10, <1>11, <1>12, <1>13,
     <1>14, <1>15, <1>16, <1>17
     DEF SessionStep, SignInNext, Ops

(* A cookie is of an identity its browser proved, and of an account. *)
LEMMA StaysOwn ==
    ASSUME SessionsInv, SessionStep \/ UNCHANGED signInVars
    PROVE  OwnAccount'
<1>0. /\ account \in [Identities -> AccountRow] /\ cookie \in [Browsers -> Cookie]
      /\ flow \in [Browsers -> Flow] /\ request \in [Browsers -> Asking] /\ ended \subseteq Cookie
      /\ proved \in [Browsers -> SUBSET Identities] /\ SessionsTyped
      /\ Proven /\ Asked /\ OwnAccount /\ CookiesPast /\ EndedPast
  BY DEF SessionsInv, SessionsTyped
<1>1. ASSUME NEW b \in Browsers, OpenLogin(b) PROVE OwnAccount'
  BY <1>1, <1>0 DEF OpenLogin, OwnAccount
<1>2. ASSUME NEW b \in Browsers, LoginLoads(b) PROVE OwnAccount'
  BY <1>2, <1>0 DEF LoginLoads, OwnAccount
<1>3. ASSUME NEW b \in Browsers, StartOAuth(b) PROVE OwnAccount'
  BY <1>3, <1>0 DEF StartOAuth, OwnAccount
<1>4. ASSUME NEW b \in Browsers, CallbackRefused(b) PROVE OwnAccount'
  BY <1>4, <1>0 DEF CallbackRefused, OwnAccount
<1>5. ASSUME NEW b \in Browsers, NEW i \in Identities, Callback(b, i) PROVE OwnAccount'
  <2>1. \A x \in Browsers : proved[x] \subseteq proved'[x]
    BY <1>5, <1>0 DEF Callback
  <2> QED BY <1>5, <1>0, <2>1 DEF Callback, OwnAccount
<1>6. ASSUME NEW b \in Browsers, NEW right \in BOOLEAN, SubmitSecret(b, right) PROVE OwnAccount'
  <2>1. \A x \in Browsers : proved[x] \subseteq proved'[x]
    BY <1>6, <1>0 DEF SubmitSecret
  <2> QED BY <1>6, <1>0, <2>1 DEF SubmitSecret, OwnAccount
<1>7. ASSUME NEW b \in Browsers, Complete(b) PROVE OwnAccount'
  <2>1. flow[b].who \in Identities /\ flow[b].who \in proved[b]
    BY <1>7, <1>0 DEF Complete, Proven
  <2>2. \A i \in Identities : account[i].exists => account'[i].exists
    BY <1>7, <1>0, <2>1 DEF Complete, AccountOf, AccountRow
  <2>3. \A x \in Browsers \ {b} : cookie'[x] = cookie[x]
    BY <1>7, <1>0 DEF Complete
  <2>4. cookie'[b] = cookie[b] \/ (cookie'[b].account = flow[b].who /\ account'[flow[b].who].exists)
    BY <1>7, <1>0, <2>1 DEF Complete, AccountOf, AccountRow
  <2>5. proved' = proved
    BY <1>7 DEF Complete
  <2> QED BY <1>0, <2>1, <2>2, <2>3, <2>4, <2>5, Shapes DEF OwnAccount
<1>8. ASSUME NEW b \in Browsers, Forbidden(b) PROVE OwnAccount'
  BY <1>8, <1>0 DEF Forbidden, OwnAccount
<1>9. ASSUME NEW b \in Browsers, Logout(b) PROVE OwnAccount'
  BY <1>9, <1>0 DEF Logout, OwnAccount
<1>10. ASSUME NEW b \in Browsers, CookieExpires(b) PROVE OwnAccount'
  BY <1>10, <1>0 DEF CookieExpires, OwnAccount
<1>11. ASSUME NEW b \in Browsers, NEW op \in Ops, Pass(b, op) PROVE OwnAccount'
  BY <1>11, <1>0 DEF Pass, OwnAccount
<1>12. ASSUME NEW b \in Browsers, LogoutAll(b) PROVE OwnAccount'
  <2>1. \A i \in Identities : account'[i].exists = account[i].exists
    BY <1>12, <1>0 DEF LogoutAll, AccountRow
  <2> QED BY <1>12, <1>0, <2>1, Shapes DEF LogoutAll, OwnAccount
<1>13. ASSUME NEW i \in Identities, DeleteAccount(i) PROVE OwnAccount'
  <2>1. \A x \in Identities : account'[x].exists = account[x].exists
    BY <1>13, <1>0 DEF DeleteAccount, AccountRow
  <2> QED BY <1>13, <1>0, <2>1, Shapes DEF DeleteAccount, OwnAccount
<1>14. CASE MinutePasses
  BY <1>14, <1>0 DEF MinutePasses, OwnAccount
<1>15. CASE Beside
  BY <1>15, <1>0 DEF Beside, OwnAccount
<1>16. CASE Rebooted
  BY <1>16, <1>0 DEF Rebooted, OwnAccount
<1>17. CASE UNCHANGED signInVars
  BY <1>17, <1>0 DEF OwnAccount
<1> QED
  BY <1>1, <1>2, <1>3, <1>4, <1>5, <1>6, <1>7, <1>8, <1>9, <1>10, <1>11, <1>12, <1>13,
     <1>14, <1>15, <1>16, <1>17
     DEF SessionStep, SignInNext, Ops

(* Epochs only grow, and a logout everywhere leaves its cookies behind. *)
LEMMA StaysPast ==
    ASSUME SessionsInv, SessionStep \/ UNCHANGED signInVars
    PROVE  CookiesPast' /\ EndedPast'
<1>0. /\ account \in [Identities -> AccountRow] /\ cookie \in [Browsers -> Cookie]
      /\ flow \in [Browsers -> Flow] /\ request \in [Browsers -> Asking] /\ ended \subseteq Cookie
      /\ proved \in [Browsers -> SUBSET Identities] /\ SessionsTyped
      /\ Proven /\ Asked /\ OwnAccount /\ CookiesPast /\ EndedPast
  BY DEF SessionsInv, SessionsTyped
<1>1. ASSUME NEW b \in Browsers, OpenLogin(b) PROVE CookiesPast' /\ EndedPast'
  BY <1>1, <1>0 DEF OpenLogin, CookiesPast, EndedPast
<1>2. ASSUME NEW b \in Browsers, LoginLoads(b) PROVE CookiesPast' /\ EndedPast'
  BY <1>2, <1>0 DEF LoginLoads, CookiesPast, EndedPast
<1>3. ASSUME NEW b \in Browsers, StartOAuth(b) PROVE CookiesPast' /\ EndedPast'
  BY <1>3, <1>0 DEF StartOAuth, CookiesPast, EndedPast
<1>4. ASSUME NEW b \in Browsers, CallbackRefused(b) PROVE CookiesPast' /\ EndedPast'
  BY <1>4, <1>0 DEF CallbackRefused, CookiesPast, EndedPast
<1>5. ASSUME NEW b \in Browsers, NEW i \in Identities, Callback(b, i) PROVE CookiesPast' /\ EndedPast'
  BY <1>5, <1>0 DEF Callback, CookiesPast, EndedPast
<1>6. ASSUME NEW b \in Browsers, NEW right \in BOOLEAN, SubmitSecret(b, right) PROVE CookiesPast' /\ EndedPast'
  BY <1>6, <1>0 DEF SubmitSecret, CookiesPast, EndedPast
<1>7. ASSUME NEW b \in Browsers, Complete(b) PROVE CookiesPast' /\ EndedPast'
  <2>1. flow[b].who \in Identities
    BY <1>7, <1>0 DEF Complete, Proven
  <2>2. \A i \in Identities : account'[i].epoch = account[i].epoch /\ account[i].epoch \in Nat
    BY <1>7, <1>0, <2>1 DEF Complete, AccountOf, AccountRow
  <2>3. \A x \in Browsers \ {b} : cookie'[x] = cookie[x]
    BY <1>7, <1>0 DEF Complete
  <2>4. cookie'[b] = cookie[b] \/ cookie'[b] = [account |-> flow[b].who, epoch |-> account[flow[b].who].epoch]
    BY <1>7, <1>0, <2>1 DEF Complete, AccountOf
  <2>5. ended' = ended
    BY <1>7 DEF Complete
  <2> QED BY <1>0, <2>1, <2>2, <2>3, <2>4, <2>5, Shapes DEF CookiesPast, EndedPast
<1>8. ASSUME NEW b \in Browsers, Forbidden(b) PROVE CookiesPast' /\ EndedPast'
  BY <1>8, <1>0 DEF Forbidden, CookiesPast, EndedPast
<1>9. ASSUME NEW b \in Browsers, Logout(b) PROVE CookiesPast' /\ EndedPast'
  BY <1>9, <1>0 DEF Logout, CookiesPast, EndedPast
<1>10. ASSUME NEW b \in Browsers, CookieExpires(b) PROVE CookiesPast' /\ EndedPast'
  BY <1>10, <1>0 DEF CookieExpires, CookiesPast, EndedPast
<1>11. ASSUME NEW b \in Browsers, NEW op \in Ops, Pass(b, op) PROVE CookiesPast' /\ EndedPast'
  BY <1>11, <1>0 DEF Pass, CookiesPast, EndedPast
<1>12. ASSUME NEW b \in Browsers, LogoutAll(b) PROVE CookiesPast' /\ EndedPast'
  <2> DEFINE a == request[b].account
  <2>1. a \in Identities
    BY <1>12, <1>0 DEF LogoutAll, Asked
  <2>2. /\ account[a].epoch \in Nat /\ account'[a].epoch = account[a].epoch + 1
        /\ \A i \in Identities \ {a} : account'[i].epoch = account[i].epoch
    BY <1>12, <1>0, <2>1 DEF LogoutAll, NextEpoch, AccountRow
  <2>3. \A x \in Browsers : cookie'[x] = NoCookie \/ cookie'[x] = cookie[x]
    BY <1>12, <1>0 DEF LogoutAll
  <2>4. \A c \in Cookie : c # NoCookie => c.account \in Identities /\ c.epoch \in Nat
    BY Shapes
  <2>5. \A c \in ended' : c \in ended \/ \E x \in Browsers : c = cookie[x] /\ c.account = a
    BY <1>12 DEF LogoutAll
  <2>6. NoCookie.account \notin Identities
    BY Shapes DEF NoCookie
  <2> HIDE DEF a
  <2>7. CookiesPast'
    BY <1>0, <2>1, <2>2, <2>3, <2>4 DEF CookiesPast
  <2>8. EndedPast'
    <3> SUFFICES ASSUME NEW c \in ended'
                 PROVE  c.account \in Identities /\ c.epoch < account'[c.account].epoch
      BY DEF EndedPast
    <3>1. CASE c \in ended
      BY <1>0, <2>1, <2>2, <2>4, <2>6, <3>1 DEF EndedPast
    <3>2. ASSUME NEW x \in Browsers, c = cookie[x], c.account = a
          PROVE  c.account \in Identities /\ c.epoch < account'[c.account].epoch
      <4>1. cookie[x] # NoCookie /\ c.epoch \in Nat
        BY <1>0, <2>1, <2>4, <2>6, <3>2
      <4>2. c.epoch <= account[a].epoch
        BY <1>0, <3>2, <4>1 DEF CookiesPast
      <4> QED BY <2>1, <2>2, <3>2, <4>1, <4>2
    <3> QED BY <2>5, <3>1, <3>2
  <2> QED BY <2>7, <2>8
<1>13. ASSUME NEW i \in Identities, DeleteAccount(i) PROVE CookiesPast' /\ EndedPast'
  <2>1. \A x \in Identities : account'[x].epoch = account[x].epoch
    BY <1>13, <1>0 DEF DeleteAccount, AccountRow
  <2> QED BY <1>13, <1>0, <2>1, Shapes DEF DeleteAccount, CookiesPast, EndedPast
<1>14. CASE MinutePasses
  BY <1>14, <1>0 DEF MinutePasses, CookiesPast, EndedPast
<1>15. CASE Beside
  BY <1>15, <1>0 DEF Beside, CookiesPast, EndedPast
<1>16. CASE Rebooted
  BY <1>16, <1>0 DEF Rebooted, CookiesPast, EndedPast
<1>17. CASE UNCHANGED signInVars
  BY <1>17, <1>0 DEF CookiesPast, EndedPast
<1> QED
  BY <1>1, <1>2, <1>3, <1>4, <1>5, <1>6, <1>7, <1>8, <1>9, <1>10, <1>11, <1>12, <1>13,
     <1>14, <1>15, <1>16, <1>17
     DEF SessionStep, SignInNext, Ops

(* What an attempt leaves in the bucket, and whether it is admitted. *)
LEMMA Admits ==
    ASSUME NEW k \in Level, minute \in Nat, k.last <= minute
    PROVE  \E held \in Nat :
             /\ held <= Capacity /\ held <= k.tokens + (minute - k.last)
             /\ Attempt(k).last = minute
             /\ \/ held = 0 /\ Attempt(k).tokens = 0 /\ ~Attempt(k).admitted
                \/ held >= 1 /\ Attempt(k).tokens = held - 1 /\ Attempt(k).admitted
<1>1. k.tokens \in Nat /\ k.last \in Nat /\ Capacity \in Nat
  BY Shapes DEF Level
<1>2. PICK full \in Nat : full = k.tokens + (minute - k.last)
  BY <1>1
<1>3. PICK held \in Nat : held = IF full > Capacity THEN Capacity ELSE full
  BY <1>1
<1>4. held <= Capacity /\ held <= full
  BY <1>1, <1>3
<1>5. Attempt(k) = [tokens |-> IF held >= 1 THEN held - 1 ELSE held, last |-> minute, admitted |-> held >= 1]
  BY <1>2, <1>3 DEF Attempt
<1>6. CASE held = 0
  <2>1. (held >= 1) = FALSE /\ (IF held >= 1 THEN held - 1 ELSE held) = 0
    BY <1>6
  <2>2. Attempt(k) = [tokens |-> 0, last |-> minute, admitted |-> FALSE]
    BY <1>5, <2>1, Zenon
  <2> QED BY <1>2, <1>4, <1>6, <2>2
<1>7. CASE held >= 1
  <2>1. (held >= 1) = TRUE /\ (IF held >= 1 THEN held - 1 ELSE held) = held - 1
    BY <1>7
  <2>2. Attempt(k) = [tokens |-> held - 1, last |-> minute, admitted |-> TRUE]
    BY <1>5, <2>1, Zenon
  <2> QED BY <1>2, <1>4, <1>7, <2>2
<1> QED BY <1>6, <1>7

(* Time that passes lets no more through than it lets in. *)
LEMMA FlowsIn ==
    ASSUME NEW c \in Nat, NEW t \in Nat, NEW l \in Nat, NEW w \in Nat, NEW left \in Nat, NEW n \in Nat,
           NEW m \in Nat, NEW q \in Nat, l <= w, left <= t + (w - l),
           q <= l, t + n - m + 1 <= c + l - q
    PROVE  q <= w /\ left + n - m + 1 <= c + w - q
OBVIOUS

(* The same sum, of one guess more and one token less. *)
LEMMA Rewritten ==
    ASSUME NEW c \in Nat, NEW w \in Nat, NEW left \in Nat, NEW n \in Nat, NEW m \in Nat, NEW q \in Nat,
           (left + 1) + n - m + 1 <= c + w - q
    PROVE  left + (n + 1) - m + 1 <= c + w - q /\ (n + 1) - m + 1 <= c + (w - q)
OBVIOUS

(* An attempt on a bucket keeps the account of it. *)
LEMMA Drips ==
    ASSUME NEW t \in Nat, NEW l \in Nat, NEW w \in Nat, NEW left \in Nat, l <= w,
           NEW g \in Seq(Nat), NEW h, Takes(g, t, l, w, h, left), Filled(g, t, l), Spread(g)
    PROVE  Filled(h, left, w) /\ Spread(h)
<1> DEFINE c == Capacity
<1>0. /\ c \in Nat
      /\ \A m \in 1..Len(g) : g[m] <= l /\ t + Len(g) - m + 1 <= c + l - g[m]
      /\ \A m, o \in 1..Len(g) : m <= o => o - m + 1 <= c + (g[o] - g[m])
  BY Shapes DEF Filled, Spread
<1> HIDE DEF c
<1> SUFFICES /\ \A m \in 1..Len(h) : h[m] <= w /\ left + Len(h) - m + 1 <= c + w - h[m]
             /\ \A m, o \in 1..Len(h) : m <= o => o - m + 1 <= c + (h[o] - h[m])
  BY DEF Filled, Spread, c
<1>3. PICK held \in Nat : /\ held <= c /\ held <= t + (w - l)
                          /\ \/ held = 0 /\ left = 0 /\ h = g
                             \/ held >= 1 /\ left = held - 1 /\ h = Append(g, w)
  BY DEF Takes, c
<1>1. CASE held = 0 /\ left = 0 /\ h = g
  <2>1. ASSUME NEW m \in 1..Len(g) PROVE g[m] <= w /\ left + Len(g) - m + 1 <= c + w - g[m]
    <3>1. g[m] \in Nat /\ m \in Nat /\ Len(g) \in Nat
      OBVIOUS
    <3>2. g[m] <= l /\ t + Len(g) - m + 1 <= c + l - g[m]
      BY <1>0
    <3>3. left <= t + (w - l)
      BY <1>1, <1>3
    <3> QED BY <1>0, <3>1, <3>2, <3>3, FlowsIn
  <2> QED BY <1>0, <1>1, <2>1
<1>2. CASE held >= 1 /\ left = held - 1 /\ h = Append(g, w)
  <2>1. PICK n \in Nat : n = Len(g)
    OBVIOUS
  <2>2. /\ Len(h) = n + 1 /\ h[n + 1] = w /\ \A m \in 1..n : h[m] = g[m]
        /\ \A m \in 1..Len(h) : m = n + 1 \/ m \in 1..n
    BY <1>2, <2>1
  <2>3. ASSUME NEW m \in 1..n
        PROVE  /\ h[m] \in Nat /\ m \in Nat /\ h[m] <= w
               /\ left + (n + 1) - m + 1 <= c + w - h[m] /\ (n + 1) - m + 1 <= c + (w - h[m])
    <3>1. g[m] \in Nat /\ m \in Nat /\ h[m] = g[m]
      BY <2>1, <2>2
    <3>2. g[m] <= l /\ t + n - m + 1 <= c + l - g[m]
      BY <1>0, <2>1
    <3>3. left + 1 \in Nat /\ left + 1 <= t + (w - l) /\ n \in Nat
      BY <1>2, <1>3, <2>1
    <3>4. PICK q \in Nat, x \in Nat : q = g[m] /\ x = left + 1
      BY <3>1, <3>3
    <3>5. q <= l /\ t + n - m + 1 <= c + l - q /\ x <= t + (w - l) /\ c \in Nat
      BY <1>0, <3>2, <3>3, <3>4
    <3>6. q <= w /\ x + n - m + 1 <= c + w - q
      BY <3>1, <3>3, <3>5, FlowsIn
    <3>7. g[m] <= w /\ (left + 1) + n - m + 1 <= c + w - g[m] /\ c \in Nat
      BY <3>4, <3>5, <3>6
    <3> QED BY <3>1, <3>3, <3>7, Rewritten
  <2>4. w <= w /\ left + (n + 1) - (n + 1) + 1 <= c + w - w /\ (n + 1) - (n + 1) + 1 <= c + (w - w)
    BY <1>0, <1>2, <1>3, <2>1
  <2>5. \A m \in 1..Len(h) : h[m] <= w /\ left + Len(h) - m + 1 <= c + w - h[m]
    BY <2>2, <2>3, <2>4
  <2>6. ASSUME NEW m \in 1..Len(h), NEW o \in 1..Len(h), m <= o
        PROVE  o - m + 1 <= c + (h[o] - h[m])
    <3>1. CASE o \in 1..n /\ m \in 1..n
      BY <1>0, <2>1, <2>2, <2>6, <3>1
    <3>2. CASE o = n + 1 /\ m \in 1..n
      BY <2>2, <2>3, <3>2
    <3>3. CASE o = n + 1 /\ m = n + 1
      BY <2>2, <2>4, <3>3
    <3>4. o = n + 1 \/ m \in 1..n
      BY <2>1, <2>2, <2>6
    <3> QED BY <2>2, <3>1, <3>2, <3>3, <3>4
  <2> QED BY <2>5, <2>6
<1> QED BY <1>1, <1>2, <1>3

(* The bucket drips: what it admits is bounded over any stretch of time. *)
LEMMA StaysDripping ==
    ASSUME SessionsInv, SessionStep \/ UNCHANGED signInVars
    PROVE  Dripping'
<1>0. /\ bucket \in [Browsers -> Level] /\ guesses \in [Browsers -> Seq(0..MaxMinutes)]
      /\ minute \in 0..MaxMinutes /\ Dripping
  BY DEF SessionsInv, SessionsTyped
<1>1. ASSUME NEW b \in Browsers, OpenLogin(b) PROVE Dripping'
  BY <1>1, <1>0 DEF OpenLogin, Dripping, Metered, GuessesBounded
<1>2. ASSUME NEW b \in Browsers, LoginLoads(b) PROVE Dripping'
  BY <1>2, <1>0 DEF LoginLoads, Dripping, Metered, GuessesBounded
<1>3. ASSUME NEW b \in Browsers, StartOAuth(b) PROVE Dripping'
  BY <1>3, <1>0 DEF StartOAuth, Dripping, Metered, GuessesBounded
<1>4. ASSUME NEW b \in Browsers, CallbackRefused(b) PROVE Dripping'
  BY <1>4, <1>0 DEF CallbackRefused, Dripping, Metered, GuessesBounded
<1>5. ASSUME NEW b \in Browsers, NEW i \in Identities, Callback(b, i) PROVE Dripping'
  BY <1>5, <1>0 DEF Callback, Dripping, Metered, GuessesBounded
<1>6. ASSUME NEW b \in Browsers, NEW right \in BOOLEAN, SubmitSecret(b, right) PROVE Dripping'
  <2>0. PICK h : h = guesses'[b]
    OBVIOUS
  <2>1. PICK k \in Level, g \in Seq(0..MaxMinutes) : k = bucket[b] /\ g = guesses[b]
    BY <1>0
  <2>2. k.last <= minute /\ minute \in Nat /\ k.last \in Nat /\ k.tokens \in Nat /\ Capacity \in Nat
    BY <1>0, <2>1, Shapes DEF Level, Dripping
  <2>3. PICK held \in Nat :
          /\ held <= Capacity /\ held <= k.tokens + (minute - k.last)
          /\ Attempt(k).last = minute
          /\ \/ held = 0 /\ Attempt(k).tokens = 0 /\ ~Attempt(k).admitted
             \/ held >= 1 /\ Attempt(k).tokens = held - 1 /\ Attempt(k).admitted
    BY <1>0, <2>2, Admits
  <2>4. /\ bucket' = [bucket EXCEPT ![b] = [tokens |-> Attempt(k).tokens, last |-> Attempt(k).last]]
        /\ guesses' = IF Attempt(k).admitted THEN [guesses EXCEPT ![b] = Append(guesses[b], minute)] ELSE guesses
        /\ minute' = minute
    BY <1>6, <2>1 DEF SubmitSecret
  <2>5. /\ \A x \in Browsers \ {b} : bucket'[x] = bucket[x] /\ guesses'[x] = guesses[x]
        /\ bucket'[b].tokens = Attempt(k).tokens /\ bucket'[b].last = minute
    BY <1>0, <2>3, <2>4
  <2>6. PICK left \in Nat : left = bucket'[b].tokens
    BY <2>3, <2>5
  <2>7. Takes(g, k.tokens, k.last, minute, h, left)
    <3>1. CASE held = 0
      BY <2>0, <2>1, <2>3, <2>4, <2>5, <2>6, <3>1 DEF Takes
    <3>2. CASE held >= 1
      BY <1>0, <2>0, <2>1, <2>3, <2>4, <2>5, <2>6, <3>2 DEF Takes
    <3> QED BY <2>3, <3>1, <3>2
  <2>8. g \in Seq(Nat)
    BY <2>1, Shapes
  <2>9. Filled(g, k.tokens, k.last) /\ Spread(g)
    BY <1>0, <2>1 DEF Dripping, Metered, GuessesBounded, Spread
  <2>10. Filled(h, left, minute) /\ Spread(h)
    BY <2>2, <2>7, <2>8, <2>9, Drips
  <2>11. \A x \in Browsers : bucket'[x].last <= minute'
    BY <1>0, <2>2, <2>4, <2>5 DEF Dripping
  <2>12. Metered'
    BY <1>0, <2>0, <2>5, <2>6, <2>10 DEF Dripping, Metered
  <2>13. GuessesBounded'
    BY <1>0, <2>0, <2>5, <2>10 DEF Dripping, GuessesBounded, Spread
  <2> QED BY <2>11, <2>12, <2>13 DEF Dripping
<1>7. ASSUME NEW b \in Browsers, Complete(b) PROVE Dripping'
  BY <1>7, <1>0 DEF Complete, Dripping, Metered, GuessesBounded
<1>8. ASSUME NEW b \in Browsers, Forbidden(b) PROVE Dripping'
  BY <1>8, <1>0 DEF Forbidden, Dripping, Metered, GuessesBounded
<1>9. ASSUME NEW b \in Browsers, Logout(b) PROVE Dripping'
  BY <1>9, <1>0 DEF Logout, Dripping, Metered, GuessesBounded
<1>10. ASSUME NEW b \in Browsers, CookieExpires(b) PROVE Dripping'
  BY <1>10, <1>0 DEF CookieExpires, Dripping, Metered, GuessesBounded
<1>11. ASSUME NEW b \in Browsers, NEW op \in Ops, Pass(b, op) PROVE Dripping'
  BY <1>11, <1>0 DEF Pass, Dripping, Metered, GuessesBounded
<1>12. ASSUME NEW b \in Browsers, LogoutAll(b) PROVE Dripping'
  BY <1>12, <1>0 DEF LogoutAll, Dripping, Metered, GuessesBounded
<1>13. ASSUME NEW i \in Identities, DeleteAccount(i) PROVE Dripping'
  BY <1>13, <1>0 DEF DeleteAccount, Dripping, Metered, GuessesBounded
<1>14. CASE MinutePasses
  <2>1. \A b \in Browsers : bucket[b].last <= minute'
    BY <1>14, <1>0, Shapes DEF MinutePasses, Dripping, Level
  <2> QED BY <1>14, <1>0, <2>1 DEF MinutePasses, Dripping, Metered, GuessesBounded
<1>15. CASE Beside
  BY <1>15, <1>0 DEF Beside, Dripping, Metered, GuessesBounded
<1>16. CASE Rebooted
  <2>1. \A b \in Browsers : bucket'[b].last = minute /\ guesses'[b] = <<>>
    BY <1>16 DEF Rebooted
  <2>2. \A b \in Browsers : 1..Len(guesses'[b]) = {}
    BY <2>1
  <2>3. minute' = minute
    BY <1>16 DEF Rebooted
  <2> QED BY <1>0, <2>1, <2>2, <2>3, Shapes DEF Dripping, Metered, Filled, GuessesBounded
<1>17. CASE UNCHANGED signInVars
  BY <1>17, <1>0 DEF Dripping, Metered, GuessesBounded
<1> QED
  BY <1>1, <1>2, <1>3, <1>4, <1>5, <1>6, <1>7, <1>8, <1>9, <1>10, <1>11, <1>12, <1>13,
     <1>14, <1>15, <1>16, <1>17
     DEF SessionStep, SignInNext, Ops

(* The sessions' invariant is inductive. *)
LEMMA SessionsKept == SessionsInv /\ (SessionStep \/ UNCHANGED signInVars) => SessionsInv'
BY SessionsStayTyped, StaysProven, StaysAsked, StaysOwn, StaysPast, StaysDripping DEF SessionsInv

(* It holds at the start. *)
LEMMA SessionsStart == SignInInit => SessionsInv
<1> SUFFICES ASSUME SignInInit PROVE SessionsInv
  OBVIOUS
<1>1. /\ offer \in Deployments /\ minute = 0 /\ ended = {} /\ events = 0
      /\ cookie \in [Browsers -> [account : Identities, epoch : {0}] \cup {NoCookie}]
      /\ proved = [b \in Browsers |-> {cookie[b].account} \ {None}]
      /\ account = [i \in Identities |->
           [exists |-> \E b \in Browsers : cookie[b].account = i, epoch |-> 0, deleted |-> FALSE]]
      /\ flow = [b \in Browsers |-> NoFlow] /\ request = [b \in Browsers |-> NoRequest]
      /\ bucket = [b \in Browsers |-> [tokens |-> Capacity, last |-> 0]]
      /\ guesses = [b \in Browsers |-> <<>>]
  BY DEF SignInInit
<1>2. \A b \in Browsers : cookie[b] = NoCookie \/ (cookie[b].account \in Identities /\ cookie[b].epoch = 0
                            /\ cookie[b] = [account |-> cookie[b].account, epoch |-> 0])
  BY <1>1
<1>3. cookie \in [Browsers -> Cookie]
  BY <1>1, <1>2, Shapes
<1>4. account \in [Identities -> AccountRow]
  BY <1>1 DEF AccountRow
<1>5. page \in [Browsers -> PageStates]
  BY DEF SignInInit, PageStates
<1>6. proved \in [Browsers -> SUBSET Identities]
  BY <1>1, <1>2 DEF NoCookie
<1>7. flow \in [Browsers -> Flow] /\ request \in [Browsers -> Asking]
  BY <1>1, Shapes
<1>8. bucket \in [Browsers -> Level] /\ minute \in 0..MaxMinutes /\ events \in 0..MaxEvents
  BY <1>1, Shapes DEF Level
<1>9. guesses \in [Browsers -> Seq(0..MaxMinutes)]
  BY <1>1
<1>10. SessionsTyped
  BY <1>1, <1>3, <1>4, <1>5, <1>6, <1>7, <1>8, <1>9 DEF SessionsTyped
<1>11. Proven /\ Asked
  BY <1>1 DEF Proven, Asked, NoFlow, NoRequest
<1>12. CookiesPast /\ EndedPast
  BY <1>1, <1>2 DEF CookiesPast, EndedPast
<1>13. OwnAccount
  BY <1>1, <1>2, Shapes DEF OwnAccount
<1>14. \A b \in Browsers : 1..Len(guesses[b]) = {}
  BY <1>1
<1>15. Dripping
  BY <1>1, <1>14, Shapes DEF Dripping, Metered, Filled, GuessesBounded
<1> QED BY <1>10, <1>11, <1>12, <1>13, <1>15 DEF SessionsInv

(***************************************************************************)
(* Grants: codes, redemptions, tiers.                                      *)
(***************************************************************************)
TierRow == [tier : {"free", "pro"}, expires : Nat]
Tx == [code : 0..MaxCodes, base : Nat]

(* PromoTypeOK, with its sets named *)
GrantsTyped ==
    /\ now \in 0..MaxNow /\ codes \in Seq(0..(MaxNow + Validity)) /\ Len(codes) <= MaxCodes
    /\ redeemed \subseteq (1..MaxCodes) \X Identities /\ tier \in [Identities -> TierRow]
    /\ redeeming \in [Browsers -> Tx] /\ timer \in 0..(MaxNow + GenEvery) /\ booting \in BOOLEAN

(* A transaction that is under way redeems for the account whose row it has  *)
(* locked, alone, from the window that the row still says.                  *)
Redeems ==
    \A b \in Browsers : redeeming[b] # NoTx =>
        /\ request[b].op = "redeem" /\ request[b].account \in Identities
        /\ redeeming[b].code \in 1..MaxCodes
        /\ redeeming[b].base >= tier[request[b].account].expires /\ redeeming[b].base >= now
Alone ==
    \A b, x \in Browsers :
        redeeming[b] # NoTx /\ redeeming[x] # NoTx /\ request[b].account = request[x].account => b = x

GrantsInv == GrantsTyped /\ Redeems /\ Alone /\ ProKept /\ TierCapped

(* What the rest does to grants: requests that redeem are not its to answer. *)
Aside ==
    /\ UNCHANGED promoVars
    /\ \A b \in Browsers : request[b].op = "redeem" /\ redeeming[b] # NoTx => request'[b] = request[b]

GrantStep ==
    \/ EnsureCurrentCode \/ GenerateCode \/ Tick \/ Lapse \/ Restart \/ Aside
    \/ \E b \in Browsers : Commit(b) \/ \E c \in 0..MaxCodes : Begin(b, c)

(* The sets that the types are named by. *)
LEMMA GrantTypes == GrantsTyped <=> PromoTypeOK
BY DEF PromoTypeOK, GrantsTyped, TierRow, Tx

(* The constants of the codes are numbers. *)
LEMMA Amounts ==
    /\ Duration \in Nat /\ Validity \in Nat /\ TierCap \in Nat /\ GenEvery \in Nat
    /\ MaxCodes \in Nat /\ MaxNow \in Nat
    /\ NoTx \in Tx /\ NoTx = [code |-> 0, base |-> 0]
BY PromoAssumption DEF NoTx, Tx

(* A code that is made is the newest of those there may be. *)
LEMMA CodeMade ==
    ASSUME GrantsTyped, GenerateAutoCode, Len(codes) < MaxCodes
    PROVE  codes' \in Seq(0..(MaxNow + Validity)) /\ Len(codes') <= MaxCodes
<1>1. now + Validity \in 0..(MaxNow + Validity)
  BY Amounts DEF GrantsTyped
<1> QED BY <1>1, Amounts DEF GrantsTyped, GenerateAutoCode

(* Every step keeps the types of the grants. *)
LEMMA GrantsStayTyped ==
    ASSUME GrantsInv, Asked, GrantStep
    PROVE  GrantsTyped'
<1>0. /\ now \in 0..MaxNow /\ codes \in Seq(0..(MaxNow + Validity)) /\ Len(codes) <= MaxCodes
      /\ redeemed \subseteq (1..MaxCodes) \X Identities /\ tier \in [Identities -> TierRow]
      /\ redeeming \in [Browsers -> Tx] /\ timer \in 0..(MaxNow + GenEvery) /\ booting \in BOOLEAN
      /\ Redeems /\ GrantsTyped
  BY DEF GrantsInv, GrantsTyped
<1>1. CASE EnsureCurrentCode
  <2>1. codes' \in Seq(0..(MaxNow + Validity)) /\ Len(codes') <= MaxCodes
    BY <1>0, <1>1, CodeMade DEF EnsureCurrentCode
  <2> QED BY <1>0, <1>1, <2>1 DEF EnsureCurrentCode, GrantsTyped
<1>2. CASE GenerateCode
  <2>1. codes' \in Seq(0..(MaxNow + Validity)) /\ Len(codes') <= MaxCodes
    BY <1>0, <1>2, CodeMade DEF GenerateCode
  <2>2. timer' \in 0..(MaxNow + GenEvery)
    BY <1>0, <1>2, Amounts DEF GenerateCode
  <2> QED BY <1>0, <1>2, <2>1, <2>2 DEF GenerateCode, GrantsTyped
<1>3. CASE Tick
  <2>1. now' \in 0..MaxNow
    BY <1>0, <1>3, Amounts DEF Tick
  <2> QED BY <1>0, <1>3, <2>1 DEF Tick, GrantsTyped
<1>4. CASE Lapse
  <2>1. \A r \in TierRow : [r EXCEPT !.tier = "free"] \in TierRow
    BY DEF TierRow
  <2>2. tier' \in [Identities -> TierRow]
    BY <1>0, <1>4, <2>1 DEF Lapse
  <2> QED BY <1>0, <1>4, <2>2 DEF Lapse, GrantsTyped
<1>5. CASE Restart
  <2>1. timer' \in 0..(MaxNow + GenEvery)
    BY <1>0, <1>5, Amounts DEF Restart
  <2>2. redeeming' \in [Browsers -> Tx]
    BY <1>0, <1>5, Amounts DEF Restart
  <2> QED BY <1>0, <1>5, <2>1, <2>2 DEF Restart, GrantsTyped
<1>6. CASE Aside
  BY <1>0, <1>6 DEF Aside, GrantsTyped
<1>7. ASSUME NEW b \in Browsers, Commit(b) PROVE GrantsTyped'
  <2>1. PICK a \in Identities, c \in 1..MaxCodes, t \in Nat :
          a = request[b].account /\ c = redeeming[b].code /\ t = redeeming[b].base
    BY <1>0, <1>7 DEF Commit, Redeems, Tx
  <2>2. redeemed' \subseteq (1..MaxCodes) \X Identities
    BY <1>0, <1>7, <2>1 DEF Commit
  <2>3. Capped(t + Duration) \in Nat
    BY <1>0, <2>1, Amounts DEF Capped
  <2>4. [tier |-> "pro", expires |-> Capped(t + Duration)] \in TierRow
    BY <2>3 DEF TierRow
  <2>5. tier' \in [Identities -> TierRow]
    BY <1>0, <1>7, <2>1, <2>4 DEF Commit
  <2>6. redeeming' \in [Browsers -> Tx]
    BY <1>0, <1>7, Amounts DEF Commit
  <2> QED BY <1>0, <1>7, <2>2, <2>5, <2>6 DEF Commit, GrantsTyped
<1>8. ASSUME NEW b \in Browsers, NEW c \in 0..MaxCodes, Begin(b, c) PROVE GrantsTyped'
  <2>1. PICK a \in Identities : a = request[b].account
    BY <1>8 DEF Begin, Asked
  <2>2. tier[a].expires \in Nat /\ now \in Nat
    BY <1>0, <2>1 DEF TierRow
  <2>3. PICK t \in Nat : t = IF tier[a].expires > now THEN tier[a].expires ELSE now
    BY <2>2
  <2>4. redeeming' \in [Browsers -> Tx]
    BY <1>0, <1>8, <2>1, <2>3 DEF Begin, Tx
  <2> QED BY <1>0, <1>8, <2>4 DEF Begin, GrantsTyped
<1> QED
  BY <1>1, <1>2, <1>3, <1>4, <1>5, <1>6, <1>7, <1>8 DEF GrantStep

(* A transaction keeps its row: nobody else's redemption gets to it. *)
LEMMA RedeemsAlone ==
    ASSUME GrantsInv, Asked, GrantStep
    PROVE  Redeems' /\ Alone'
<1>0. /\ now \in Nat /\ tier \in [Identities -> TierRow] /\ redeeming \in [Browsers -> Tx]
      /\ \A a \in Identities : tier[a].expires \in Nat
      /\ Redeems /\ Alone /\ Len(codes) \in Nat /\ Len(codes) <= MaxCodes
  BY Amounts DEF GrantsInv, GrantsTyped, TierRow
<1>1. ASSUME UNCHANGED <<request, redeeming, now>>, \A a \in Identities : tier'[a].expires = tier[a].expires
      PROVE  Redeems' /\ Alone'
  BY <1>0, <1>1 DEF Redeems, Alone
<1>2. CASE EnsureCurrentCode
  BY <1>1, <1>2 DEF EnsureCurrentCode
<1>3. CASE GenerateCode
  BY <1>1, <1>3 DEF GenerateCode
<1>4. CASE Lapse
  <2>1. \A a \in Identities : tier'[a].expires = tier[a].expires
    BY <1>0, <1>4 DEF Lapse, TierRow
  <2> QED BY <1>1, <1>4, <2>1 DEF Lapse
<1>5. CASE Tick \/ Restart
  <2>1. \A b \in Browsers : redeeming'[b] = NoTx
    BY <1>5 DEF Tick, Restart
  <2> QED BY <2>1 DEF Redeems, Alone
<1>6. CASE Aside
  <2>1. \A b \in Browsers : redeeming[b] # NoTx => request'[b] = request[b]
    BY <1>0, <1>6 DEF Aside, Redeems
  <2> QED BY <1>0, <1>6, <2>1 DEF Aside, Redeems, Alone
<1>7. ASSUME NEW b \in Browsers, Commit(b) PROVE Redeems' /\ Alone'
  <2> DEFINE a == request[b].account
  <2>1. /\ redeeming[b] # NoTx /\ redeeming' = [redeeming EXCEPT ![b] = NoTx] /\ now' = now
        /\ request' = [request EXCEPT ![b] = NoRequest]
        /\ tier' = tier \/ \E r : tier' = [tier EXCEPT ![a] = r]
    BY <1>7 DEF Commit, Answer
  <2>2. redeeming'[b] = NoTx
    BY <1>0, <2>1
  <2>3. \A x \in Browsers \ {b} :
          /\ redeeming'[x] = redeeming[x] /\ request'[x] = request[x]
          /\ redeeming[x] # NoTx => request[x].account # a
    BY <1>0, <2>1 DEF Alone
  <2>4. \A i \in Identities \ {a} : tier'[i] = tier[i]
    BY <1>0, <2>1
  <2> HIDE DEF a
  <2>5. Redeems'
    BY <1>0, <2>1, <2>2, <2>3, <2>4 DEF Redeems
  <2>6. Alone'
    BY <1>0, <2>2, <2>3 DEF Alone
  <2> QED BY <2>5, <2>6
<1>8. ASSUME NEW b \in Browsers, NEW c \in 0..MaxCodes, Begin(b, c) PROVE Redeems' /\ Alone'
  <2>1. PICK a \in Identities : a = request[b].account
    BY <1>8 DEF Begin, Asked
  <2>2. PICK e \in Nat, t \in Nat : /\ e = tier[a].expires /\ t = (IF e > now THEN e ELSE now)
                                    /\ t >= e /\ t >= now
    BY <1>0, <2>1
  <2>3. /\ redeeming' = [redeeming EXCEPT ![b] = [code |-> c, base |-> t]]
        /\ request' = request /\ now' = now /\ tier' = tier
        /\ request[b].op = "redeem" /\ c \in 1..MaxCodes
    BY <1>0, <1>8, <2>1, <2>2, Amounts DEF Begin
  <2>4. \A x \in Browsers : redeeming[x] # NoTx => request[x].account # a
    BY <1>8, <2>1 DEF Begin, Locked
  <2>5. redeeming'[b].code = c /\ redeeming'[b].base = t /\ \A x \in Browsers \ {b} : redeeming'[x] = redeeming[x]
    BY <1>0, <2>3
  <2>6. Redeems'
    BY <1>0, <2>1, <2>2, <2>3, <2>5 DEF Redeems
  <2>7. Alone'
    BY <1>0, <2>1, <2>3, <2>4, <2>5 DEF Alone
  <2> QED BY <2>6, <2>7
<1> QED
  BY <1>2, <1>3, <1>4, <1>5, <1>6, <1>7, <1>8 DEF GrantStep

(* What a commit makes of a window. *)
LEMMA Extends ==
    ASSUME GrantsInv, NEW b \in Browsers, Commit(b)
    PROVE  \E a \in Identities, c \in 1..MaxCodes, e \in Nat :
             /\ redeemed' = redeemed \cup {<<c, a>>} /\ now' = now
             /\ e <= now + TierCap
             /\ e = now + TierCap \/ (e >= tier[a].expires + Duration /\ e >= now + Duration)
             /\ tier' = tier \/ tier' = [tier EXCEPT ![a] = [tier |-> "pro", expires |-> e]]
             /\ <<c, a>> \notin redeemed => tier' = [tier EXCEPT ![a] = [tier |-> "pro", expires |-> e]]
<1>1. PICK a \in Identities, c \in 1..MaxCodes, t \in Nat :
        /\ a = request[b].account /\ c = redeeming[b].code /\ t = redeeming[b].base
        /\ t >= tier[a].expires /\ t >= now
  BY DEF Commit, Redeems, Tx, GrantsInv, GrantsTyped
<1>2. PICK n \in Nat, x \in Nat, d \in Nat, w \in Nat :
        n = now /\ x = tier[a].expires /\ d = Duration /\ w = TierCap
  BY <1>1, Amounts DEF GrantsInv, GrantsTyped, TierRow
<1>3. PICK e \in Nat : e = IF t + d > n + w THEN n + w ELSE t + d
  BY <1>1, <1>2
<1>4. e <= n + w /\ (e = n + w \/ (e >= x + d /\ e >= n + d))
  BY <1>1, <1>2, <1>3
<1>5. Capped(t + Duration) = e
  BY <1>2, <1>3 DEF Capped
<1>6. /\ redeemed' = redeemed \cup {<<c, a>>} /\ now' = now
      /\ tier' = IF <<c, a>> \notin redeemed
                 THEN [tier EXCEPT ![a] = [tier |-> "pro", expires |-> Capped(t + Duration)]] ELSE tier
  BY <1>1 DEF Commit
<1> WITNESS a \in Identities, c \in 1..MaxCodes, e \in Nat
<1> QED BY <1>2, <1>4, <1>5, <1>6

(* The stored tier and the cap, kept. *)
LEMMA TiersKept ==
    ASSUME GrantsInv, Asked, GrantStep
    PROVE  ProKept' /\ TierCapped'
<1>0. /\ now \in Nat /\ tier \in [Identities -> TierRow] /\ TierCap \in Nat
      /\ \A a \in Identities : tier[a].expires \in Nat
      /\ ProKept /\ TierCapped
  BY Amounts DEF GrantsInv, GrantsTyped, TierRow
<1>1. CASE EnsureCurrentCode
  BY <1>0, <1>1 DEF EnsureCurrentCode, ProKept, TierCapped
<1>2. CASE GenerateCode
  BY <1>0, <1>2 DEF GenerateCode, ProKept, TierCapped
<1>3. CASE Tick
  BY <1>0, <1>3 DEF Tick, ProKept, TierCapped
<1>4. CASE Lapse
  <2>1. \A a \in Identities : /\ tier'[a].expires = tier[a].expires
                              /\ tier[a].expires > now => tier'[a].tier = tier[a].tier
    BY <1>0, <1>4 DEF Lapse, Over, TierRow
  <2> QED BY <1>0, <1>4, <2>1 DEF Lapse, ProKept, TierCapped
<1>5. CASE Restart
  BY <1>0, <1>5 DEF Restart, ProKept, TierCapped
<1>6. CASE Aside
  BY <1>0, <1>6 DEF Aside, ProKept, TierCapped
<1>7. ASSUME NEW b \in Browsers, Commit(b) PROVE ProKept' /\ TierCapped'
  <2>1. PICK a \in Identities, e \in Nat :
          /\ now' = now /\ e <= now + TierCap
          /\ tier' = tier \/ tier' = [tier EXCEPT ![a] = [tier |-> "pro", expires |-> e]]
    BY <1>7, Extends
  <2> QED BY <1>0, <2>1 DEF ProKept, TierCapped
<1>8. ASSUME NEW b \in Browsers, NEW c \in 0..MaxCodes, Begin(b, c) PROVE ProKept' /\ TierCapped'
  BY <1>0, <1>8 DEF Begin, ProKept, TierCapped
<1> QED
  BY <1>1, <1>2, <1>3, <1>4, <1>5, <1>6, <1>7, <1>8 DEF GrantStep

(* The grants' invariant is inductive. *)
LEMMA GrantsKept == GrantsInv /\ Asked /\ GrantStep => GrantsInv'
BY GrantsStayTyped, RedeemsAlone, TiersKept DEF GrantsInv

(* It holds at the start. *)
LEMMA GrantsStart == PromoInit => GrantsInv
<1> SUFFICES ASSUME PromoInit PROVE GrantsInv
  OBVIOUS
<1>1. /\ now = 0 /\ codes = <<>> /\ redeemed = {} /\ timer = GenEvery /\ booting = TRUE
      /\ tier = [i \in Identities |-> [tier |-> "free", expires |-> 0]]
      /\ redeeming = [b \in Browsers |-> NoTx]
  BY DEF PromoInit
<1>2. GrantsTyped
  BY <1>1, Amounts DEF GrantsTyped, TierRow
<1>3. Redeems /\ Alone
  BY <1>1 DEF Redeems, Alone
<1>4. ProKept /\ TierCapped
  BY <1>1, Amounts DEF ProKept, TierCapped
<1> QED BY <1>2, <1>3, <1>4 DEF GrantsInv

(* Every step extends in full what it redeems. *)
LEMMA Extended ==
    ASSUME GrantsInv, GrantStep
    PROVE  FullExtension
<1>1. ASSUME NEW b \in Browsers, Commit(b) PROVE FullExtension
  <2>1. PICK a \in Identities, c \in 1..MaxCodes, e \in Nat :
          /\ redeemed' = redeemed \cup {<<c, a>>} /\ now' = now
          /\ e = now + TierCap \/ (e >= tier[a].expires + Duration /\ e >= now + Duration)
          /\ <<c, a>> \notin redeemed => tier' = [tier EXCEPT ![a] = [tier |-> "pro", expires |-> e]]
    BY <1>1, Extends
  <2>2. tier \in [Identities -> TierRow]
    BY DEF GrantsInv, GrantsTyped
  <2>3. <<c, a>> \notin redeemed => tier'[a].expires = e
    BY <2>1, <2>2
  <2>4. \A i \in Identities, d \in 1..MaxCodes : <<d, i>> \in redeemed' \ redeemed => i = a /\ <<c, a>> \notin redeemed
    BY <2>1
  <2> QED BY <2>1, <2>3, <2>4 DEF FullExtension
<1>2. ASSUME redeemed' = redeemed PROVE FullExtension
  BY <1>2 DEF FullExtension
<1>3. (\A b \in Browsers : ~Commit(b)) => redeemed' = redeemed
  BY DEF GrantStep, EnsureCurrentCode, GenerateCode, Tick, Lapse, Restart, Aside, Begin
<1> QED BY <1>1, <1>2, <1>3

(***************************************************************************)
(* Links: tokens, the frames of chat users, what a token was bound to.     *)
(***************************************************************************)
TokenRow == [account : Identities \cup {None}, platform : Platforms \cup {None},
             state : {"none", "open", "expired", "used", "gone"}]
LinkRow == [account : Identities \cup {None}, status : {"none", "active", "stale", "revoked"}]
Frame == [token : Tokens \cup {None}, account : Identities \cup {None}, step : {"no", "found", "claimed"}]

LinksTyped ==
    /\ linkToken \in [Tokens -> TokenRow] /\ link \in [ChatUsers -> LinkRow]
    /\ frame \in [ChatUsers -> Frame] /\ bound \in [Tokens -> SUBSET ChatUsers] /\ void \subseteq Tokens

(* A token that was found is there, for the platform of who sent it; one     *)
(* that was claimed is spent, and is not bound, void or claimed by another.  *)
Spent(t) == linkToken[t].state \in {"used", "gone"}
Found ==
    \A u \in ChatUsers : frame[u].step # "no" =>
        /\ frame[u].token \in Tokens /\ linkToken[frame[u].token].state # "none"
        /\ linkToken[frame[u].token].platform = PlatformOf[u]
Claimed ==
    \A u \in ChatUsers : frame[u].step = "claimed" =>
        /\ Spent(frame[u].token) /\ bound[frame[u].token] = {} /\ frame[u].token \notin void
        /\ \A v \in ChatUsers : frame[v].step = "claimed" /\ frame[v].token = frame[u].token => v = u
BoundOnce ==
    \A t \in Tokens :
        /\ bound[t] # {} => Spent(t) /\ t \notin void /\ \E u \in ChatUsers : bound[t] = {u} /\ PlatformOf[u] = linkToken[t].platform
        /\ t \in void => linkToken[t].state = "gone"

LinksInv == LinksTyped /\ Found /\ Claimed /\ BoundOnce

LinkStep ==
    \/ \E b \in Browsers : (\E p \in Platforms : MintLink(b, p)) \/ \E u \in ChatUsers : Unlink(b, u)
    \/ (\E t \in Tokens : LinkTokenExpires(t)) \/ PruneLinkTokens
    \/ \E u \in ChatUsers :
         \/ \E t \in Tokens : LinkRequest(u, t)
         \/ Claim(u) \/ Bind(u)
         \/ \E status \in {"stale", "revoked"} : UnlinkNotice(u, status)
    \/ frame' = [u \in ChatUsers |-> NoFrame] /\ UNCHANGED <<linkToken, link, bound, void>>
    \/ UNCHANGED linkVars

(* Empty values have the types. *)
LEMMA Blanks ==
    /\ NoToken \in TokenRow /\ NoToken.state = "none" /\ NoLink \in LinkRow
    /\ NoFrame \in Frame /\ NoFrame.step = "no" /\ NoFrame.token = None
    /\ None \notin Tokens /\ \A u \in ChatUsers : PlatformOf[u] \in Platforms
BY IntegrationsAssumption DEF NoToken, TokenRow, NoLink, LinkRow, NoFrame, Frame

(* The sets that the types are named by. *)
LEMMA LinkTypes ==
    IntegrationsTypeOK <=> (SignInTypeOK /\ PromoTypeOK /\ LinksTyped)
BY DEF IntegrationsTypeOK, LinksTyped, TokenRow, LinkRow, Frame

(* What minting does to each token. *)
LEMMA Mints ==
    ASSUME LinksInv, NEW b \in Browsers, NEW p \in Platforms, MintLink(b, p)
    PROVE  \E t \in Tokens :
             /\ linkToken[t] = NoToken
             /\ linkToken' = [o \in Tokens |->
                  IF o = t THEN [account |-> request[b].account, platform |-> p, state |-> "open"]
                  ELSE IF o \in Superseded(request[b].account, p) THEN [linkToken[o] EXCEPT !.state = "gone"] ELSE linkToken[o]]
             /\ void' = void \cup Superseded(request[b].account, p)
<1>1. PICK t : t = CHOOSE u \in Tokens : linkToken[u] = NoToken
  OBVIOUS
<1>2. t \in Tokens /\ linkToken[t] = NoToken
  BY <1>1 DEF MintLink
<1> QED BY <1>1, <1>2 DEF MintLink

(* The links' invariant is inductive. *)
LEMMA LinksKept ==
    ASSUME LinksInv, Asked, LinkStep
    PROVE  LinksInv'
<1>0. /\ linkToken \in [Tokens -> TokenRow] /\ link \in [ChatUsers -> LinkRow]
      /\ frame \in [ChatUsers -> Frame] /\ bound \in [Tokens -> SUBSET ChatUsers] /\ void \subseteq Tokens
      /\ Found /\ Claimed /\ BoundOnce
  BY DEF LinksInv, LinksTyped
<1>1. ASSUME NEW b \in Browsers, NEW p \in Platforms, MintLink(b, p) PROVE LinksInv'
  <2> DEFINE a == request[b].account
  <2>1. PICK t \in Tokens :
          /\ linkToken[t] = NoToken
          /\ linkToken' = [o \in Tokens |->
               IF o = t THEN [account |-> a, platform |-> p, state |-> "open"]
               ELSE IF o \in Superseded(a, p) THEN [linkToken[o] EXCEPT !.state = "gone"] ELSE linkToken[o]]
          /\ void' = void \cup Superseded(a, p)
    BY <1>1, Mints
  <2>2. a \in Identities /\ UNCHANGED <<link, frame, bound>>
    BY <1>1 DEF MintLink, Asked
  <2>3. \A o \in Superseded(a, p) : o \in Tokens /\ linkToken[o].state \in {"open", "expired"}
    BY <1>0 DEF Superseded
  <2>4. linkToken'[t].state = "open" /\ linkToken[t].state = "none" /\ t \notin Superseded(a, p)
    BY <1>0, <2>1, <2>3, Blanks
  <2>5. \A o \in Tokens \ {t} :
          /\ linkToken'[o].platform = linkToken[o].platform
          /\ o \in Superseded(a, p) => linkToken'[o].state = "gone"
          /\ o \notin Superseded(a, p) => linkToken'[o].state = linkToken[o].state
    BY <1>0, <2>1 DEF TokenRow
  <2>6. linkToken' \in [Tokens -> TokenRow]
    <3>1. [account |-> a, platform |-> p, state |-> "open"] \in TokenRow
      BY <2>2 DEF TokenRow
    <3>2. \A r \in TokenRow : [r EXCEPT !.state = "gone"] \in TokenRow
      BY DEF TokenRow
    <3> HIDE DEF a
    <3> QED BY <1>0, <2>1, <3>1, <3>2
  <2> HIDE DEF a
  <2>7. LinksTyped'
    BY <1>0, <2>1, <2>2, <2>3, <2>6 DEF LinksTyped
  <2>8. \A u \in ChatUsers : frame[u].step # "no" => frame[u].token # t
    BY <1>0, <2>4 DEF Found
  <2>9. Found'
    BY <1>0, <2>2, <2>4, <2>5, <2>8 DEF Found
  <2>10. \A o \in Tokens : Spent(o) => Spent(o)' /\ o \notin Superseded(a, p) /\ o # t
    BY <2>3, <2>4, <2>5 DEF Spent
  <2>11. Claimed'
    BY <1>0, <2>1, <2>2, <2>10 DEF Claimed, Found
  <2>12. BoundOnce'
    BY <1>0, <2>1, <2>2, <2>3, <2>4, <2>5, <2>10 DEF BoundOnce
  <2> QED BY <2>7, <2>9, <2>11, <2>12 DEF LinksInv
<1>2. ASSUME NEW b \in Browsers, NEW u \in ChatUsers, Unlink(b, u) PROVE LinksInv'
  <2>1. link' \in [ChatUsers -> LinkRow]
    BY <1>0, <1>2 DEF Unlink, LinkRow
  <2> QED BY <1>0, <1>2, <2>1 DEF Unlink, LinksInv, LinksTyped, Found, Claimed, BoundOnce, Spent
<1>3. ASSUME UNCHANGED <<link, frame, bound, void>>, linkToken' \in [Tokens -> TokenRow],
             \A t \in Tokens : /\ linkToken'[t].platform = linkToken[t].platform
                               /\ Spent(t) => Spent(t)'
                               /\ linkToken[t].state # "none" => linkToken'[t].state # "none"
                               /\ linkToken[t].state = "gone" => linkToken'[t].state = "gone"
      PROVE  LinksInv'
  <2>1. LinksTyped'
    BY <1>0, <1>3 DEF LinksTyped
  <2>2. Found'
    BY <1>0, <1>3 DEF Found
  <2>3. Claimed'
    BY <1>0, <1>3 DEF Claimed, Found
  <2>4. BoundOnce'
    BY <1>0, <1>3 DEF BoundOnce
  <2> QED BY <2>1, <2>2, <2>3, <2>4 DEF LinksInv
<1>4. ASSUME NEW t \in Tokens, LinkTokenExpires(t) PROVE LinksInv'
  <2>1. linkToken' \in [Tokens -> TokenRow]
    BY <1>0, <1>4 DEF LinkTokenExpires, TokenRow
  <2>2. \A o \in Tokens : /\ linkToken'[o].platform = linkToken[o].platform
                          /\ linkToken'[o].state = IF o = t THEN "expired" ELSE linkToken[o].state
    BY <1>0, <1>4 DEF LinkTokenExpires, TokenRow
  <2>3. linkToken[t].state = "open"
    BY <1>4 DEF LinkTokenExpires
  <2>4. \A o \in Tokens : /\ Spent(o) => Spent(o)'
                          /\ linkToken[o].state # "none" => linkToken'[o].state # "none"
                          /\ linkToken[o].state = "gone" => linkToken'[o].state = "gone"
    BY <2>2, <2>3 DEF Spent
  <2> QED BY <1>3, <1>4, <2>1, <2>2, <2>4 DEF LinkTokenExpires
<1>5. CASE PruneLinkTokens
  <2>1. linkToken' \in [Tokens -> TokenRow]
    <3>1. \A r \in TokenRow : [r EXCEPT !.state = "gone"] \in TokenRow
      BY DEF TokenRow
    <3> QED BY <1>0, <1>5, <3>1 DEF PruneLinkTokens
  <2>2. \A o \in Tokens : /\ linkToken'[o].platform = linkToken[o].platform
                          /\ linkToken'[o].state = IF linkToken[o].state \in {"used", "expired"} THEN "gone" ELSE linkToken[o].state
    BY <1>0, <1>5 DEF PruneLinkTokens, TokenRow
  <2>3. \A o \in Tokens : /\ Spent(o) => Spent(o)'
                          /\ linkToken[o].state # "none" => linkToken'[o].state # "none"
                          /\ linkToken[o].state = "gone" => linkToken'[o].state = "gone"
    BY <2>2 DEF Spent
  <2> QED BY <1>3, <1>5, <2>1, <2>2, <2>3 DEF PruneLinkTokens
<1>6. ASSUME NEW u \in ChatUsers, NEW t \in Tokens, LinkRequest(u, t) PROVE LinksInv'
  <2>1. /\ frame' = [frame EXCEPT ![u] = [token |-> t, account |-> linkToken[t].account, step |-> "found"]]
        /\ linkToken[t].state = "open" /\ linkToken[t].platform = PlatformOf[u]
        /\ UNCHANGED <<linkToken, link, bound, void>>
    BY <1>6 DEF LinkRequest, Good
  <2>2. [token |-> t, account |-> linkToken[t].account, step |-> "found"] \in Frame
    BY <1>0 DEF TokenRow, Frame
  <2>3. frame' \in [ChatUsers -> Frame]
    BY <1>0, <2>1, <2>2
  <2>4. frame'[u].token = t /\ frame'[u].step = "found" /\ \A v \in ChatUsers \ {u} : frame'[v] = frame[v]
    BY <1>0, <2>1
  <2>5. LinksTyped'
    BY <1>0, <2>1, <2>3 DEF LinksTyped
  <2>6. Found'
    BY <1>0, <2>1, <2>4 DEF Found
  <2>7. Claimed'
    BY <1>0, <2>1, <2>4 DEF Claimed, Spent
  <2>8. BoundOnce'
    BY <1>0, <2>1 DEF BoundOnce, Spent
  <2> QED BY <2>5, <2>6, <2>7, <2>8 DEF LinksInv
<1>7. ASSUME NEW u \in ChatUsers, Claim(u) PROVE LinksInv'
  <2>1. PICK t \in Tokens :
        /\ t = frame[u].token /\ linkToken[t].platform = PlatformOf[u] /\ frame[u].step = "found"
        /\ UNCHANGED <<link, bound, void>>
    BY <1>0, <1>7 DEF Claim, Found
  <2>2. CASE Claims(t)
    <3>1. /\ linkToken' = [linkToken EXCEPT ![t].state = "used"]
          /\ frame' = [frame EXCEPT ![u] = [frame[u] EXCEPT !.step = "claimed"]]
          /\ linkToken[t].state \in {"open", "expired"}
      BY <1>0, <1>7, <2>1, <2>2 DEF Claim, Claims
    <3>2. linkToken' \in [Tokens -> TokenRow]
      BY <1>0, <2>1, <3>1 DEF TokenRow
    <3>3. frame' \in [ChatUsers -> Frame]
      <4>1. [frame[u] EXCEPT !.step = "claimed"] \in Frame
        BY <1>0 DEF Frame
      <4> QED BY <1>0, <3>1, <4>1
    <3>4. /\ \A v \in ChatUsers \ {u} : frame'[v] = frame[v]
          /\ frame'[u].token = t /\ frame'[u].step = "claimed"
      BY <1>0, <2>1, <3>1 DEF Frame
    <3>5. \A o \in Tokens : /\ linkToken'[o].platform = linkToken[o].platform
                            /\ linkToken'[o].state = IF o = t THEN "used" ELSE linkToken[o].state
      BY <1>0, <2>1, <3>1 DEF TokenRow
    <3>6. ~Spent(t) /\ Spent(t)' /\ \A o \in Tokens : Spent(o) => Spent(o)'
      BY <2>1, <3>1, <3>5 DEF Spent
    <3>7. bound[t] = {} /\ t \notin void
      BY <1>0, <2>1, <3>1, <3>6 DEF BoundOnce
    <3>8. \A v \in ChatUsers : frame[v].step = "claimed" => frame[v].token # t
      BY <1>0, <3>6 DEF Claimed
    <3>9. LinksTyped'
      BY <1>0, <2>1, <3>2, <3>3 DEF LinksTyped
    <3>10. Found'
      BY <1>0, <2>1, <3>4, <3>5 DEF Found
    <3>11. Claimed'
      <4>1. \A v \in ChatUsers : frame'[v].step = "claimed" =>
              v = u \/ (frame[v].step = "claimed" /\ frame'[v].token = frame[v].token /\ frame[v].token # t)
        BY <3>4, <3>8
      <4>2. \A v \in ChatUsers : frame[v].step = "claimed" =>
              /\ frame[v].token \in Tokens /\ linkToken'[frame[v].token].state \in {"used", "gone"}
              /\ bound'[frame[v].token] = {} /\ frame[v].token \notin void'
        BY <1>0, <2>1, <3>6 DEF Claimed, Found, Spent
      <4>3. linkToken'[t].state \in {"used", "gone"} /\ bound'[t] = {} /\ t \notin void'
        BY <2>1, <3>6, <3>7 DEF Spent
      <4>4. \A v, x \in ChatUsers :
              frame[v].step = "claimed" /\ frame[x].step = "claimed" /\ frame[x].token = frame[v].token => x = v
        BY <1>0 DEF Claimed
      <4> QED BY <3>4, <4>1, <4>2, <4>3, <4>4 DEF Claimed, Spent
    <3>12. BoundOnce'
      BY <1>0, <2>1, <3>5, <3>6, <3>7 DEF BoundOnce
    <3> QED BY <3>9, <3>10, <3>11, <3>12 DEF LinksInv
  <2>3. CASE ~Claims(t)
    <3>1. linkToken' = linkToken /\ frame' = [frame EXCEPT ![u] = NoFrame]
      BY <1>7, <2>1, <2>3 DEF Claim
    <3> QED BY <1>0, <2>1, <3>1, Blanks DEF LinksInv, LinksTyped, Found, Claimed, BoundOnce, Spent
  <2> QED BY <2>2, <2>3
<1>8. ASSUME NEW u \in ChatUsers, Bind(u) PROVE LinksInv'
  <2>1. PICK t \in Tokens : t = frame[u].token
    BY <1>0, <1>8 DEF Bind, Found
  <2>2. /\ link' = [link EXCEPT ![u] = [account |-> frame[u].account, status |-> "active"]]
        /\ bound' = [bound EXCEPT ![t] = bound[t] \cup {u}] /\ frame' = [frame EXCEPT ![u] = NoFrame]
        /\ linkToken' = linkToken /\ void' = void
    BY <1>8, <2>1 DEF Bind
  <2>3. link' \in [ChatUsers -> LinkRow]
    <3>1. [account |-> frame[u].account, status |-> "active"] \in LinkRow
      BY <1>0 DEF Frame, LinkRow
    <3> QED BY <1>0, <2>2, <3>1
  <2>4. /\ Spent(t) /\ bound[t] = {} /\ t \notin void /\ linkToken[t].platform = PlatformOf[u]
        /\ \A v \in ChatUsers \ {u} : frame[v].step = "claimed" => frame[v].token # t
    BY <1>0, <1>8, <2>1 DEF Bind, Found, Claimed
  <2>5. bound'[t] = {u} /\ \A o \in Tokens \ {t} : bound'[o] = bound[o]
    BY <1>0, <2>2, <2>4
  <2>6. frame'[u].step = "no" /\ \A v \in ChatUsers \ {u} : frame'[v] = frame[v]
    BY <1>0, <2>2, Blanks
  <2>7. LinksTyped'
    BY <1>0, <2>2, <2>3, Blanks DEF LinksTyped
  <2>8. Found'
    BY <1>0, <2>2, <2>6 DEF Found
  <2>9. Claimed'
    BY <1>0, <2>2, <2>4, <2>5, <2>6 DEF Claimed, Found, Spent
  <2>10. BoundOnce'
    BY <1>0, <2>2, <2>4, <2>5 DEF BoundOnce, Spent
  <2> QED BY <2>7, <2>8, <2>9, <2>10 DEF LinksInv
<1>9. ASSUME NEW u \in ChatUsers, NEW status \in {"stale", "revoked"}, UnlinkNotice(u, status) PROVE LinksInv'
  <2>1. link' \in [ChatUsers -> LinkRow]
    BY <1>0, <1>9 DEF UnlinkNotice, LinkRow
  <2> QED BY <1>0, <1>9, <2>1 DEF UnlinkNotice, LinksInv, LinksTyped, Found, Claimed, BoundOnce, Spent
<1>10. CASE frame' = [u \in ChatUsers |-> NoFrame] /\ UNCHANGED <<linkToken, link, bound, void>>
  BY <1>0, <1>10, Blanks DEF LinksInv, LinksTyped, Found, Claimed, BoundOnce, Spent
<1>11. CASE UNCHANGED linkVars
  BY <1>0, <1>11 DEF LinksInv, LinksTyped, Found, Claimed, BoundOnce, Spent
<1> QED
  BY <1>1, <1>2, <1>4, <1>5, <1>6, <1>7, <1>8, <1>9, <1>10, <1>11 DEF LinkStep

(* It holds at the start. *)
LEMMA LinksStart ==
    ASSUME linkToken = [t \in Tokens |-> NoToken], link = [u \in ChatUsers |-> NoLink],
           frame = [u \in ChatUsers |-> NoFrame], bound = [t \in Tokens |-> {}], void = {}
    PROVE  LinksInv
<1>1. LinksTyped
  BY Blanks DEF LinksTyped
<1> QED BY <1>1, Blanks DEF LinksInv, Found, Claimed, BoundOnce

(* A token that is bound is bound by one chat user, of its platform. *)
LEMMA BoundByOne == LinksInv => SingleUse
<1> SUFFICES ASSUME LinksInv, NEW t \in Tokens
             PROVE  /\ Cardinality(bound[t]) <= 1
                    /\ t \in void => bound[t] = {}
                    /\ \A u \in bound[t] : PlatformOf[u] = linkToken[t].platform
  BY DEF SingleUse
<1>1. CASE bound[t] = {}
  BY <1>1, FS_EmptySet
<1>2. CASE bound[t] # {}
  <2>1. PICK u \in ChatUsers : bound[t] = {u} /\ PlatformOf[u] = linkToken[t].platform /\ t \notin void
    BY <1>2 DEF LinksInv, BoundOnce
  <2>2. Cardinality({u}) = 1
    BY FS_Singleton
  <2> QED BY <2>1, <2>2
<1> QED BY <1>1, <1>2

(* Only the owner's own unlink revokes a link while a request is answered. *)
LEMMA OwnersRevoke == LinkStep => RevokedByOwner
<1> SUFFICES ASSUME LinkStep, NEW u \in ChatUsers, link'[u].status = "revoked", link[u].status # "revoked", request' # request
             PROVE  \E b \in Browsers : request[b].op = "unlink" /\ request[b].account = link[u].account
  BY DEF RevokedByOwner
<1>1. ASSUME NEW b \in Browsers, NEW v \in ChatUsers, Unlink(b, v)
      PROVE  request[b].op = "unlink" /\ request[b].account = link[u].account
  BY <1>1 DEF Unlink, MyLink
<1>2. ASSUME NEW v \in ChatUsers, Bind(v) PROVE FALSE
  BY <1>2 DEF Bind
<1>3. ASSUME NEW v \in ChatUsers, NEW status \in {"stale", "revoked"}, UnlinkNotice(v, status) PROVE FALSE
  BY <1>3 DEF UnlinkNotice
<1>4. link' # link
  OBVIOUS
<1> QED BY <1>1, <1>2, <1>3, <1>4
        DEF LinkStep, MintLink, LinkTokenExpires, PruneLinkTokens, LinkRequest, Claim

(***************************************************************************)
(* The accounts together, as one of the parts of the model.                *)
(***************************************************************************)
AccountsInv == SessionsInv /\ GrantsInv /\ LinksInv

(* Every step of the accounts is one of their sessions, one of their grants  *)
(* and one of their links.                                                  *)
LEMMA Sides ==
    ASSUME AccountsInv, AccountsNext
    PROVE  (SessionStep \/ UNCHANGED signInVars) /\ GrantStep /\ LinkStep
<1>0. redeeming \in [Browsers -> Tx] /\ Redeems /\ request \in [Browsers -> Asking] /\ Asked
  BY DEF AccountsInv, GrantsInv, GrantsTyped, SessionsInv, SessionsTyped
<1>1. CASE SignInNext /\ UNCHANGED <<promoVars, linkVars>>
  <2>1. \A b \in Browsers : request[b].op = "redeem" => request'[b] = request[b]
    <3>1. ASSUME NEW b \in Browsers, Pass(b, "logoutAll") PROVE \A x \in Browsers : request[x].op = "redeem" => request'[x] = request[x]
      BY <1>0, <3>1 DEF Pass, NoRequest
    <3>2. ASSUME NEW b \in Browsers, LogoutAll(b) PROVE \A x \in Browsers : request[x].op = "redeem" => request'[x] = request[x]
      BY <1>0, <3>2 DEF LogoutAll
    <3>3. \/ request' = request
          \/ \E b \in Browsers : Pass(b, "logoutAll") \/ LogoutAll(b)
      BY <1>1 DEF SignInNext, OpenLogin, LoginLoads, StartOAuth, CallbackRefused, Callback, SubmitSecret,
         Complete, Forbidden, Logout, CookieExpires, DeleteAccount, MinutePasses
    <3> QED BY <3>1, <3>2, <3>3
  <2> QED BY <1>1, <2>1 DEF SessionStep, GrantStep, Aside, LinkStep
<1>2. ASSUME NEW b \in Browsers, NEW op \in Ops, Pass(b, op), UNCHANGED promoVars
      PROVE  SessionStep /\ GrantStep
  <2>1. \A x \in Browsers : request[x].op = "redeem" => request'[x] = request[x]
    BY <1>0, <1>2 DEF Pass, NoRequest
  <2> QED BY <1>2, <2>1 DEF SessionStep, GrantStep, Aside
<1>3. ASSUME NEW b \in Browsers, request[b].op # "redeem", Answer(b), UNCHANGED <<promoVars, signInRest, events>>
      PROVE  SessionStep /\ GrantStep
  <2>1. Beside
    BY <1>3 DEF Answer, Beside
  <2>2. Aside
    BY <1>0, <1>3 DEF Answer, Aside
  <2> QED BY <2>1, <2>2 DEF SessionStep, GrantStep
<1>4. ASSUME UNCHANGED <<signInRest, request, promoVars>>, events' = events \/ Event
      PROVE  SessionStep /\ GrantStep
  BY <1>4 DEF SessionStep, Beside, GrantStep, Aside
<1>5. CASE PromoNext /\ UNCHANGED linkVars
  <2>0. LinkStep
    BY <1>5 DEF LinkStep
  <2>1. CASE EnsureCurrentCode \/ GenerateCode \/ Lapse
    BY <2>0, <2>1 DEF EnsureCurrentCode, GenerateCode, Lapse, SessionStep, GrantStep
  <2>2. CASE Tick
    BY <2>0, <2>2 DEF Tick, SessionStep, Beside, GrantStep
  <2>3. ASSUME NEW b \in Browsers, Pass(b, "redeem"), UNCHANGED promoVars
        PROVE  SessionStep /\ GrantStep
    BY <1>2, <2>3 DEF Ops
  <2>4. ASSUME NEW b \in Browsers, NEW c \in 0..MaxCodes, Refuse(b, c) PROVE SessionStep /\ GrantStep
    <3>1. Beside
      BY <2>4 DEF Refuse, Answer, Beside
    <3>2. Aside
      BY <1>0, <2>4 DEF Refuse, Answer, Aside
    <3> QED BY <3>1, <3>2 DEF SessionStep, GrantStep
  <2>5. ASSUME NEW b \in Browsers, NEW c \in 0..MaxCodes, Begin(b, c)
        PROVE  UNCHANGED signInVars /\ GrantStep
    BY <2>5 DEF Begin, GrantStep
  <2>6. ASSUME NEW b \in Browsers, Commit(b) PROVE SessionStep /\ GrantStep
    BY <2>6 DEF Commit, Answer, SessionStep, Beside, GrantStep
  <2> QED BY <1>5, <2>0, <2>1, <2>2, <2>3, <2>4, <2>5, <2>6 DEF PromoNext
<1>6. CASE Restart /\ frame' = [u \in ChatUsers |-> NoFrame] /\ UNCHANGED <<linkToken, link, bound, void>>
  BY <1>6 DEF Restart, SessionStep, Rebooted, GrantStep, LinkStep
<1>7. CASE IntegrationsNext
  <2>1. ASSUME NEW b \in Browsers, NEW op \in {"mint", "unlink"}, Pass(b, op), UNCHANGED <<promoVars, linkVars>>
        PROVE  SessionStep /\ GrantStep /\ LinkStep
    <3>1. SessionStep /\ GrantStep
      BY <1>2, <2>1 DEF Ops
    <3> QED BY <2>1, <3>1 DEF LinkStep
  <2>2. ASSUME NEW b \in Browsers, NEW p \in Platforms, MintLink(b, p)
        PROVE  SessionStep /\ GrantStep /\ LinkStep
    <3>1. SessionStep /\ GrantStep
      BY <1>3, <2>2 DEF MintLink
    <3> QED BY <2>2, <3>1 DEF LinkStep
  <2>3. ASSUME NEW b \in Browsers, NEW u \in ChatUsers, Unlink(b, u)
        PROVE  SessionStep /\ GrantStep /\ LinkStep
    <3>1. SessionStep /\ GrantStep
      BY <1>3, <2>3 DEF Unlink
    <3> QED BY <2>3, <3>1 DEF LinkStep
  <2>4. ASSUME NEW t \in Tokens, LinkTokenExpires(t) PROVE SessionStep /\ GrantStep /\ LinkStep
    <3>1. SessionStep /\ GrantStep
      BY <1>4, <2>4 DEF LinkTokenExpires
    <3> QED BY <2>4, <3>1 DEF LinkStep
  <2>5. CASE PruneLinkTokens
    <3>1. SessionStep /\ GrantStep
      BY <1>4, <2>5 DEF PruneLinkTokens
    <3> QED BY <2>5, <3>1 DEF LinkStep
  <2>6. ASSUME NEW u \in ChatUsers,
               (\E t \in Tokens : LinkRequest(u, t)) \/ Claim(u) \/ Bind(u) \/ \E status \in {"stale", "revoked"} : UnlinkNotice(u, status)
        PROVE  SessionStep /\ GrantStep /\ LinkStep
    <3>1. SessionStep /\ GrantStep
      BY <1>4, <2>6 DEF LinkRequest, Claim, Bind, UnlinkNotice
    <3> QED BY <2>6, <3>1 DEF LinkStep
  <2> QED BY <1>7, <2>1, <2>2, <2>3, <2>4, <2>5, <2>6 DEF IntegrationsNext
<1> QED BY <1>1, <1>5, <1>6, <1>7 DEF AccountsNext

(* The accounts' invariant holds at the start. *)
LEMMA AccountsStart == Init => AccountsInv
BY SessionsStart, GrantsStart, LinksStart DEF Init, IntegrationsInit, AccountsInv

(* A step of the model is one of the accounts or leaves them alone. *)
LEMMA PartsApart == [Next]_vars => AccountsNext \/ UNCHANGED allVars
BY DEF Next, Rest, vars

(* It is inductive, whichever part of the model takes the step. *)
LEMMA AccountsKept == AccountsInv /\ [Next]_vars => AccountsInv'
<1> SUFFICES ASSUME AccountsInv, [Next]_vars PROVE AccountsInv'
  OBVIOUS
<1>1. SessionsInv /\ GrantsInv /\ LinksInv /\ Asked
  BY DEF AccountsInv, SessionsInv
<1>2. CASE AccountsNext
  <2>1. (SessionStep \/ UNCHANGED signInVars) /\ GrantStep /\ LinkStep
    BY <1>2, Sides
  <2> QED BY <1>1, <2>1, SessionsKept, GrantsKept, LinksKept DEF AccountsInv
<1>3. CASE UNCHANGED allVars
  <2>1. UNCHANGED signInVars /\ Aside /\ UNCHANGED linkVars
    BY <1>3 DEF allVars, Aside
  <2>2. GrantStep /\ LinkStep
    BY <2>1 DEF GrantStep, LinkStep
  <2> QED BY <1>1, <2>1, <2>2, SessionsKept, GrantsKept, LinksKept DEF AccountsInv
<1> QED BY <1>2, <1>3, PartsApart

(* Sessions end for good, belong to who proved an identity, and the secret  *)
(* is guessed at a bounded rate, for any burst.                             *)
THEOREM SignInKept == Spec => []SignInSound
<1>1. AccountsInv => SignInSound
  <2> SUFFICES ASSUME AccountsInv PROVE IntegrationsTypeOK /\ EndedForGood /\ OwnAccount /\ GuessesBounded
    BY DEF SignInSound
  <2>1. SessionsInv /\ GrantsInv /\ LinksInv
    BY DEF AccountsInv
  <2>2. SignInTypeOK /\ PromoTypeOK /\ LinksTyped
    BY <2>1, SessionTypes, GrantTypes DEF SessionsInv, GrantsInv, LinksInv
  <2>3. IntegrationsTypeOK
    BY <2>2, LinkTypes
  <2>4. EndedForGood
    <3> SUFFICES ASSUME NEW c \in ended, account[c.account].epoch = c.epoch PROVE FALSE
      BY DEF EndedForGood, Valid
    <3>1. c \in Cookie /\ c.account \in Identities /\ c.epoch < account[c.account].epoch
      BY <2>1 DEF SessionsInv, SessionsTyped, EndedPast
    <3>2. account[c.account].epoch \in Nat
      BY <2>1, <3>1 DEF SessionsInv, SessionsTyped, AccountRow
    <3> QED BY <3>1, <3>2
  <2> QED BY <2>1, <2>3, <2>4 DEF SessionsInv, Dripping
<1> QED BY <1>1, AccountsStart, AccountsKept, PTL DEF Spec

(* What an account was granted, it has: its tier, up to the cap, and the     *)
(* chat users its own tokens were used by, one each.                        *)
THEOREM GrantsHeld == Spec => []GrantsSound
<1>1. AccountsInv => GrantsSound
  BY BoundByOne DEF AccountsInv, GrantsInv, GrantsSound
<1> QED BY <1>1, AccountsStart, AccountsKept, PTL DEF Spec

(* No step takes a grant: a redemption extends the window in full, and a     *)
(* link is revoked by its owner only.                                       *)
THEOREM GrantsGrow == Spec => NothingTaken
<1>1. AccountsInv /\ [Next]_vars => [FullExtension /\ RevokedByOwner]_allVars
  <2> SUFFICES ASSUME AccountsInv, AccountsNext PROVE FullExtension /\ RevokedByOwner
    BY PartsApart
  <2>1. GrantsInv /\ GrantStep /\ LinkStep
    BY Sides DEF AccountsInv
  <2> QED BY <2>1, Extended, OwnersRevoke
<1> QED BY <1>1, AccountsStart, AccountsKept, PTL DEF Spec, NothingTaken

(***************************************************************************)
(* What a bot tells a user.                                                *)
(***************************************************************************)
Whole(k) == k = [kind |-> k.kind, good |-> k.good, at |-> k.at, sock |-> k.sock, shown |-> k.shown]
Truthful ==
    /\ DOMAIN ask = Asks /\ (\A a \in Asks : Whole(ask[a])) /\ ToldLinked
    /\ \A a \in Asks : ask[a].at \in {"work", "back"} /\ ask[a].good => chatLink # "none"

(* A command that is answered well has linked the user, and no step unlinks it again. *)
LEMMA TruthKept == Truthful /\ (CommandsNext \/ UNCHANGED commandVars) => Truthful'
<1> SUFFICES ASSUME Truthful, CommandsNext \/ UNCHANGED commandVars PROVE Truthful'
  OBVIOUS
<1>0. /\ DOMAIN ask = Asks /\ ToldLinked /\ \A a \in Asks : Whole(ask[a])
      /\ \A a \in Asks : ask[a].at \in {"work", "back"} /\ ask[a].good => chatLink # "none"
  BY DEF Truthful
<1>1. CASE OverSocket
  <2>1. /\ DOMAIN ask' = Asks /\ told' = told /\ chatLink' = chatLink
        /\ \A a \in Asks : (ask'[a].at \in {"work", "back"} => ask'[a].at = ask[a].at) /\ ask'[a].good = ask[a].good /\ Whole(ask'[a])
    <3>1. told' = told /\ chatLink' = chatLink /\ DOMAIN ask' = Asks
      BY <1>1 DEF OverSocket, Carried
    <3>2. ASSUME NEW a \in Asks
          PROVE  \/ ask'[a] = ask[a]
                 \/ ask'[a] = [ask[a] EXCEPT !.at = "lost", !.sock = Nil]
                 \/ ask'[a] = [ask[a] EXCEPT !.sock = Nil]
      BY <1>1 DEF OverSocket, Carried
    <3>3. ASSUME NEW a \in Asks
          PROVE  (ask'[a].at \in {"work", "back"} => ask'[a].at = ask[a].at) /\ ask'[a].good = ask[a].good /\ Whole(ask'[a])
      BY ZenonT(40), <1>0, <3>2 DEF Whole
    <3> QED BY <3>1, <3>3
  <2> QED BY <1>0, <2>1 DEF Truthful, ToldLinked
<1>2. ASSUME NEW a \in Asks, NEW good \in BOOLEAN, SlashLink(a, good) \/ TextLink(a, good) PROVE Truthful'
  BY <1>0, <1>2 DEF SlashLink, TextLink, Sent, Whole, Truthful, ToldLinked
<1>3. ASSUME NEW a \in Asks, UnlinkCmd(a) PROVE Truthful'
  BY <1>0, <1>3 DEF UnlinkCmd, Sent, Whole, Truthful, ToldLinked
<1>4. ASSUME NEW a \in Asks, HubTakes(a) PROVE Truthful'
  BY <1>0, <1>4 DEF HubTakes, Whole, Truthful, ToldLinked
<1>5. ASSUME NEW a \in Asks, Replies(a) PROVE Truthful'
  BY <1>0, <1>5 DEF Replies, Whole, Truthful, ToldLinked
<1>6. ASSUME NEW a \in Asks, Gets(a) PROVE Truthful'
  <2>1. /\ chatLink' = chatLink /\ DOMAIN ask' = Asks
        /\ \A x \in Asks : (ask'[x].at \in {"work", "back"} => ask'[x].at = ask[x].at) /\ ask'[x].good = ask[x].good /\ Whole(ask'[x])
    BY <1>0, <1>6 DEF Gets, Whole
  <2>2. told' = told \/ told' = Outcome(a)
    BY <1>6 DEF Gets
  <2>3. Outcome(a) = "linked" => chatLink # "none"
    BY <1>0, <1>6 DEF Gets, Outcome
  <2> QED BY <1>0, <2>1, <2>2, <2>3 DEF Truthful, ToldLinked
<1>7. CASE UNCHANGED commandVars
  BY <1>0, <1>7 DEF commandVars, Truthful, ToldLinked
<1> QED BY <1>1, <1>2, <1>3, <1>4, <1>5, <1>6, <1>7 DEF CommandsNext

(* The bot says that the account is linked only once it has been. *)
THEOREM BotTruthful == Spec => []ToldLinked
<1>1. Init => Truthful
  <2> SUFFICES ASSUME CommandsInit PROVE Truthful
    BY DEF Init
  <2>1. ask = [a \in Asks |-> NoAsk] /\ told = "nothing"
    BY DEF CommandsInit
  <2>2. NoAsk.at = "none" /\ Whole(NoAsk)
    BY DEF NoAsk, Whole
  <2> QED BY <2>1, <2>2 DEF Truthful, ToldLinked
<1>2. [Next]_vars => CommandsNext \/ UNCHANGED commandVars
  BY DEF Next, Rest, vars, commandVars
<1>3. Truthful => ToldLinked
  BY DEF Truthful
<1> QED BY <1>1, <1>2, <1>3, TruthKept, PTL DEF Spec

(***************************************************************************)
(* The integrations page.                                                  *)
(***************************************************************************)
PollsPast ==
    /\ \A c \in Calls : call[c].token <= token /\ (call[c].read.known => call[c].token # 0)
    /\ \A t \in Minted : baseline[t].known => t <= token
(* What the polls of a token saw before any link changed is the links as they are. *)
Unmoved == \A t \in Minted : t <= token /\ t \notin moved =>
    /\ baseline[t].known => baseline[t].seen = links
    /\ \A c \in Calls : call[c].token = t /\ call[c].read.known => call[c].read.seen = links

PageInv == LinkPageTypeOK /\ PollsPast /\ Unmoved

LEMMA Nones == NoLinks \in Lists /\ Unread \in Reads /\ NoCall \in [token : 0..MaxMints, read : Reads] /\ ~NoCall.read.known /\ NoCall.token = 0
<1>1. NoLinks \in Lists
  BY DEF NoLinks, Lists
<1>2. Unread \in Reads /\ ~Unread.known
  BY <1>1 DEF Unread, Reads
<1>3. 0 \in 0..MaxMints
  BY LinkPageAssumption
<1> QED BY <1>1, <1>2, <1>3 DEF NoCall

LEMMA PageStart == LinkPageInit => PageInv
<1> SUFFICES ASSUME LinkPageInit PROVE PageInv
  OBVIOUS
<1>1. \A t \in Minted : baseline[t] = Unread /\ ~baseline[t].known
  BY DEF LinkPageInit, Unread
<1>2. \A c \in Calls : call[c] = NoCall
  BY DEF LinkPageInit
<1>3. LinkPageTypeOK
  <2>1. baseline \in [Minted -> Reads] /\ call \in [Calls -> [token : 0..MaxMints, read : Reads]]
    BY Nones DEF LinkPageInit
  <2>2. 0 \in 0..MaxMints /\ 0 \in 0..MaxPolls /\ 0 \in 0..MaxChanges
    BY LinkPageAssumption
  <2> QED BY <2>1, <2>2 DEF LinkPageInit, LinkPageTypeOK
<1>4. PollsPast
  BY <1>1, <1>2, Nones, LinkPageAssumption DEF LinkPageInit, PollsPast
<1>5. Unmoved
  BY <1>1, <1>2, Nones DEF Unmoved
<1> QED BY <1>3, <1>4, <1>5 DEF PageInv

(* A change of the links is remembered for every token minted so far. *)
LEMMA LinkSet ==
    ASSUME PageInv, NEW u \in Chats, NEW status \in {"active", "revoked"}, SetLink(u, status),
           UNCHANGED <<token, baseline, call>>
    PROVE  links' \in Lists /\ moved' \subseteq Minted /\ PollsPast' /\ Unmoved'
<1>1. links \in Lists /\ moved \subseteq Minted /\ token \in 0..MaxMints /\ MaxMints \in Nat
  BY LinkPageAssumption DEF PageInv, LinkPageTypeOK
<1>2. links' \in Lists
  BY <1>1 DEF SetLink, Lists
<1>3. 1..token \subseteq Minted
  BY <1>1 DEF Minted
<1>4. moved' \subseteq Minted
  BY <1>1, <1>3 DEF SetLink
<1>5. PollsPast'
  BY DEF PageInv, PollsPast
<1>6. CASE links' = links
  <2>1. moved' = moved
    BY <1>6 DEF SetLink
  <2> QED BY <1>2, <1>4, <1>5, <1>6, <2>1 DEF PageInv, Unmoved
<1>7. CASE links' # links
  <2>1. moved' = moved \cup 1..token
    BY <1>7 DEF SetLink
  <2>2. \A t \in Minted : t <= token => t \in 1..token
    BY <1>1 DEF Minted
  <2>3. Unmoved'
    BY <2>1, <2>2 DEF Unmoved
  <2> QED BY <1>2, <1>4, <1>5, <2>3
<1> QED BY <1>6, <1>7

LEMMA PageKept == PageInv /\ (LinkPageNext \/ UNCHANGED linkPageVars) => PageInv'
<1> SUFFICES ASSUME PageInv, LinkPageNext \/ UNCHANGED linkPageVars PROVE PageInv'
  OBVIOUS
<1> USE LinkPageAssumption
<1>0. LinkPageTypeOK /\ PollsPast /\ Unmoved
  BY DEF PageInv
<1>t. /\ links \in Lists /\ shown \in BOOLEAN /\ open \in BOOLEAN
      /\ token \in 0..MaxMints /\ polls \in 0..MaxPolls /\ changes \in 0..MaxChanges
      /\ baseline \in [Minted -> Reads] /\ call \in [Calls -> [token : 0..MaxMints, read : Reads]] /\ moved \subseteq Minted
  BY <1>0 DEF LinkPageTypeOK
<1>1. CASE Mint
  <2>1. token' = token + 1 /\ token' \in 0..MaxMints /\ links' = links /\ baseline' = baseline /\ call' = call /\ moved' = moved
    BY <1>1, <1>t DEF Mint
  <2>2. LinkPageTypeOK'
    BY <1>1, <1>t, <2>1 DEF Mint, LinkPageTypeOK
  <2>a. \A c \in Calls : call[c].token \in 0..MaxMints
    BY <1>t
  <2>b. \A t \in Minted : t \in Nat
    BY DEF Minted
  <2>3. PollsPast'
    BY <1>0, <1>t, <2>1, <2>a, <2>b DEF PollsPast
  <2>4. ASSUME NEW t \in Minted, t <= token', t \notin moved'
        PROVE  (baseline'[t].known => baseline'[t].seen = links') /\ \A c \in Calls : call'[c].token = t /\ call'[c].read.known => call'[c].read.seen = links'
    <3>1. CASE t <= token
      BY <1>0, <2>1, <2>4, <3>1 DEF Unmoved
    <3>2. CASE ~(t <= token)
      BY <1>0, <2>1, <2>4, <3>2 DEF PollsPast
    <3> QED BY <3>1, <3>2
  <2> QED BY <2>2, <2>3, <2>4 DEF PageInv, Unmoved
<1>2. ASSUME NEW u \in Chats, Redeem(u) PROVE PageInv'
  <2>1. links' \in Lists /\ moved' \subseteq Minted /\ PollsPast' /\ Unmoved'
    BY <1>2, LinkSet DEF Redeem
  <2>2. LinkPageTypeOK'
    BY <1>2, <1>t, <2>1 DEF Redeem, LinkPageTypeOK
  <2> QED BY <2>1, <2>2 DEF PageInv
<1>3. ASSUME NEW u \in Chats, NEW status \in {"active", "revoked"}, Elsewhere(u, status) PROVE PageInv'
  <2>1. links' \in Lists /\ moved' \subseteq Minted /\ PollsPast' /\ Unmoved'
    BY <1>3, LinkSet DEF Elsewhere
  <2>2. LinkPageTypeOK'
    BY <1>3, <1>t, <2>1 DEF Elsewhere, LinkPageTypeOK
  <2> QED BY <2>1, <2>2 DEF PageInv
<1>4. ASSUME NEW c \in Calls, PollStarts(c) PROVE PageInv'
  <2>1. PICK k : k = [NoCall EXCEPT !.token = token]
    OBVIOUS
  <2>2. call' = [call EXCEPT ![c] = k] /\ links' = links /\ token' = token /\ baseline' = baseline /\ moved' = moved
    BY <1>4, <2>1 DEF PollStarts
  <2>3. k \in [token : 0..MaxMints, read : Reads] /\ k.token = token /\ ~k.read.known
    BY <1>t, <2>1, Nones DEF NoCall
  <2>4. LinkPageTypeOK'
    BY <1>4, <1>t, <2>2, <2>3 DEF PollStarts, LinkPageTypeOK
  <2>5. \A d \in Calls : call'[d] = IF d = c THEN k ELSE call[d]
    BY <1>t, <2>2
  <2>6. PollsPast' /\ Unmoved'
    BY <1>0, <1>t, <2>2, <2>3, <2>5 DEF PollsPast, Unmoved
  <2> QED BY <2>4, <2>6 DEF PageInv
<1>5. ASSUME NEW c \in Calls, PollReads(c) PROVE PageInv'
  <2>1. PICK r : r = [known |-> TRUE, seen |-> links]
    OBVIOUS
  <2>2. call' = [call EXCEPT ![c].read = r] /\ links' = links /\ token' = token /\ baseline' = baseline /\ moved' = moved /\ call[c].token # 0
    BY <1>5, <2>1 DEF PollReads
  <2>3. r \in Reads /\ r.seen = links
    BY <1>t, <2>1 DEF Reads
  <2>4. LinkPageTypeOK'
    BY <1>5, <1>t, <2>2, <2>3 DEF PollReads, LinkPageTypeOK
  <2>5. \A d \in Calls : call'[d].token = call[d].token /\ call'[d].read = IF d = c THEN r ELSE call[d].read
    BY <1>t, <2>2
  <2>6. PollsPast' /\ Unmoved'
    BY <1>0, <1>t, <2>2, <2>3, <2>5 DEF PollsPast, Unmoved
  <2> QED BY <2>4, <2>6 DEF PageInv
<1>6. ASSUME NEW c \in Calls, PollEnds(c) PROVE PageInv'
  <2>1. PICK t : t = call[c].token
    OBVIOUS
  <2>2. /\ call[c].read.known /\ call' = [call EXCEPT ![c] = NoCall]
        /\ baseline' = IF baseline[t].known THEN baseline ELSE [baseline EXCEPT ![t] = call[c].read]
        /\ links' = links /\ token' = token /\ moved' = moved
    BY <1>6, <2>1 DEF PollEnds
  <2>3. t \in Minted /\ t <= token /\ call[c].read \in Reads
    BY <1>0, <1>t, <2>1, <2>2 DEF PollsPast, Minted
  <2>4. LinkPageTypeOK'
    <3>1. baseline' \in [Minted -> Reads]
      BY <1>t, <2>2, <2>3
    <3>2. call' \in [Calls -> [token : 0..MaxMints, read : Reads]]
      BY <1>t, <2>2, Nones
    <3>3. shown' \in BOOLEAN
      BY <1>6 DEF PollEnds
    <3> QED BY <1>6, <1>t, <3>1, <3>2, <3>3 DEF PollEnds, LinkPageTypeOK
  <2>5. \A d \in Calls : call'[d] = IF d = c THEN NoCall ELSE call[d]
    BY <1>t, <2>2
  <2>6. \A x \in Minted : baseline'[x] = baseline[x] \/ (x = t /\ baseline'[x] = call[c].read)
    BY <1>t, <2>2
  <2>7. PollsPast'
    BY <1>0, <1>t, <2>2, <2>3, <2>5, <2>6, Nones DEF PollsPast
  <2>8. t \notin moved => call[c].read.seen = links
    BY <1>0, <2>1, <2>2, <2>3 DEF Unmoved
  <2>9. Unmoved'
    BY <1>0, <2>2, <2>5, <2>6, <2>8, Nones DEF Unmoved
  <2> QED BY <2>4, <2>7, <2>9 DEF PageInv
<1>7. ASSUME NEW c \in Calls, PollFails(c) PROVE PageInv'
  <2>1. call' = [call EXCEPT ![c] = NoCall] /\ links' = links /\ token' = token /\ baseline' = baseline /\ moved' = moved
    BY <1>7 DEF PollFails
  <2>2. LinkPageTypeOK'
    BY <1>7, <1>t, <2>1, Nones DEF PollFails, LinkPageTypeOK
  <2>3. \A d \in Calls : call'[d] = IF d = c THEN NoCall ELSE call[d]
    BY <1>t, <2>1
  <2>4. PollsPast' /\ Unmoved'
    BY <1>0, <1>t, <2>1, <2>3, Nones DEF PollsPast, Unmoved
  <2> QED BY <2>2, <2>4 DEF PageInv
<1>8. CASE UNCHANGED linkPageVars
  BY <1>0, <1>8 DEF linkPageVars, PageInv, LinkPageTypeOK, PollsPast, Unmoved
<1> QED BY <1>1, <1>2, <1>3, <1>4, <1>5, <1>6, <1>7, <1>8 DEF LinkPageNext

LEMMA DropHasCause == PageInv /\ (LinkPageNext \/ UNCHANGED linkPageVars) => DropMeansChange
<1> SUFFICES ASSUME PageInv, LinkPageNext \/ UNCHANGED linkPageVars,
                    NEW c \in Calls, shown, ~shown', call'[c] # call[c], call[c].token \notin moved
             PROVE  FALSE
  BY DEF DropMeansChange
<1>t. LinkPageTypeOK /\ PollsPast /\ Unmoved
  BY DEF PageInv
<1>1. PICK d \in Calls : PollEnds(d)
  BY DEF LinkPageNext, Mint, Redeem, Elsewhere, PollStarts, PollReads, PollFails, linkPageVars
<1>2. d = c
  BY <1>1, <1>t DEF PollEnds, LinkPageTypeOK
<1>3. call[c].read.known /\ Lands(c)
  BY <1>1, <1>2 DEF PollEnds
<1>4. call[c].token \in Minted /\ call[c].token <= token
  BY <1>3, <1>t, LinkPageAssumption DEF PollsPast, Minted, LinkPageTypeOK
<1> QED BY <1>3, <1>4, <1>t DEF Unmoved, Lands, BaselineOf

(***************************************************************************)
(* The sockets.                                                            *)
(***************************************************************************)
SockRow == [bot : BOOLEAN, hub : BOOLEAN, alive : BOOLEAN, hello : BOOLEAN, age : 0..StableAfter,
            ping : 0..PingEvery, pong : 0..PongWithin, idle : 0..MaxIdle + 1]

(* A live socket is pinged and heard in time. *)
Heard == \A s \in Socks : sock[s].hub /\ sock[s].alive /\ sock[s].bot =>
    sock[s].pong = 0 /\ sock[s].idle <= sock[s].ping /\ sock[s].ping <= PingEvery
SockInv == sock \in [Socks -> SockRow] /\ Heard /\ trouble \in 0..MaxTrouble

LEMMA Rows == NoSock \in SockRow /\ Opened \in SockRow
<1> USE BotSocketAssumption
<1>1. 0 \in 0..StableAfter /\ 0 \in 0..PingEvery /\ 0 \in 0..PongWithin /\ 0 \in 0..MaxIdle + 1
  OBVIOUS
<1>2. NoSock \in SockRow
  BY <1>1 DEF NoSock, SockRow
<1>3. Opened = [bot |-> TRUE, hub |-> TRUE, alive |-> TRUE, hello |-> TRUE, age |-> 0, ping |-> 0, pong |-> 0, idle |-> 0]
  <2>1. PICK k : k = [bot |-> FALSE, hub |-> FALSE, alive |-> FALSE, hello |-> FALSE, age |-> 0, ping |-> 0, pong |-> 0, idle |-> 0]
    OBVIOUS
  <2>2. Opened = [k EXCEPT !.bot = TRUE, !.hub = TRUE, !.alive = TRUE, !.hello = TRUE]
    BY <2>1 DEF Opened, NoSock
  <2> QED BY <2>1, <2>2
<1> QED BY <1>1, <1>2, <1>3 DEF SockRow

(* A row as it is, its ends or its path lost, heard again or forgotten. *)
Fades(k, m) ==
    /\ m \in SockRow
    /\ \/ m = NoSock
       \/ /\ m.hub => k.hub
          /\ m.bot => k.bot
          /\ m.alive => k.alive
          /\ m.ping = k.ping /\ m.pong = k.pong /\ m.idle \in {k.idle, 0}

LEMMA Frees == ASSUME NEW k \in SockRow, NEW s PROVE Fades(k, Free(s, [k EXCEPT !.bot = FALSE])) /\ Fades(k, Free(s, [k EXCEPT !.hub = FALSE])) /\ Fades(k, k)
BY Rows DEF Fades, Free, SockRow

(* What a tick does to a socket that has an end. *)
LEMMA AgedRow ==
    ASSUME NEW s \in Socks, NEW k \in SockRow, k = sock[s], k # NoSock,
           NEW pinged \in BOOLEAN, pinged <=> (k.bot /\ k.ping = PingEvery),
           NEW heard \in BOOLEAN, heard <=> (pinged /\ k.alive /\ k.hub)
    PROVE  /\ Aged(s) \in SockRow
           /\ Aged(s).bot = k.bot /\ Aged(s).hub = k.hub /\ Aged(s).alive = k.alive /\ Aged(s).hello = k.hello
           /\ Aged(s).ping = IF ~k.bot \/ k.pong > 0 THEN k.ping ELSE IF pinged THEN 1 ELSE k.ping + 1
           /\ Aged(s).pong = IF k.pong > 0 \/ (pinged /\ ~heard) THEN Now(k.pong, PongWithin) ELSE 0
           /\ Aged(s).idle = IF heard THEN 0 ELSE Now(k.idle, MaxIdle + 1)
<1> USE BotSocketAssumption
<1>1. PICK ag : ag = Now(k.age, StableAfter)
  OBVIOUS
<1>2. PICK pi : pi = IF ~k.bot \/ k.pong > 0 THEN k.ping ELSE IF pinged THEN 1 ELSE k.ping + 1
  OBVIOUS
<1>3. PICK po : po = IF k.pong > 0 \/ (pinged /\ ~heard) THEN Now(k.pong, PongWithin) ELSE 0
  OBVIOUS
<1>4. PICK id : id = IF heard THEN 0 ELSE Now(k.idle, MaxIdle + 1)
  OBVIOUS
<1>5. Aged(s) = [k EXCEPT !.age = ag, !.ping = pi, !.pong = po, !.idle = id]
  BY <1>1, <1>2, <1>3, <1>4 DEF Aged
<1>6. k.age \in 0..StableAfter /\ k.ping \in 0..PingEvery /\ k.pong \in 0..PongWithin /\ k.idle \in 0..MaxIdle + 1
  BY DEF SockRow
<1>7. ag \in 0..StableAfter
  BY <1>1, <1>6 DEF Now
<1>8. pi \in 0..PingEvery
  BY <1>2, <1>6
<1>9. po \in 0..PongWithin
  BY <1>3, <1>6 DEF Now
<1>10. id \in 0..MaxIdle + 1
  BY <1>4, <1>6 DEF Now
<1>11. Aged(s) = [bot |-> k.bot, hub |-> k.hub, alive |-> k.alive, hello |-> k.hello, age |-> ag, ping |-> pi, pong |-> po, idle |-> id]
  BY <1>5 DEF SockRow
<1> QED BY <1>2, <1>3, <1>4, <1>7, <1>8, <1>9, <1>10, <1>11 DEF SockRow

LEMMA Ages ==
    ASSUME NEW s \in Socks, sock[s] \in SockRow
    PROVE  /\ Aged(s) \in SockRow /\ (Aged(s).hub <=> sock[s].hub) /\ (Aged(s).alive <=> sock[s].alive) /\ (Aged(s).bot <=> sock[s].bot)
           /\ sock[s].hub /\ sock[s].alive /\ sock[s].bot /\ sock[s].pong = 0 /\ sock[s].idle <= sock[s].ping
              => Aged(s).pong = 0 /\ Aged(s).idle <= Aged(s).ping
<1>1. PICK k \in SockRow : k = sock[s]
  OBVIOUS
<1>2. CASE k = NoSock
  BY <1>1, <1>2 DEF Aged
<1>3. CASE k # NoSock
  <2>1. PICK pinged \in BOOLEAN : pinged <=> (k.bot /\ k.ping = PingEvery)
    OBVIOUS
  <2>2. PICK heard \in BOOLEAN : heard <=> (pinged /\ k.alive /\ k.hub)
    OBVIOUS
  <2>3. /\ Aged(s) \in SockRow
        /\ Aged(s).bot = k.bot /\ Aged(s).hub = k.hub /\ Aged(s).alive = k.alive /\ Aged(s).hello = k.hello
        /\ Aged(s).ping = IF ~k.bot \/ k.pong > 0 THEN k.ping ELSE IF pinged THEN 1 ELSE k.ping + 1
        /\ Aged(s).pong = IF k.pong > 0 \/ (pinged /\ ~heard) THEN Now(k.pong, PongWithin) ELSE 0
        /\ Aged(s).idle = IF heard THEN 0 ELSE Now(k.idle, MaxIdle + 1)
    BY <1>1, <1>3, <2>1, <2>2, AgedRow
  <2>4. k.ping \in 0..PingEvery /\ k.pong \in 0..PongWithin /\ k.idle \in 0..MaxIdle + 1
    BY DEF SockRow
  <2>5. k.hub /\ k.alive /\ k.bot /\ k.pong = 0 /\ k.idle <= k.ping => Aged(s).pong = 0 /\ Aged(s).idle <= Aged(s).ping
    BY <2>1, <2>2, <2>3, <2>4, BotSocketAssumption DEF Now
  <2> QED BY <1>1, <2>3, <2>5
<1> QED BY <1>2, <1>3

(* What a step does to a socket. *)
Changes(s) ==
    \/ Fades(sock[s], sock'[s]) /\ (trouble' # trouble \/ (sock[s].hub /\ sock[s].alive /\ sock[s].bot => sock'[s].hub))
    \/ sock'[s] = Opened /\ sock[s] = NoSock
    \/ sock'[s] = Aged(s)

LEMMA SocksStep == SockInv /\ (SocketNext \/ UNCHANGED socketVars) => sock' = [s \in Socks |-> sock'[s]] /\ \A s \in Socks : Changes(s)
<1> SUFFICES ASSUME SockInv, SocketNext \/ UNCHANGED socketVars PROVE sock' = [s \in Socks |-> sock'[s]] /\ \A s \in Socks : Changes(s)
  OBVIOUS
<1>0. sock \in [Socks -> SockRow] /\ Heard /\ trouble \in 0..MaxTrouble /\ MaxTrouble \in Nat
  BY BotSocketAssumption DEF SockInv
<1>s. \A s \in Socks : sock[s] \in SockRow /\ Fades(sock[s], sock[s])
  BY <1>0, Frees
<1>1. CASE sock' = sock
  BY <1>0, <1>1, <1>s DEF Changes
<1>h. ASSUME NEW S \in SUBSET Socks, HubCloses(S), \A s \in S : trouble' # trouble \/ ~(sock[s].hub /\ sock[s].alive /\ sock[s].bot)
      PROVE  sock' = [s \in Socks |-> sock'[s]] /\ \A s \in Socks : Changes(s)
  BY <1>h, <1>s, Frees DEF HubCloses, Changes
<1>2. ASSUME NEW l \in Loops, NEW s \in Socks, Connect(l, s) PROVE sock' = [x \in Socks |-> sock'[x]] /\ \A x \in Socks : Changes(x)
  BY <1>0, <1>2, <1>s DEF Connect, Changes
<1>3. ASSUME NEW l \in Loops, Drops(l) PROVE sock' = [x \in Socks |-> sock'[x]] /\ \A x \in Socks : Changes(x)
  <2>1. PICK t : t = loop[l].sock
    OBVIOUS
  <2>2. sock' = [sock EXCEPT ![t] = Free(t, [@ EXCEPT !.bot = FALSE])]
    BY <1>3, <2>1 DEF Drops
  <2>3. ASSUME NEW x \in Socks PROVE Changes(x)
    <3>1. CASE x # t
      BY <1>s, <2>2, <3>1 DEF Changes
    <3>2. CASE x = t
      <4>1. sock'[x] = Free(x, [sock[x] EXCEPT !.bot = FALSE])
        BY <1>0, <2>2, <3>2
      <4>2. Fades(sock[x], sock'[x])
        BY <4>1, <1>s, Frees
      <4>3. sock[x].hub => sock'[x].hub
        BY <4>1, <1>s DEF Free, SockRow
      <4> QED BY <4>2, <4>3 DEF Changes
    <3> QED BY <3>1, <3>2
  <2> QED BY <1>0, <2>2, <2>3
<1>4. ASSUME NEW s \in Socks, Hello(s) PROVE sock' = [x \in Socks |-> sock'[x]] /\ \A x \in Socks : Changes(x)
  <2>1. sock' = [sock EXCEPT ![s].hello = FALSE, ![s].idle = 0]
    BY <1>4 DEF Hello
  <2>2. ASSUME NEW x \in Socks PROVE Changes(x)
    <3>1. CASE x # s
      BY <1>0, <1>s, <2>1, <3>1 DEF Changes
    <3>2. CASE x = s
      <4>1. sock'[x] = [sock[x] EXCEPT !.hello = FALSE, !.idle = 0]
        BY <1>0, <2>1, <3>2
      <4>2. 0 \in 0..MaxIdle + 1
        BY BotSocketAssumption
      <4>3. Fades(sock[x], sock'[x])
        BY <1>s, <4>1, <4>2 DEF Fades, SockRow
      <4>4. sock[x].hub => sock'[x].hub
        BY <1>s, <4>1 DEF SockRow
      <4> QED BY <4>3, <4>4 DEF Changes
    <3> QED BY <3>1, <3>2
  <2> QED BY <1>0, <2>1, <2>2
<1>5. ASSUME NEW s \in Socks, Closed(s) PROVE sock' = [x \in Socks |-> sock'[x]] /\ \A x \in Socks : Changes(x)
  BY <1>5, <1>h DEF Closed
<1>6. ASSUME NEW s \in Socks, Resets(s) PROVE sock' = [x \in Socks |-> sock'[x]] /\ \A x \in Socks : Changes(x)
  <2>1. trouble' # trouble
    BY <1>6, <1>0 DEF Resets, Trouble
  <2> QED BY <1>6, <1>h, <2>1 DEF Resets
<1>7. ASSUME NEW s \in Socks, Stalls(s) PROVE sock' = [x \in Socks |-> sock'[x]] /\ \A x \in Socks : Changes(x)
  <2>1. sock' = [sock EXCEPT ![s].alive = FALSE] /\ trouble' # trouble
    BY <1>7, <1>0 DEF Stalls, Trouble
  <2>2. ASSUME NEW x \in Socks PROVE Changes(x)
    <3>1. CASE x # s
      BY <1>0, <1>s, <2>1, <3>1 DEF Changes
    <3>2. CASE x = s
      <4>1. sock'[x] = [sock[x] EXCEPT !.alive = FALSE]
        BY <1>0, <2>1, <3>2
      <4>2. Fades(sock[x], sock'[x])
        BY <1>s, <4>1 DEF Fades, SockRow
      <4> QED BY <2>1, <4>2 DEF Changes
    <3> QED BY <3>1, <3>2
  <2> QED BY <1>0, <2>1, <2>2
<1>8. CASE Sweep
  <2>1. PICK S \in SUBSET Socks : S = {s \in Socks : sock[s].hub /\ TooQuiet(s)}
    OBVIOUS
  <2>2. HubCloses(S)
    BY <1>8, <2>1 DEF Sweep
  <2>3. ASSUME NEW s \in S, sock[s].hub, sock[s].alive, sock[s].bot PROVE FALSE
    <3>1. sock[s].idle > MaxIdle /\ sock[s].idle <= sock[s].ping /\ sock[s].ping <= PingEvery
      BY <1>0, <2>1, <2>3 DEF TooQuiet, Heard
    <3>2. sock[s].idle \in Nat /\ sock[s].ping \in Nat
      BY <1>s, <2>3, BotSocketAssumption DEF SockRow
    <3> QED BY <3>1, <3>2, BotSocketAssumption
  <2> QED BY <1>h, <2>2, <2>3
<1>9. CASE GoesDown
  <2>1. trouble' # trouble
    BY <1>9, <1>0 DEF GoesDown, Trouble
  <2>2. PICK S \in SUBSET Socks : S = {s \in Socks : sock[s].hub}
    OBVIOUS
  <2>3. HubCloses(S)
    BY <1>9, <2>2 DEF GoesDown
  <2> QED BY <1>h, <2>1, <2>3
<1>10. CASE SocketTick
  BY <1>10 DEF SocketTick, Changes
<1>11. CASE BotRestarts
  <2>1. sock' = [s \in Socks |-> Free(s, [sock[s] EXCEPT !.bot = FALSE])] /\ trouble' # trouble
    BY <1>11, <1>0 DEF BotRestarts, Trouble
  <2> QED BY <1>s, <2>1, Frees DEF Changes
<1>12. ASSUME NEW l \in Loops, StartLoop(l) \/ ConnectFails(l) \/ Wakes(l) PROVE sock' = sock
  BY <1>12 DEF StartLoop, ConnectFails, Wakes
<1>13. CASE ComesUp \/ UNCHANGED socketVars
  BY <1>1, <1>13 DEF ComesUp, socketVars
<1> QED BY <1>1, <1>2, <1>3, <1>4, <1>5, <1>6, <1>7, <1>8, <1>9, <1>10, <1>11, <1>12, <1>13 DEF SocketNext

LEMMA SocksKept == SockInv /\ (SocketNext \/ UNCHANGED socketVars) => SockInv' /\ HealthyKept
<1> SUFFICES ASSUME SockInv, SocketNext \/ UNCHANGED socketVars PROVE SockInv' /\ HealthyKept
  OBVIOUS
<1> USE BotSocketAssumption
<1>0. sock \in [Socks -> SockRow] /\ Heard /\ trouble \in 0..MaxTrouble
  BY DEF SockInv
<1>1. sock' = [s \in Socks |-> sock'[s]] /\ \A s \in Socks : Changes(s)
  BY SocksStep
<1>2. trouble' \in 0..MaxTrouble
  <2>1. trouble' = trouble \/ Trouble
    BY DEF SocketNext, StartLoop, ConnectFails, Wakes, Drops, Connect, Hello, Closed, Resets, Stalls, Sweep, GoesDown, ComesUp, SocketTick, BotRestarts, socketVars
  <2> QED BY <1>0, <2>1 DEF Trouble
<1>3. ASSUME NEW s \in Socks
      PROVE  /\ sock'[s] \in SockRow
             /\ sock'[s].hub /\ sock'[s].alive /\ sock'[s].bot => sock'[s].pong = 0 /\ sock'[s].idle <= sock'[s].ping
             /\ sock[s].hub /\ sock[s].alive /\ sock[s].bot /\ ~sock'[s].hub => trouble' # trouble
  <2>0. sock[s] \in SockRow /\ (sock[s].hub /\ sock[s].alive /\ sock[s].bot => sock[s].pong = 0 /\ sock[s].idle <= sock[s].ping)
    BY <1>0 DEF Heard
  <2>n. sock[s].ping \in Nat /\ 0 <= sock[s].ping
    BY <2>0 DEF SockRow
  <2>1. CASE Fades(sock[s], sock'[s]) /\ (trouble' # trouble \/ (sock[s].hub /\ sock[s].alive /\ sock[s].bot => sock'[s].hub))
    BY <2>0, <2>1, <2>n DEF Fades, NoSock
  <2>2. CASE sock'[s] = Opened /\ sock[s] = NoSock
    BY <2>2, Rows DEF Opened, NoSock
  <2>3. CASE sock'[s] = Aged(s)
    <3>1. Aged(s) \in SockRow /\ (Aged(s).hub <=> sock[s].hub) /\ (Aged(s).alive <=> sock[s].alive) /\ (Aged(s).bot <=> sock[s].bot)
      BY <2>0, Ages
    <3>2. sock[s].hub /\ sock[s].alive /\ sock[s].bot /\ sock[s].pong = 0 /\ sock[s].idle <= sock[s].ping
          => Aged(s).pong = 0 /\ Aged(s).idle <= Aged(s).ping
      BY <2>0, Ages
    <3> QED BY <2>0, <2>3, <3>1, <3>2
  <2> QED BY <1>1, <2>1, <2>2, <2>3 DEF Changes
<1>4. sock' \in [Socks -> SockRow]
  BY <1>1, <1>3
<1>5. \A s \in Socks : sock'[s].ping <= PingEvery
  BY <1>4 DEF SockRow
<1> QED BY <1>2, <1>3, <1>4, <1>5 DEF SockInv, Heard, HealthyKept

(***************************************************************************)
(* The loops.                                                              *)
(***************************************************************************)
LoopRow == [at : {"off", "connect", "open", "sleep"}, backoff : 1..MaxBackoff, wait : 0..MaxBackoff, sock : Socks \cup {Nil}]
Opens(l, s) == loop[l].at = "open" /\ loop[l].sock = s

LoopsTyped ==
    /\ loop \in [Loops -> LoopRow] /\ slot \in Socks \cup {Nil} /\ registered \subseteq Socks
    /\ up \in BOOLEAN /\ calm \in 0..Recovery /\ (up \/ calm = 0)
    /\ \A l \in Loops : loop[l].at = "off" => loop[l] = Off

(* An open loop owns one end of its socket, and no other does. *)
Owned ==
    /\ \A l \in Loops : loop[l].at = "open" => loop[l].sock \in Socks /\ sock[loop[l].sock].bot
    /\ \A l, m \in Loops, s \in Socks : Opens(l, s) /\ Opens(m, s) => l = m
    /\ \A s \in Socks : sock[s].bot => \E l \in Loops : Opens(l, s)

(* _ws is an open loop's socket; while it is not set, some loop will set it.   *)
Slotted ==
    /\ slot = Nil => (\A l \in Loops : loop[l] = Off) \/ \E l \in Loops : loop[l].at \in {"connect", "sleep"}
    /\ slot # Nil => \E l \in Loops : Opens(l, slot)

(* The hub knows its open connections, once they have said hello. *)
Known ==
    /\ \A s \in registered : sock[s].hub
    /\ \A s \in Socks : sock[s].hub /\ ~sock[s].hello => s \in registered

(* How long ago the last trouble was at most, by what is waited for.           *)
Waits == \A l \in Loops : loop[l].at = "sleep" => calm + loop[l].wait <= PingEvery + PongWithin + MaxBackoff
Cut(k, c) ==
    /\ k.bot /\ k.alive => k.pong = 0 /\ (k.hub \/ c = 0)
    /\ k.bot /\ ~k.alive => c <= (IF k.pong = 0 THEN k.ping ELSE PingEvery + k.pong)
    /\ k.hub /\ ~k.alive => c <= k.idle \/ k.idle = MaxIdle + 1
Noticed == \A s \in Socks : Cut(sock[s], calm)

LoopsInv == SockInv /\ LoopsTyped /\ Owned /\ Slotted /\ Known /\ Waits /\ Noticed

LEMMA Recoveries == Recovery \in Nat /\ Recovery >= PingEvery + PongWithin + MaxBackoff /\ Recovery >= MaxIdle + 1
<1> USE BotSocketAssumption
<1>1. PICK a \in Nat : a = PingEvery + PongWithin + MaxBackoff
  OBVIOUS
<1>2. PICK b \in Nat : b = MaxIdle + 1
  OBVIOUS
<1>3. Recovery = IF a >= b THEN a ELSE b
  BY <1>1, <1>2 DEF Recovery, Max
<1> QED BY <1>1, <1>2, <1>3

LEMMA Blank == NoSock.bot = FALSE /\ NoSock.hub = FALSE /\ NoSock.alive = FALSE /\ Opened.bot /\ Opened.hub /\ Opened.alive /\ Opened.hello /\ Opened.pong = 0 /\ Opened.ping = 0 /\ Opened.idle = 0
<1>1. PICK k : k = [bot |-> FALSE, hub |-> FALSE, alive |-> FALSE, hello |-> FALSE, age |-> 0, ping |-> 0, pong |-> 0, idle |-> 0]
  OBVIOUS
<1>2. Opened = [k EXCEPT !.bot = TRUE, !.hub = TRUE, !.alive = TRUE, !.hello = TRUE] /\ NoSock = k
  BY <1>1 DEF Opened, NoSock
<1> QED BY <1>1, <1>2

(* What an end that goes leaves of a socket. *)
LEMMA Sooner ==
    ASSUME NEW k \in SockRow, NEW c \in Nat, NEW d \in Nat, d <= c, Cut(k, c)
    PROVE  Cut(k, d)
<1>1. k.ping \in Nat /\ k.pong \in Nat /\ k.idle \in Nat
  BY BotSocketAssumption DEF SockRow
<1> QED BY <1>1, BotSocketAssumption DEF Cut

LEMMA BotEnds ==
    ASSUME NEW s, NEW k \in SockRow, NEW c \in Nat, Cut(k, c), NEW m, m = Free(s, [k EXCEPT !.bot = FALSE])
    PROVE  ~m.bot /\ m.hub = k.hub /\ (k.hub => m.hello = k.hello) /\ Cut(m, c)
<1>1. k.bot \in BOOLEAN /\ k.hub \in BOOLEAN /\ k.alive \in BOOLEAN
  BY DEF SockRow
<1>2. CASE k.hub
  <2>1. m = [k EXCEPT !.bot = FALSE]
    BY <1>2 DEF Free, SockRow
  <2> QED BY <1>1, <2>1 DEF SockRow, Cut
<1>3. CASE ~k.hub
  <2>1. m = NoSock
    BY <1>3 DEF Free, SockRow
  <2> QED BY <1>1, <1>3, <2>1, Blank DEF Cut
<1> QED BY <1>2, <1>3

LEMMA HubEnds ==
    ASSUME NEW s, NEW k \in SockRow, NEW c \in Nat, Cut(k, c), k.bot /\ k.alive => c = 0, NEW m, m = Free(s, [k EXCEPT !.hub = FALSE])
    PROVE  ~m.hub /\ m.bot = k.bot /\ Cut(m, c)
<1>1. k.bot \in BOOLEAN /\ k.hub \in BOOLEAN /\ k.alive \in BOOLEAN
  BY DEF SockRow
<1>2. CASE k.bot
  <2>1. m = [k EXCEPT !.hub = FALSE]
    BY <1>2 DEF Free, SockRow
  <2> QED BY <1>1, <2>1 DEF SockRow, Cut
<1>3. CASE ~k.bot
  <2>1. m = NoSock
    BY <1>3 DEF Free, SockRow
  <2> QED BY <1>1, <1>3, <2>1, Blank DEF Cut
<1> QED BY <1>2, <1>3

LEMMA AgedCut ==
    ASSUME NEW s \in Socks, sock[s] \in SockRow, NEW c \in Nat, NEW d \in Nat, d <= c + 1, Cut(sock[s], c),
           sock[s].bot /\ sock[s].alive => sock[s].hub, ~(sock[s].bot /\ ~sock[s].alive /\ sock[s].pong = PongWithin)
    PROVE  Cut(Aged(s), d) /\ Aged(s).bot = sock[s].bot /\ Aged(s).hub = sock[s].hub /\ Aged(s).hello = sock[s].hello
<1> USE BotSocketAssumption
<1>1. PICK k \in SockRow : k = sock[s]
  OBVIOUS
<1>2. CASE k = NoSock
  BY <1>1, <1>2, Blank DEF Aged, Cut
<1>3. CASE k # NoSock
  <2>1. PICK pinged \in BOOLEAN : pinged <=> (k.bot /\ k.ping = PingEvery)
    OBVIOUS
  <2>2. PICK heard \in BOOLEAN : heard <=> (pinged /\ k.alive /\ k.hub)
    OBVIOUS
  <2>3. /\ Aged(s).bot = k.bot /\ Aged(s).hub = k.hub /\ Aged(s).alive = k.alive /\ Aged(s).hello = k.hello
        /\ Aged(s).ping = IF ~k.bot \/ k.pong > 0 THEN k.ping ELSE IF pinged THEN 1 ELSE k.ping + 1
        /\ Aged(s).pong = IF k.pong > 0 \/ (pinged /\ ~heard) THEN Now(k.pong, PongWithin) ELSE 0
        /\ Aged(s).idle = IF heard THEN 0 ELSE Now(k.idle, MaxIdle + 1)
    BY <1>1, <1>3, <2>1, <2>2, AgedRow
  <2>4. k.ping \in 0..PingEvery /\ k.pong \in 0..PongWithin /\ k.idle \in 0..MaxIdle + 1 /\ k.bot \in BOOLEAN /\ k.hub \in BOOLEAN /\ k.alive \in BOOLEAN
    BY DEF SockRow
  <2>5. Cut(k, c) /\ (k.bot /\ k.alive => k.hub) /\ ~(k.bot /\ ~k.alive /\ k.pong = PongWithin)
    BY <1>1
  <2>6. Aged(s).bot /\ Aged(s).alive => Aged(s).pong = 0 /\ (Aged(s).hub \/ d = 0)
    BY <2>1, <2>2, <2>3, <2>4, <2>5 DEF Cut
  <2>7. ASSUME k.bot, ~k.alive PROVE d <= (IF Aged(s).pong = 0 THEN Aged(s).ping ELSE PingEvery + Aged(s).pong)
    <3>0. ~heard /\ c <= (IF k.pong = 0 THEN k.ping ELSE PingEvery + k.pong)
      BY <2>2, <2>5, <2>7 DEF Cut
    <3>1. CASE k.pong = 0 /\ k.ping = PingEvery
      BY <2>1, <2>3, <2>4, <2>7, <3>0, <3>1 DEF Now
    <3>2. CASE k.pong = 0 /\ k.ping # PingEvery
      BY <2>1, <2>3, <2>4, <2>7, <3>0, <3>2 DEF Now
    <3>3. CASE k.pong > 0
      BY <2>3, <2>4, <2>5, <2>7, <3>0, <3>3 DEF Now
    <3> QED BY <2>4, <3>1, <3>2, <3>3
  <2>8. ASSUME k.hub, ~k.alive PROVE d <= Aged(s).idle \/ Aged(s).idle = MaxIdle + 1
    BY <2>2, <2>3, <2>4, <2>5, <2>8 DEF Cut, Now
  <2> QED BY <1>1, <2>3, <2>6, <2>7, <2>8 DEF Cut
<1> QED BY <1>2, <1>3

LEMMA LoopsStart == SocketInit => LoopsInv
<1> SUFFICES ASSUME SocketInit PROVE LoopsInv
  OBVIOUS
<1> USE BotSocketAssumption
<1>1. Off \in LoopRow /\ Off.at = "off"
  BY DEF Off, LoopRow
<1>2. SockInv
  BY Rows, Blank DEF SocketInit, SockInv, Heard
<1>3. LoopsTyped /\ Slotted /\ Waits
  BY <1>1, Recoveries DEF SocketInit, LoopsTyped, Slotted, Waits
<1>4. Owned /\ Known /\ Noticed
  BY <1>1, Blank DEF SocketInit, Owned, Opens, Known, Noticed, Cut
<1> QED BY <1>2, <1>3, <1>4 DEF LoopsInv

LEMMA Turns ==
    ASSUME LoopsTyped, NEW l \in Loops, NEW age, EndsTurn(l, age)
    PROVE  slot' = Nil /\ \E k \in LoopRow : k.at = "sleep" /\ loop' = [loop EXCEPT ![l] = k]
<1> USE BotSocketAssumption
<1>1. PICK b : b = IF loop[l].at = "open" /\ Stable(age) THEN 1 ELSE loop[l].backoff
  OBVIOUS
<1>2. b \in 1..MaxBackoff
  BY <1>1 DEF LoopsTyped, LoopRow
<1>3. PICK c : c = Min({2 * b, MaxBackoff})
  OBVIOUS
<1>4. c = IF 2 * b <= MaxBackoff THEN 2 * b ELSE MaxBackoff
  <2>1. PICK d \in Nat : d = 2 * b
    BY <1>2
  <2>2. PICK e \in Nat : e = MaxBackoff
    OBVIOUS
  <2>3. c = IF d <= e THEN d ELSE e
    BY <1>3, <2>1, <2>2 DEF Min
  <2> QED BY <2>1, <2>2, <2>3
<1>5. PICK k : k = [at |-> "sleep", wait |-> b, sock |-> Nil, backoff |-> c]
  OBVIOUS
<1>6. k \in LoopRow
  BY <1>2, <1>4, <1>5 DEF LoopRow
<1>7. loop' = [loop EXCEPT ![l] = k] /\ slot' = Nil
  BY <1>1, <1>3, <1>5 DEF EndsTurn, Cleared
<1> QED BY <1>5, <1>6, <1>7

LEMMA ClosesKeep ==
    ASSUME LoopsInv, SockInv', NEW S \in SUBSET Socks, HubCloses(S), UNCHANGED <<loop, slot>>,
           calm' \in {calm, 0}, up' \in BOOLEAN, up' \/ calm' = 0,
           \A s \in S : sock[s].bot /\ sock[s].alive => calm' = 0
    PROVE  LoopsInv'
<1>0. /\ sock \in [Socks -> SockRow] /\ LoopsTyped /\ Owned /\ Slotted /\ Known /\ Waits /\ Noticed
      /\ calm \in Nat /\ calm' \in Nat /\ calm' <= calm /\ calm' \in 0..Recovery
  BY Recoveries DEF LoopsInv, SockInv, LoopsTyped
<1>1. registered' = registered \ S /\ \A s \in Socks : sock'[s] = IF s \in S THEN Free(s, [sock[s] EXCEPT !.hub = FALSE]) ELSE sock[s]
  BY DEF HubCloses, unregister
<1>2. ASSUME NEW s \in Socks
      PROVE  /\ sock'[s].bot = sock[s].bot /\ (s \in S => ~sock'[s].hub) /\ (s \notin S => sock'[s] = sock[s]) /\ Cut(sock'[s], calm')
  <2>1. sock[s] \in SockRow /\ Cut(sock[s], calm)
    BY <1>0 DEF Noticed
  <2>2. CASE s \in S
    <3>1. sock'[s] = Free(s, [sock[s] EXCEPT !.hub = FALSE])
      BY <1>1, <2>2
    <3>2. sock[s].bot /\ sock[s].alive => calm' = 0
      BY <2>2
    <3>a. PICK k \in SockRow : k = sock[s]
      BY <2>1
    <3>d. PICK d \in Nat : d = calm' /\ d <= calm
      BY <1>0
    <3>3. PICK m : m = Free(s, [k EXCEPT !.hub = FALSE])
      OBVIOUS
    <3>b. Cut(k, d) /\ (k.bot /\ k.alive => d = 0)
      BY <1>0, <2>1, <3>2, <3>a, <3>d, Sooner
    <3>c. ~m.hub /\ m.bot = k.bot /\ Cut(m, d)
      BY <3>3, <3>b, HubEnds
    <3>4. ~m.hub /\ m.bot = sock[s].bot /\ Cut(m, calm') /\ m = Free(s, [sock[s] EXCEPT !.hub = FALSE])
      BY <3>3, <3>a, <3>c, <3>d
    <3> QED BY <2>2, <3>1, <3>3, <3>4
  <2>3. CASE s \notin S
    BY <1>0, <1>1, <2>1, <2>3, Sooner
  <2> QED BY <2>2, <2>3
<1>3. LoopsTyped' /\ Slotted' /\ Waits'
  <2>1. Waits'
    BY <1>0, BotSocketAssumption DEF Waits, LoopsTyped, LoopRow
  <2> QED BY <1>0, <1>1, <2>1 DEF LoopsTyped, Slotted, Opens
<1>4. Owned'
  BY <1>0, <1>2 DEF Owned, Opens
<1>5. Known' /\ Noticed'
  BY <1>0, <1>1, <1>2 DEF Known, Noticed, LoopsTyped
<1> QED BY <1>3, <1>4, <1>5 DEF LoopsInv

LEMMA LoopsKept == LoopsInv /\ (SocketNext \/ UNCHANGED socketVars) => LoopsInv'
<1> SUFFICES ASSUME LoopsInv, SocketNext \/ UNCHANGED socketVars PROVE LoopsInv'
  OBVIOUS
<1> USE BotSocketAssumption
<1>0. /\ sock \in [Socks -> SockRow] /\ LoopsTyped /\ Owned /\ Slotted /\ Known /\ Waits /\ Noticed
      /\ loop \in [Loops -> LoopRow] /\ registered \subseteq Socks /\ slot \in Socks \cup {Nil}
      /\ calm \in 0..Recovery /\ calm \in Nat /\ SockInv /\ trouble \in 0..MaxTrouble
  BY Recoveries DEF LoopsInv, SockInv, LoopsTyped
<1>n. SockInv'
  BY <1>0, SocksKept
<1>r. \A s \in Socks : sock[s] \in SockRow /\ Cut(sock[s], calm)
  BY <1>0 DEF Noticed
<1>1. ASSUME NEW l \in Loops, StartLoop(l) \/ Wakes(l) PROVE LoopsInv'
  <2>1. PICK k \in LoopRow : k = loop[l]
    BY <1>0
  <2>2. PICK r : r = [k EXCEPT !.at = "connect"]
    OBVIOUS
  <2>3. r \in LoopRow /\ r.at = "connect"
    BY <2>2 DEF LoopRow
  <2>4. loop' = [loop EXCEPT ![l] = r] /\ UNCHANGED <<slot, sock, registered, up, calm>> /\ loop[l].at \in {"off", "sleep"}
    BY <1>1, <2>1, <2>2 DEF StartLoop, Wakes, Off
  <2>5. \A m \in Loops : loop'[m] = IF m = l THEN r ELSE loop[m]
    BY <1>0, <2>4
  <2>6. \A m \in Loops : loop'[m].at = "open" <=> loop[m].at = "open"
    BY <2>3, <2>4, <2>5
  <2>7. \A m \in Loops : loop'[m].at # "connect" => loop'[m] = loop[m]
    BY <2>3, <2>5
  <2>8. LoopsTyped'
    BY <1>0, <2>3, <2>4, <2>5 DEF LoopsTyped
  <2>9. \A m \in Loops : \A s : Opens(m, s)' <=> Opens(m, s)
    BY <2>6, <2>7 DEF Opens
  <2>10. Owned' /\ Known' /\ Noticed'
    BY <1>0, <2>4, <2>6, <2>7, <2>9 DEF Owned, Known, Noticed
  <2>11. Slotted'
    BY <1>0, <2>3, <2>4, <2>5, <2>9 DEF Slotted
  <2>12. Waits'
    BY <1>0, <2>4, <2>7 DEF Waits
  <2> QED BY <1>n, <2>8, <2>10, <2>11, <2>12 DEF LoopsInv
<1>2. ASSUME NEW l \in Loops, NEW s \in Socks, Connect(l, s) PROVE LoopsInv'
  <2>1. PICK k \in LoopRow : k = loop[l]
    BY <1>0
  <2>2. PICK r : r = [k EXCEPT !.at = "open", !.sock = s]
    OBVIOUS
  <2>3. r \in LoopRow /\ r.at = "open" /\ r.sock = s
    BY <2>2 DEF LoopRow
  <2>4. /\ loop' = [loop EXCEPT ![l].at = "open", ![l].sock = s] /\ slot' = s /\ sock' = [sock EXCEPT ![s] = Opened]
        /\ UNCHANGED <<registered, up, calm>> /\ loop[l].at = "connect" /\ sock[s] = NoSock
    BY <1>2 DEF Connect
  <2>5. \A m \in Loops : loop'[m] = IF m = l THEN r ELSE loop[m]
    BY <1>0, <2>1, <2>2, <2>4
  <2>6. \A x \in Socks : sock'[x] = IF x = s THEN Opened ELSE sock[x]
    BY <1>0, <2>4
  <2>7. LoopsTyped'
    <3>1. loop' \in [Loops -> LoopRow]
      BY <1>0, <2>1, <2>2, <2>3, <2>4
    <3> QED BY <1>0, <2>3, <2>4, <2>5, <3>1 DEF LoopsTyped
  <2>8. \A m \in Loops, x \in Socks : Opens(m, x)' <=> (IF m = l THEN x = s ELSE Opens(m, x))
    BY <2>3, <2>5 DEF Opens
  <2>9. \A m \in Loops : ~Opens(m, s)
    BY <1>0, <2>4, Blank DEF Owned, Opens
  <2>10. Owned'
    <3>1. \A m \in Loops : loop'[m].at = "open" => loop'[m].sock \in Socks /\ sock'[loop'[m].sock].bot
      <4> SUFFICES ASSUME NEW m \in Loops, loop'[m].at = "open" PROVE loop'[m].sock \in Socks /\ sock'[loop'[m].sock].bot
        OBVIOUS
      <4>1. CASE m = l
        BY <2>3, <2>5, <2>6, <4>1, Blank
      <4>2. CASE m # l
        BY <1>0, <2>4, <2>5, <2>6, <4>2, Blank DEF Owned
      <4> QED BY <4>1, <4>2
    <3>2. \A m, n \in Loops, x \in Socks : Opens(m, x)' /\ Opens(n, x)' => m = n
      BY <1>0, <2>8, <2>9 DEF Owned
    <3>3. \A x \in Socks : sock'[x].bot => \E m \in Loops : Opens(m, x)'
      <4> SUFFICES ASSUME NEW x \in Socks, sock'[x].bot PROVE \E m \in Loops : Opens(m, x)'
        OBVIOUS
      <4>1. CASE x = s
        BY <2>8, <4>1
      <4>2. CASE x # s
        <5>1. PICK m \in Loops : Opens(m, x)
          BY <1>0, <2>6, <4>2 DEF Owned
        <5>2. m # l
          BY <2>4, <5>1 DEF Opens
        <5> QED BY <2>8, <5>1, <5>2
      <4> QED BY <4>1, <4>2
    <3> QED BY <3>1, <3>2, <3>3 DEF Owned
  <2>11. Slotted'
    BY <2>4, <2>8 DEF Slotted
  <2>12. Known'
    <3>1. s \notin registered
      BY <1>0, <2>4, Blank DEF Known
    <3> QED BY <1>0, <2>4, <2>6, <3>1, Blank DEF Known
  <2>13. Waits'
    BY <1>0, <2>3, <2>4, <2>5 DEF Waits
  <2>14. Cut(Opened, calm)
    BY Blank DEF Cut
  <2>15. Noticed'
    BY <1>r, <2>4, <2>6, <2>14 DEF Noticed
  <2> QED BY <1>n, <2>7, <2>10, <2>11, <2>12, <2>13, <2>15 DEF LoopsInv
<1>3. ASSUME NEW l \in Loops, ConnectFails(l) PROVE LoopsInv'
  <2>1. loop[l].at = "connect" /\ calm' = 0 /\ UNCHANGED <<sock, registered, up>> /\ EndsTurn(l, 0)
    BY <1>0, <1>3 DEF ConnectFails, Trouble, LoopsTyped
  <2>2. PICK k \in LoopRow : k.at = "sleep" /\ loop' = [loop EXCEPT ![l] = k] /\ slot' = Nil
    BY <1>0, <2>1, Turns
  <2>3. \A m \in Loops : loop'[m] = IF m = l THEN k ELSE loop[m]
    BY <1>0, <2>2
  <2>4. LoopsTyped'
    BY <1>0, <2>1, <2>2, <2>3, Recoveries DEF LoopsTyped
  <2>5. \A m \in Loops : \A x : Opens(m, x)' <=> Opens(m, x)
    BY <2>1, <2>2, <2>3 DEF Opens
  <2>6. Owned'
    BY <1>0, <2>1, <2>2, <2>3, <2>5 DEF Owned
  <2>7. Slotted' /\ Known'
    BY <1>0, <2>1, <2>2, <2>3 DEF Slotted, Known
  <2>8. Waits'
    <3>1. \A m \in Loops : loop'[m].wait \in 0..MaxBackoff
      BY <2>4 DEF LoopsTyped, LoopRow
    <3>2. \A w \in 0..MaxBackoff : 0 + w <= PingEvery + PongWithin + MaxBackoff
      OBVIOUS
    <3> QED BY <2>1, <3>1, <3>2 DEF Waits
  <2>9. Noticed'
    <3>1. calm' \in Nat /\ calm' <= calm
      BY <1>0, <2>1
    <3>2. \A s \in Socks : Cut(sock[s], calm')
      BY <1>r, <1>0, <3>1, Sooner
    <3> QED BY <2>1, <3>2 DEF Noticed
  <2> QED BY <1>n, <2>4, <2>6, <2>7, <2>8, <2>9 DEF LoopsInv
<1>4. ASSUME NEW l \in Loops, Drops(l) PROVE LoopsInv'
  <2>1. PICK s : s = loop[l].sock
    OBVIOUS
  <2>2. /\ loop[l].at = "open"
        /\ (((sock[s].alive /\ ~sock[s].hub) \/ Overdue(s)) /\ calm' = calm) \/ calm' = 0
        /\ EndsTurn(l, sock[s].age) /\ sock' = [sock EXCEPT ![s] = Free(s, [@ EXCEPT !.bot = FALSE])]
        /\ UNCHANGED <<registered, up>>
    BY <1>4, <2>1 DEF Drops, Broken, Trouble
  <2>c. calm' \in Nat /\ calm' <= calm
    BY <1>0, <2>2
  <2>3. s \in Socks /\ sock[s].bot /\ Opens(l, s)
    BY <1>0, <2>1, <2>2 DEF Owned, Opens
  <2>4. PICK k \in LoopRow : k.at = "sleep" /\ loop' = [loop EXCEPT ![l] = k] /\ slot' = Nil
    BY <1>0, <2>2, Turns
  <2>5. \A m \in Loops : loop'[m] = IF m = l THEN k ELSE loop[m]
    BY <1>0, <2>4
  <2>6. PICK m : m = Free(s, [sock[s] EXCEPT !.bot = FALSE])
    OBVIOUS
  <2>7. ~m.bot /\ m.hub = sock[s].hub /\ (sock[s].hub => m.hello = sock[s].hello) /\ Cut(m, calm')
    <3>1. Cut(sock[s], calm')
      BY <1>0, <1>r, <2>3, <2>c, Sooner
    <3> QED BY <1>0, <1>r, <2>3, <2>6, <2>c, <3>1, BotEnds
  <2>8. \A x \in Socks : sock'[x] = IF x = s THEN m ELSE sock[x]
    BY <1>0, <2>2, <2>6
  <2>9. LoopsTyped'
    BY <1>0, <2>2, <2>4, <2>5, Recoveries DEF LoopsTyped
  <2>10. \A n \in Loops : \A x : Opens(n, x)' <=> (n # l /\ Opens(n, x))
    BY <2>4, <2>5 DEF Opens
  <2>11. \A n \in Loops : n # l => ~Opens(n, s)
    BY <1>0, <2>3 DEF Owned
  <2>12. Owned'
    <3>1. ASSUME NEW n \in Loops, loop'[n].at = "open" PROVE loop'[n].sock \in Socks /\ sock'[loop'[n].sock].bot
      <4>1. n # l /\ loop'[n] = loop[n]
        BY <2>4, <2>5, <3>1
      <4>2. loop[n].sock # s
        BY <2>11, <3>1, <4>1 DEF Opens
      <4> QED BY <1>0, <2>8, <3>1, <4>1, <4>2 DEF Owned
    <3>2. \A n, o \in Loops, x \in Socks : Opens(n, x)' /\ Opens(o, x)' => n = o
      BY <1>0, <2>10 DEF Owned
    <3>3. ASSUME NEW x \in Socks, sock'[x].bot PROVE \E n \in Loops : Opens(n, x)'
      <4>1. x # s
        BY <2>7, <2>8, <3>3
      <4>2. PICK n \in Loops : Opens(n, x)
        BY <1>0, <2>8, <3>3, <4>1 DEF Owned
      <4>3. n # l
        BY <2>3, <4>1, <4>2 DEF Opens
      <4> QED BY <2>10, <4>2, <4>3
    <3> QED BY <3>1, <3>2, <3>3 DEF Owned
  <2>13. Slotted'
    BY <2>4, <2>5 DEF Slotted
  <2>14. Known'
    BY <1>0, <2>2, <2>7, <2>8 DEF Known
  <2>15. Noticed'
    <3>1. \A x \in Socks : Cut(sock[x], calm')
      BY <1>r, <1>0, <2>c, Sooner
    <3> QED BY <2>7, <2>8, <3>1 DEF Noticed
  <2>16. calm' <= PingEvery + PongWithin
    <3>1. Cut(sock[s], calm) /\ sock[s].ping \in Nat /\ sock[s].pong \in 0..PongWithin
      BY <1>r, <2>3 DEF SockRow
    <3>2. CASE sock[s].alive /\ ~sock[s].hub /\ calm' = calm
      BY <2>3, <3>1, <3>2 DEF Cut
    <3>3. CASE Overdue(s) /\ calm' = calm
      BY <2>3, <3>1, <3>3, <1>0 DEF Cut, Overdue
    <3>4. CASE calm' = 0
      BY <3>4
    <3> QED BY <2>2, <3>2, <3>3, <3>4
  <2>17. Waits'
    <3>1. k.wait \in 0..MaxBackoff
      BY <2>4 DEF LoopRow
    <3>2. calm' + k.wait <= PingEvery + PongWithin + MaxBackoff
      BY <1>0, <2>c, <2>16, <3>1
    <3>3. ASSUME NEW n \in Loops, n # l PROVE calm' + loop[n].wait <= PingEvery + PongWithin + MaxBackoff
      <4>1. loop[n].wait \in 0..MaxBackoff
        BY <1>0 DEF LoopRow
      <4> QED BY <1>0, <2>c, <2>16, <4>1
    <3> QED BY <2>5, <3>2, <3>3 DEF Waits
  <2> QED BY <1>n, <2>9, <2>12, <2>13, <2>14, <2>15, <2>17 DEF LoopsInv
<1>5. ASSUME NEW s \in Socks, Hello(s) PROVE LoopsInv'
  <2>1. /\ sock' = [sock EXCEPT ![s].hello = FALSE, ![s].idle = 0] /\ registered' = registered \cup {s} /\ sock[s].hub /\ sock[s].alive
        /\ UNCHANGED <<loop, slot, up, trouble, calm>>
    BY <1>5 DEF Hello
  <2>2. PICK k \in SockRow : k = sock[s]
    BY <1>r
  <2>3. PICK m : m = [k EXCEPT !.hello = FALSE, !.idle = 0]
    OBVIOUS
  <2>4. m.bot = k.bot /\ m.hub = k.hub /\ m.alive = k.alive /\ m.ping = k.ping /\ m.pong = k.pong /\ ~m.hello
    BY <2>3 DEF SockRow
  <2>5. \A x \in Socks : sock'[x] = IF x = s THEN m ELSE sock[x]
    BY <1>0, <2>1, <2>2, <2>3
  <2>6. Cut(m, calm)
    BY <1>r, <2>1, <2>2, <2>4 DEF Cut
  <2>7. LoopsTyped' /\ Slotted' /\ Waits'
    BY <1>0, <2>1 DEF LoopsTyped, Slotted, Waits, Opens
  <2>8. \A x \in Socks : sock'[x].bot = sock[x].bot
    BY <2>2, <2>4, <2>5
  <2>9. Owned'
    BY <1>0, <2>1, <2>8 DEF Owned, Opens
  <2>10. Known'
    BY <1>0, <2>1, <2>2, <2>4, <2>5 DEF Known
  <2>11. Noticed'
    BY <1>r, <2>1, <2>5, <2>6 DEF Noticed
  <2> QED BY <1>n, <2>7, <2>9, <2>10, <2>11 DEF LoopsInv
<1>6. ASSUME NEW s \in Socks, Closed(s) PROVE LoopsInv'
  <2>1. HubCloses({s}) /\ UNCHANGED <<loop, slot, up, trouble, calm>> /\ ~sock[s].bot
    BY <1>6 DEF Closed
  <2>2. up' \in BOOLEAN /\ (up' \/ calm' = 0)
    BY <1>0, <2>1 DEF LoopsTyped
  <2> QED BY <1>n, <2>1, <2>2, ClosesKeep
<1>7. ASSUME NEW s \in Socks, Resets(s) PROVE LoopsInv'
  <2>1. HubCloses({s}) /\ UNCHANGED <<loop, slot, up>> /\ calm' = 0
    BY <1>7 DEF Resets, Trouble
  <2>2. up' \in BOOLEAN
    BY <1>0, <2>1 DEF LoopsTyped
  <2> QED BY <1>n, <2>1, <2>2, ClosesKeep
<1>8. CASE GoesDown
  <2>1. PICK S \in SUBSET Socks : S = {s \in Socks : sock[s].hub}
    OBVIOUS
  <2>2. HubCloses(S) /\ UNCHANGED <<loop, slot>> /\ calm' = 0 /\ up' = FALSE
    BY <1>8, <2>1 DEF GoesDown, Trouble
  <2> QED BY <1>n, <2>2, ClosesKeep
<1>9. CASE Sweep
  <2>1. PICK S \in SUBSET Socks : S = {s \in Socks : sock[s].hub /\ TooQuiet(s)}
    OBVIOUS
  <2>2. HubCloses(S) /\ UNCHANGED <<loop, slot, up, trouble, calm>>
    BY <1>9, <2>1 DEF Sweep
  <2>3. ASSUME NEW s \in S, sock[s].bot, sock[s].alive PROVE FALSE
    <3>1. sock[s].idle > MaxIdle /\ sock[s].idle <= sock[s].ping /\ sock[s].ping <= PingEvery
      BY <1>0, <2>1, <2>3 DEF TooQuiet, Heard, SockInv
    <3>2. sock[s].idle \in Nat /\ sock[s].ping \in Nat
      BY <1>r, <2>3 DEF SockRow
    <3> QED BY <3>1, <3>2
  <2>4. up' \in BOOLEAN /\ (up' \/ calm' = 0)
    BY <1>0, <2>2 DEF LoopsTyped
  <2> QED BY <1>n, <2>2, <2>3, <2>4, ClosesKeep
<1>10. ASSUME NEW s \in Socks, Stalls(s) PROVE LoopsInv'
  <2>1. sock' = [sock EXCEPT ![s].alive = FALSE] /\ calm' = 0 /\ UNCHANGED <<loop, slot, registered, up>>
    BY <1>10 DEF Stalls, Trouble
  <2>2. PICK k \in SockRow : k = sock[s]
    BY <1>r
  <2>3. PICK m : m = [k EXCEPT !.alive = FALSE]
    OBVIOUS
  <2>4. m.bot = k.bot /\ m.hub = k.hub /\ ~m.alive /\ m.ping \in Nat /\ m.pong \in Nat /\ m.idle \in Nat /\ m.hello = k.hello
    BY <2>3 DEF SockRow
  <2>5. \A x \in Socks : sock'[x] = IF x = s THEN m ELSE sock[x]
    BY <1>0, <2>1, <2>2, <2>3
  <2>6. Cut(m, 0)
    BY <2>4 DEF Cut
  <2>7. \A x \in Socks : Cut(sock[x], 0)
    BY <1>0, <1>r, Sooner
  <2>8. LoopsTyped' /\ Slotted'
    BY <1>0, <2>1, Recoveries DEF LoopsTyped, Slotted, Opens
  <2>9. \A x \in Socks : sock'[x].bot = sock[x].bot /\ sock'[x].hub = sock[x].hub /\ sock'[x].hello = sock[x].hello
    BY <2>2, <2>4, <2>5
  <2>10. Owned' /\ Known'
    BY <1>0, <2>1, <2>9 DEF Owned, Opens, Known
  <2>11. Noticed'
    BY <2>1, <2>5, <2>6, <2>7 DEF Noticed
  <2>12. Waits'
    <3>1. \A l \in Loops : loop[l].wait \in 0..MaxBackoff
      BY <1>0 DEF LoopRow
    <3>2. \A w \in 0..MaxBackoff : 0 + w <= PingEvery + PongWithin + MaxBackoff
      OBVIOUS
    <3> QED BY <2>1, <3>1, <3>2 DEF Waits
  <2> QED BY <1>n, <2>8, <2>10, <2>11, <2>12 DEF LoopsInv
<1>11. CASE ComesUp
  <2>1. up' = TRUE /\ UNCHANGED <<loop, slot, sock, registered, trouble, calm>>
    BY <1>11 DEF ComesUp
  <2> QED BY <1>0, <1>n, <2>1 DEF LoopsInv, LoopsTyped, Owned, Opens, Slotted, Known, Waits, Noticed
<1>12. CASE SocketTick
  <2>1. /\ ~Busy /\ sock' = [s \in Socks |-> Aged(s)] /\ UNCHANGED <<slot, registered, up, trouble>>
        /\ loop' = [l \in Loops |-> IF loop[l].at = "sleep" THEN [loop[l] EXCEPT !.wait = @ - 1] ELSE loop[l]]
        /\ calm' = IF up THEN Now(calm, Recovery) ELSE 0
    BY <1>12 DEF SocketTick
  <2>2. calm' \in 0..Recovery /\ calm' \in Nat /\ calm' <= calm + 1 /\ (up' \/ calm' = 0)
    BY <1>0, <2>1, Recoveries DEF Now
  <2>3. ASSUME NEW s \in Socks
        PROVE  Cut(sock'[s], calm') /\ sock'[s].bot = sock[s].bot /\ sock'[s].hub = sock[s].hub /\ sock'[s].hello = sock[s].hello
    <3>1. sock[s].bot => ~(sock[s].alive /\ ~sock[s].hub) /\ ~Overdue(s)
      <4> SUFFICES ASSUME sock[s].bot PROVE ~(sock[s].alive /\ ~sock[s].hub) /\ ~Overdue(s)
        OBVIOUS
      <4>1. PICK l \in Loops : Opens(l, s)
        BY <1>0 DEF Owned
      <4>2. ~Broken(l)
        BY <2>1 DEF Busy
      <4> QED BY <4>1, <4>2 DEF Opens, Broken
    <3>2. (sock[s].bot /\ sock[s].alive => sock[s].hub) /\ ~(sock[s].bot /\ ~sock[s].alive /\ sock[s].pong = PongWithin)
      BY <3>1 DEF Overdue
    <3>3. sock'[s] = Aged(s) /\ sock[s] \in SockRow /\ Cut(sock[s], calm)
      BY <1>r, <2>1
    <3> QED BY <1>0, <2>2, <3>2, <3>3, AgedCut
  <2>4. ASSUME NEW l \in Loops
        PROVE  /\ loop'[l] \in LoopRow /\ loop'[l].at = loop[l].at /\ loop'[l].sock = loop[l].sock
               /\ loop[l].at # "sleep" => loop'[l] = loop[l]
               /\ loop[l].at = "sleep" => loop'[l].wait = loop[l].wait - 1 /\ loop[l].wait \in Nat
    <3>1. PICK k \in LoopRow : k = loop[l]
      BY <1>0
    <3>2. CASE k.at = "sleep"
      <4>1. k.wait # 0 /\ k.wait \in 0..MaxBackoff
        BY <2>1, <3>1, <3>2 DEF Busy, LoopRow
      <4>2. PICK w \in 0..MaxBackoff : w = k.wait - 1
        BY <4>1
      <4>3. loop'[l] = [k EXCEPT !.wait = w]
        BY <2>1, <3>1, <3>2, <4>2
      <4> QED BY <3>1, <3>2, <4>1, <4>2, <4>3 DEF LoopRow
    <3>3. CASE k.at # "sleep"
      BY <2>1, <3>1, <3>3
    <3> QED BY <3>2, <3>3
  <2>5. LoopsTyped'
    BY <1>0, <2>1, <2>2, <2>4 DEF LoopsTyped, Off
  <2>6. \A l \in Loops : \A s : Opens(l, s)' <=> Opens(l, s)
    BY <2>4 DEF Opens
  <2>7. Owned'
    BY <1>0, <2>3, <2>4, <2>6 DEF Owned
  <2>8. Slotted'
    <3>1. ASSUME \A l \in Loops : loop[l] = Off PROVE \A l \in Loops : loop'[l] = Off
      BY <2>4, <3>1 DEF Off
    <3> QED BY <1>0, <2>1, <2>4, <2>6, <3>1 DEF Slotted
  <2>9. Known'
    BY <1>0, <2>1, <2>3 DEF Known
  <2>10. Noticed'
    BY <2>3 DEF Noticed
  <2>11. Waits'
    <3>1. ASSUME NEW l \in Loops, loop'[l].at = "sleep" PROVE calm' + loop'[l].wait <= PingEvery + PongWithin + MaxBackoff
      <4>1. calm + loop[l].wait <= PingEvery + PongWithin + MaxBackoff /\ loop'[l].wait = loop[l].wait - 1 /\ loop[l].wait \in Nat
        BY <1>0, <2>4, <3>1 DEF Waits
      <4> QED BY <1>0, <2>2, <4>1
    <3> QED BY <3>1 DEF Waits
  <2> QED BY <1>n, <2>5, <2>7, <2>8, <2>9, <2>10, <2>11 DEF LoopsInv
<1>13. CASE BotRestarts
  <2>1. /\ loop' = [l \in Loops |-> Off] /\ slot' = Nil /\ calm' = 0 /\ UNCHANGED <<registered, up>>
        /\ sock' = [s \in Socks |-> Free(s, [sock[s] EXCEPT !.bot = FALSE])]
    BY <1>13 DEF BotRestarts, Trouble
  <2>2. ASSUME NEW s \in Socks PROVE ~sock'[s].bot /\ sock'[s].hub = sock[s].hub /\ (sock[s].hub => sock'[s].hello = sock[s].hello) /\ Cut(sock'[s], 0)
    <3>1. sock[s] \in SockRow /\ Cut(sock[s], 0) /\ 0 \in Nat
      BY <1>0, <1>r, Sooner
    <3>2. PICK m : m = Free(s, [sock[s] EXCEPT !.bot = FALSE])
      OBVIOUS
    <3>3. ~m.bot /\ m.hub = sock[s].hub /\ (sock[s].hub => m.hello = sock[s].hello) /\ Cut(m, 0)
      BY <3>1, <3>2, BotEnds
    <3>4. sock'[s] = m
      BY <2>1, <3>2
    <3> QED BY <3>3, <3>4
  <2>3. Off \in LoopRow /\ Off.at = "off"
    BY DEF Off, LoopRow
  <2>4. LoopsTyped' /\ Slotted' /\ Waits'
    BY <1>0, <2>1, <2>3, Recoveries DEF LoopsTyped, Slotted, Waits
  <2>5. Owned'
    BY <2>1, <2>2, <2>3 DEF Owned, Opens
  <2>6. Known' /\ Noticed'
    BY <1>0, <2>1, <2>2 DEF Known, Noticed
  <2> QED BY <1>n, <2>4, <2>5, <2>6 DEF LoopsInv
<1>14. CASE UNCHANGED socketVars
  BY <1>0, <1>n, <1>14 DEF socketVars, LoopsInv, LoopsTyped, Owned, Opens, Slotted, Known, Waits, Noticed
<1> QED BY <1>1, <1>2, <1>3, <1>4, <1>5, <1>6, <1>7, <1>8, <1>9, <1>10, <1>11, <1>12, <1>13, <1>14 DEF SocketNext

LEMMA Recovered == LoopsInv => Recovers
<1> SUFFICES ASSUME LoopsInv, calm = Recovery, ~Busy PROVE slot \in registered /\ \A s \in registered : sock[s].alive /\ sock[s].bot
  BY DEF Recovers
<1> USE BotSocketAssumption
<1>0. /\ sock \in [Socks -> SockRow] /\ LoopsTyped /\ Owned /\ Slotted /\ Known /\ Waits /\ Noticed
      /\ loop \in [Loops -> LoopRow] /\ registered \subseteq Socks /\ slot \in Socks \cup {Nil} /\ calm \in Nat
      /\ calm >= PingEvery + PongWithin + MaxBackoff /\ calm >= MaxIdle + 1
  BY Recoveries DEF LoopsInv, SockInv, LoopsTyped
<1>1. \A l \in Loops : loop[l].at \notin {"connect", "sleep"}
  <2> SUFFICES ASSUME NEW l \in Loops, loop[l].at = "sleep" PROVE FALSE
    BY DEF Busy
  <2>1. loop[l].wait \in 0..MaxBackoff /\ calm + loop[l].wait <= PingEvery + PongWithin + MaxBackoff
    BY <1>0 DEF Waits, LoopRow
  <2>2. loop[l].wait = 0
    BY <1>0, <2>1
  <2> QED BY <2>2 DEF Busy
<1>2. slot # Nil
  BY <1>0, <1>1 DEF Slotted, Busy
<1>3. PICK l \in Loops : Opens(l, slot)
  BY <1>0, <1>2 DEF Slotted
<1>4. slot \in Socks /\ sock[slot].bot /\ ~(sock[slot].alive /\ ~sock[slot].hub)
  BY <1>0, <1>3 DEF Opens, Owned, Busy, Broken
<1>5. sock[slot].alive
  <2> SUFFICES ASSUME ~sock[slot].alive PROVE FALSE
    OBVIOUS
  <2>1. calm <= (IF sock[slot].pong = 0 THEN sock[slot].ping ELSE PingEvery + sock[slot].pong)
    BY <1>0, <1>4 DEF Noticed, Cut
  <2>2. sock[slot].ping \in 0..PingEvery /\ sock[slot].pong \in 0..PongWithin
    BY <1>0, <1>4 DEF SockRow
  <2> QED BY <1>0, <2>1, <2>2
<1>6. slot \in registered
  BY <1>0, <1>4, <1>5 DEF Known, Busy
<1>7. ASSUME NEW s \in registered PROVE sock[s].alive /\ sock[s].bot
  <2>1. s \in Socks /\ sock[s].hub /\ ~TooQuiet(s) /\ (sock[s].alive => sock[s].bot)
    BY <1>0 DEF Known, Busy
  <2>2. sock[s].idle \in 0..MaxIdle + 1
    BY <1>0, <2>1 DEF SockRow
  <2>3. sock[s].alive
    BY <1>0, <2>1, <2>2 DEF Noticed, Cut, TooQuiet
  <2> QED BY <2>1, <2>3
<1> QED BY <1>6, <1>7

(***************************************************************************)
(* The backoffs.                                                           *)
(***************************************************************************)
LEMMA Doubles == ASSUME NEW n \in Nat PROVE 2^n \in Nat /\ 2^n >= 1 /\ 2^(n + 1) = 2 * 2^n
<1>1. PICK S : S = 1..n
  OBVIOUS
<1>2. PICK T : T = 1..n + 1
  OBVIOUS
<1>3. IsFiniteSet(S) /\ Cardinality(S) = n /\ IsFiniteSet(T) /\ Cardinality(T) = n + 1
  <2>1. n + 1 \in Int /\ n \in Int /\ 1 \in Int /\ ~(1 > n + 1) /\ (n + 1) - 1 + 1 = n + 1 /\ (1 > n => n = 0) /\ n - 1 + 1 = n
    OBVIOUS
  <2> QED BY <1>1, <1>2, <2>1, FS_Interval
<1>4. IsFiniteSet(SUBSET S) /\ Cardinality(SUBSET S) = 2^n /\ IsFiniteSet(SUBSET T) /\ Cardinality(SUBSET T) = 2^(n + 1)
  BY <1>3, FS_SUBSET
<1>5. PICK U : U = {X \cup {n + 1} : X \in SUBSET S}
  OBVIOUS
<1>6. IsFiniteSet(U) /\ Cardinality(U) = Cardinality(SUBSET S)
  <2>1. PICK f : f = [X \in SUBSET S |-> X \cup {n + 1}]
    OBVIOUS
  <2>2. n + 1 \notin S
    BY <1>1
  <2>3. \A X, Y \in SUBSET S : f[X] = f[Y] => X = Y
    <3>1. SUFFICES ASSUME NEW X \in SUBSET S, NEW Y \in SUBSET S, X \cup {n + 1} = Y \cup {n + 1} PROVE X = Y
      BY <2>1
    <3>2. X = (X \cup {n + 1}) \ {n + 1} /\ Y = (Y \cup {n + 1}) \ {n + 1}
      BY <2>2
    <3> QED BY <3>1, <3>2
  <2>4. f \in [SUBSET S -> U] /\ \A u \in U : \E X \in SUBSET S : f[X] = u
    BY <1>5, <2>1
  <2>5. f \in Bijection(SUBSET S, U)
    BY <2>3, <2>4 DEF Bijection, Injection, Surjection, IsInjective
  <2>6. ExistsBijection(SUBSET S, U)
    BY <2>5 DEF ExistsBijection
  <2> QED BY <1>4, <2>6, FS_Bijection
<1>7. SUBSET T = (SUBSET S) \cup U /\ (SUBSET S) \cap U = {}
  <2>1. T = S \cup {n + 1} /\ n + 1 \notin S
    BY <1>1, <1>2
  <2>2. ASSUME NEW X \in SUBSET T PROVE X \in (SUBSET S) \cup U
    <3>1. CASE n + 1 \in X
      <4>1. X \ {n + 1} \in SUBSET S /\ X = (X \ {n + 1}) \cup {n + 1}
        BY <2>1, <3>1
      <4> QED BY <1>5, <4>1
    <3>2. CASE n + 1 \notin X
      BY <2>1, <3>2
    <3> QED BY <3>1, <3>2
  <2>3. \A X \in U : X \in SUBSET T /\ n + 1 \in X
    BY <1>5, <2>1
  <2>4. \A X \in SUBSET S : X \in SUBSET T /\ n + 1 \notin X
    BY <2>1
  <2> QED BY <2>2, <2>3, <2>4
<1>8. Cardinality(SUBSET T) = Cardinality(SUBSET S) + Cardinality(U) - 0
  BY ZenonT(40), <1>4, <1>6, <1>7, FS_Union, FS_EmptySet
<1>9. 2^n \in Nat
  BY <1>4, FS_CardinalityType
<1>10. 2^n # 0
  <2>1. SUBSET S # {}
    OBVIOUS
  <2> QED BY <1>4, <2>1, FS_EmptySet
<1> QED BY <1>4, <1>6, <1>8, <1>9, <1>10

(* the i-th of the backoffs 1, 2, 4... *)
Backoff(i) == IF 2^(i - 1) <= MaxBackoff THEN 2^(i - 1) ELSE MaxBackoff

LEMMA Backoffs == ASSUME NEW n \in Nat PROVE Least(n) \in Nat /\ Backoff(n + 1) \in 1..MaxBackoff /\ Least(n + 1) = Least(n) + Backoff(n + 1) /\ Least(0) = 0
<1> USE BotSocketAssumption
<1>1. 2^n \in Nat /\ 2^n >= 1 /\ (n + 1) - 1 = n
  BY Doubles
<1>2. Backoff(n + 1) = (IF 2^n <= MaxBackoff THEN 2^n ELSE MaxBackoff)
  BY <1>1 DEF Backoff
<1>3. Backoff(n + 1) \in 1..MaxBackoff
  BY <1>1, <1>2
<1>4. PICK b : b = Backoff(n + 1)
  OBVIOUS
<1>5. Waited(n + 1) = Waited(n) \cup ({n + 1} \X (1..b)) /\ Waited(n) \cap ({n + 1} \X (1..b)) = {}
  <2>1. ASSUME NEW i \in 1..n + 1, NEW t \in 1..MaxBackoff PROVE t <= 2^(i - 1) <=> (IF i = n + 1 THEN t \in 1..b ELSE i \in 1..n /\ t <= 2^(i - 1))
    <3>1. CASE i = n + 1
      BY <1>1, <1>2, <1>4, <3>1
    <3>2. CASE i # n + 1
      BY <3>2
    <3> QED BY <3>1, <3>2
  <2>2. \A p \in {n + 1} \X (1..b) : p[1] = n + 1 /\ p[2] \in 1..b /\ p = <<p[1], p[2]>>
    OBVIOUS
  <2>3. 1..b \subseteq 1..MaxBackoff /\ n + 1 \in 1..n + 1 /\ 1..n \subseteq 1..n + 1
    BY <1>3, <1>4
  <2>4. ASSUME NEW p \in Waited(n + 1) PROVE p \in Waited(n) \cup ({n + 1} \X (1..b))
    <3>1. PICK i \in 1..n + 1, t \in 1..MaxBackoff : p = <<i, t>> /\ t <= 2^(i - 1)
      BY <2>4 DEF Waited
    <3>2. IF i = n + 1 THEN t \in 1..b ELSE i \in 1..n /\ t <= 2^(i - 1)
      BY <2>1, <3>1
    <3> QED BY <3>1, <3>2 DEF Waited
  <2>5. ASSUME NEW p \in Waited(n) PROVE p \in Waited(n + 1) /\ p[1] # n + 1
    BY <2>3, <2>5 DEF Waited
  <2>6. ASSUME NEW p \in {n + 1} \X (1..b) PROVE p \in Waited(n + 1)
    <3>1. PICK t \in 1..b : p = <<n + 1, t>>
      BY <2>6
    <3>2. t <= 2^((n + 1) - 1)
      BY <2>1, <2>3, <3>1
    <3> QED BY <2>3, <3>1, <3>2 DEF Waited
  <2> QED BY <2>2, <2>4, <2>5, <2>6
<1>6. IsFiniteSet(Waited(n)) /\ Least(n) \in Nat
  <2>1. IsFiniteSet(1..n) /\ IsFiniteSet(1..MaxBackoff)
    BY FS_Interval
  <2>2. IsFiniteSet((1..n) \X (1..MaxBackoff))
    BY <2>1, FS_Product
  <2>3. Waited(n) \in SUBSET ((1..n) \X (1..MaxBackoff))
    BY DEF Waited
  <2> QED BY <2>2, <2>3, FS_Subset, FS_CardinalityType DEF Least
<1>7. IsFiniteSet({n + 1} \X (1..b)) /\ Cardinality({n + 1} \X (1..b)) = b
  <2>1. IsFiniteSet(1..b) /\ Cardinality(1..b) = b
    BY <1>3, <1>4, FS_Interval
  <2>2. IsFiniteSet({n + 1}) /\ Cardinality({n + 1}) = 1
    BY FS_Singleton
  <2>3. Cardinality({n + 1} \X (1..b)) = 1 * b
    BY <2>1, <2>2, FS_Product
  <2> QED BY <1>3, <1>4, <2>1, <2>2, <2>3, FS_Product
<1>8. Least(n + 1) = Least(n) + b - 0
  BY <1>5, <1>6, <1>7, FS_Union, FS_EmptySet DEF Least
<1>9. Waited(0) = {}
  BY DEF Waited
<1> QED BY <1>3, <1>4, <1>6, <1>8, <1>9, FS_EmptySet DEF Least

LEMMA LongerWait == ASSUME NEW n \in Nat, NEW m \in Nat, n <= m PROVE Least(n) <= Least(m)
<1> USE BotSocketAssumption
<1>1. Waited(n) \in SUBSET Waited(m)
  BY DEF Waited
<1>2. IsFiniteSet(1..m) /\ IsFiniteSet(1..MaxBackoff)
  BY FS_Interval
<1>3. IsFiniteSet((1..m) \X (1..MaxBackoff))
  BY <1>2, FS_Product
<1>4. IsFiniteSet(Waited(m))
  BY <1>3, FS_Subset DEF Waited
<1> QED BY <1>1, <1>4, FS_Subset DEF Least

LEMMA BackoffDoubles ==
    ASSUME NEW n \in Nat, NEW b \in 1..MaxBackoff, b >= Backoff(n + 1)
    PROVE  (IF 2 * b <= MaxBackoff THEN 2 * b ELSE MaxBackoff) >= Backoff(n + 2)
<1> USE BotSocketAssumption
<1>1. 2^n \in Nat /\ 2^(n + 1) = 2 * 2^n /\ (n + 1) - 1 = n /\ (n + 2) - 1 = n + 1
  BY Doubles
<1>2. PICK d \in Nat : d = 2^n
  BY <1>1
<1>3. Backoff(n + 1) = (IF d <= MaxBackoff THEN d ELSE MaxBackoff) /\ Backoff(n + 2) = (IF 2 * d <= MaxBackoff THEN 2 * d ELSE MaxBackoff)
  BY <1>1, <1>2 DEF Backoff
<1> QED BY <1>2, <1>3

(* What a loop has waited: before a connection the backoffs of those before it, *)
(* while it sleeps all but what it waits for still; and no connection is made   *)
(* without a trouble for the one before.                                        *)
TriesRow == [count : Nat, ticks : 0..Least(MaxTrouble)]
Paid(k, c, t) ==
    /\ k.at = "off" => c = 0
    /\ c >= 1 => t >= Least(c - 1)
    /\ k.at = "connect" => t >= Least(c) /\ k.backoff >= Backoff(c + 1)
    /\ k.at = "open" => c >= 1 /\ k.backoff >= Backoff(c)
    /\ k.at = "sleep" => t + k.wait >= Least(c) /\ k.backoff >= Backoff(c + 1)
Intact(l) == loop[l].at = "open" /\ sock[loop[l].sock].alive /\ sock[loop[l].sock].hub
Counted(l) == tries[l].count <= trouble \/ (Intact(l) /\ tries[l].count <= trouble + 1)
BackoffInv ==
    /\ tries \in [Loops -> TriesRow]
    /\ \A l \in Loops : Paid(loop[l], tries[l].count, tries[l].ticks) /\ Counted(l)

LEMMA Fresh == ASSUME NEW b \in 1..MaxBackoff PROVE b >= Backoff(1)
<1>1. 2^0 = 1
  OBVIOUS
<1>2. 1 - 1 = 0
  OBVIOUS
<1>3. 2^(1 - 1) = 1
  BY <1>1, <1>2
<1> QED BY <1>3, BotSocketAssumption DEF Backoff

LEMMA TurnPays ==
    ASSUME LoopsTyped, BackoffInv, NEW l \in Loops, NEW age, EndsTurn(l, age), loop[l].at \in {"connect", "open"}
    PROVE  /\ tries' \in [Loops -> TriesRow] /\ Paid(loop[l], tries[l].count, tries[l].ticks)'
           /\ tries'[l].count <= tries[l].count /\ loop'[l].at = "sleep"
           /\ \A m \in Loops \ {l} : loop'[m] = loop[m] /\ tries'[m] = tries[m]
<1> USE BotSocketAssumption
<1>1. PICK k \in LoopRow : k = loop[l]
  BY DEF LoopsTyped
<1>2. PICK c \in Nat, t \in 0..Least(MaxTrouble) : tries[l] = [count |-> c, ticks |-> t]
  BY DEF BackoffInv, TriesRow
<1>3. Paid(k, c, t) /\ t \in Nat /\ 0 \in 0..Least(MaxTrouble)
  BY <1>1, <1>2, Backoffs DEF BackoffInv
<1>4. PICK h \in BOOLEAN : h <=> (k.at = "open" /\ age >= StableAfter)
  OBVIOUS
<1>5. PICK b : b = IF h THEN 1 ELSE k.backoff
  OBVIOUS
<1>6. k.backoff \in 1..MaxBackoff /\ b \in 1..MaxBackoff
  BY <1>5 DEF LoopRow
<1>7. PICK d : d = Min({2 * b, MaxBackoff})
  OBVIOUS
<1>8. d = IF 2 * b <= MaxBackoff THEN 2 * b ELSE MaxBackoff
  <2>1. PICK x \in Nat : x = 2 * b
    BY <1>6
  <2>2. PICK e \in Nat : e = MaxBackoff
    OBVIOUS
  <2>3. d = IF x <= e THEN x ELSE e
    BY <1>7, <2>1, <2>2 DEF Min
  <2> QED BY <2>1, <2>2, <2>3
<1>9. PICK n : n = [at |-> "sleep", wait |-> b, sock |-> Nil, backoff |-> d]
  OBVIOUS
<1>10. PICK r : r = IF h THEN [count |-> 0, ticks |-> 0] ELSE tries[l]
  OBVIOUS
<1>11. loop' = [loop EXCEPT ![l] = n] /\ tries' = [tries EXCEPT ![l] = r]
  <2>1. loop' = [loop EXCEPT ![l] = n]
    BY <1>1, <1>4, <1>5, <1>7, <1>9 DEF EndsTurn, Stable
  <2>2. tries' = IF h THEN [tries EXCEPT ![l] = [count |-> 0, ticks |-> 0]] ELSE tries
    BY <1>1, <1>4 DEF EndsTurn
  <2>3. tries = [tries EXCEPT ![l] = tries[l]]
    BY DEF BackoffInv
  <2> QED BY <1>10, <2>1, <2>2, <2>3
<1>12. /\ r \in TriesRow /\ r.count = (IF h THEN 0 ELSE c) /\ r.ticks = (IF h THEN 0 ELSE t)
  BY <1>2, <1>3, <1>10 DEF TriesRow
<1>13. tries' \in [Loops -> TriesRow] /\ loop'[l] = n /\ tries'[l] = r /\ \A m \in Loops \ {l} : loop'[m] = loop[m] /\ tries'[m] = tries[m]
  BY <1>11, <1>12 DEF BackoffInv, LoopsTyped
<1>14. Paid(n, r.count, r.ticks)
  <2>0. n.at = "sleep" /\ n.wait = b /\ n.backoff = d /\ k.at \in {"connect", "open"}
    BY <1>1, <1>9
  <2>1. CASE h
    <3>1. Least(0) = 0 /\ d \in 1..MaxBackoff
      BY <1>6, <1>8, Backoffs
    <3>2. d >= Backoff(0 + 1)
      BY <3>1, Fresh
    <3> QED BY <1>6, <1>12, <2>0, <2>1, <3>1, <3>2 DEF Paid
  <2>2. CASE ~h /\ k.at = "connect"
    <3>1. Least(c) \in Nat /\ Backoff(c + 1) \in 1..MaxBackoff
      BY Backoffs
    <3>2. t >= Least(c) /\ b >= Backoff(c + 1) /\ (c >= 1 => t >= Least(c - 1))
      BY <1>3, <1>5, <2>2 DEF Paid
    <3>3. d >= Backoff(c + 1)
      BY <1>6, <1>8, <3>1, <3>2
    <3> QED BY <1>3, <1>6, <1>12, <2>0, <2>2, <3>1, <3>2, <3>3 DEF Paid
  <2>3. CASE ~h /\ k.at = "open"
    <3>1. c >= 1 /\ t >= Least(c - 1) /\ b >= Backoff(c)
      BY <1>3, <1>5, <2>3 DEF Paid
    <3>2. PICK p \in Nat : c = p + 1 /\ p = c - 1 /\ c + 1 = p + 2
      BY <3>1
    <3>3. Least(p) \in Nat /\ Backoff(p + 1) \in 1..MaxBackoff /\ Least(c) = Least(p) + Backoff(p + 1)
      BY <3>2, Backoffs
    <3>4. d >= Backoff(c + 1)
      BY <1>6, <1>8, <3>1, <3>2, BackoffDoubles
    <3>5. t + b >= Least(c)
      BY <1>3, <1>6, <3>1, <3>2, <3>3
    <3> QED BY <1>12, <2>0, <2>3, <3>1, <3>4, <3>5 DEF Paid
  <2> QED BY <2>0, <2>1, <2>2, <2>3
<1> QED BY <1>2, <1>3, <1>9, <1>12, <1>13, <1>14

(* A socket that carries frames does so until there is trouble, or its bot's end goes. *)
LEMMA Carries ==
    ASSUME LoopsInv, SocketNext \/ UNCHANGED socketVars, NEW s \in Socks, sock[s].bot, sock[s].alive, sock[s].hub
    PROVE  (sock'[s].alive /\ sock'[s].hub) \/ trouble' = trouble + 1 \/ ~sock'[s].bot
<1>0. SockInv /\ sock \in [Socks -> SockRow] /\ trouble \in 0..MaxTrouble /\ sock[s] \in SockRow
  BY DEF LoopsInv, SockInv
<1>1. CASE Trouble
  BY <1>1 DEF Trouble
<1>2. CASE sock' = sock
  BY <1>2
<1>3. sock[s].hub /\ sock[s].alive /\ sock[s].bot /\ ~sock'[s].hub => trouble' # trouble
  BY <1>0, SocksKept DEF HealthyKept
<1>4. ASSUME NEW S \in SUBSET Socks, HubCloses(S), trouble' = trouble PROVE sock'[s].alive /\ sock'[s].hub
  <2>1. sock'[s].hub
    BY <1>3, <1>4
  <2>2. sock'[s] = IF s \in S THEN Free(s, [sock[s] EXCEPT !.hub = FALSE]) ELSE sock[s]
    BY <1>4 DEF HubCloses
  <2>3. s \in S => ~Free(s, [sock[s] EXCEPT !.hub = FALSE]).hub
    BY <1>0 DEF Free, SockRow
  <2> QED BY <2>1, <2>2, <2>3
<1>5. ASSUME NEW l \in Loops, NEW x \in Socks, Connect(l, x) PROVE sock'[s].alive /\ sock'[s].hub
  BY <1>0, <1>5, Blank DEF Connect
<1>6. ASSUME NEW l \in Loops, Drops(l) PROVE sock'[s] = sock[s] \/ ~sock'[s].bot
  <2>1. PICK t : t = loop[l].sock
    OBVIOUS
  <2>2. sock' = [sock EXCEPT ![t] = Free(t, [@ EXCEPT !.bot = FALSE])]
    BY <1>6, <2>1 DEF Drops
  <2>3. ~Free(s, [sock[s] EXCEPT !.bot = FALSE]).bot
    BY <1>0, Blank DEF Free, SockRow
  <2> QED BY <1>0, <2>2, <2>3
<1>7. ASSUME NEW x \in Socks, Hello(x) PROVE sock'[s].alive /\ sock'[s].hub
  <2>1. sock' = [sock EXCEPT ![x].hello = FALSE, ![x].idle = 0]
    BY <1>7 DEF Hello
  <2>2. PICK k \in SockRow : k = sock[s]
    BY <1>0
  <2>3. sock'[s] = k \/ sock'[s] = [k EXCEPT !.hello = FALSE, !.idle = 0]
    BY <1>0, <2>1, <2>2
  <2> QED BY <2>2, <2>3 DEF SockRow
<1>8. ASSUME NEW x \in Socks, Closed(x) PROVE sock'[s].alive /\ sock'[s].hub
  BY <1>4, <1>8 DEF Closed
<1>9. CASE Sweep
  <2>1. PICK S \in SUBSET Socks : S = {x \in Socks : sock[x].hub /\ TooQuiet(x)}
    OBVIOUS
  <2> QED BY <1>4, <1>9, <2>1 DEF Sweep
<1>10. CASE SocketTick
  <2>1. sock'[s] = Aged(s)
    BY <1>10 DEF SocketTick
  <2>2. (Aged(s).alive <=> sock[s].alive) /\ (Aged(s).hub <=> sock[s].hub)
    BY <1>0, Ages DEF SockInv, Heard
  <2> QED BY <2>1, <2>2
<1>11. CASE UNCHANGED socketVars
  BY <1>2, <1>11 DEF socketVars
<1>12. ASSUME NEW l \in Loops, StartLoop(l) \/ ConnectFails(l) \/ Wakes(l) PROVE sock' = sock
  BY <1>12 DEF StartLoop, ConnectFails, Wakes
<1>13. ASSUME NEW x \in Socks, Resets(x) \/ Stalls(x) PROVE Trouble
  BY <1>13 DEF Resets, Stalls
<1>14. (GoesDown \/ BotRestarts => Trouble) /\ (ComesUp => sock' = sock)
  BY DEF GoesDown, BotRestarts, ComesUp
<1> QED BY <1>1, <1>2, <1>5, <1>6, <1>7, <1>8, <1>9, <1>10, <1>11, <1>12, <1>13, <1>14 DEF SocketNext

LEMMA StormStart == SocketInit => BackoffInv
<1> SUFFICES ASSUME SocketInit PROVE BackoffInv
  OBVIOUS
<1>1. Least(MaxTrouble) \in Nat /\ MaxTrouble \in Nat
  BY BotSocketAssumption, Backoffs
<1>2. PICK z : z = [count |-> 0, ticks |-> 0]
  OBVIOUS
<1>3. z \in TriesRow /\ z.count = 0 /\ z.ticks = 0 /\ Off.at = "off"
  BY <1>1, <1>2 DEF TriesRow, Off
<1>4. tries = [l \in Loops |-> z] /\ loop = [l \in Loops |-> Off] /\ trouble \in 0..MaxTrouble
  BY <1>2 DEF SocketInit
<1>5. Paid(Off, 0, 0)
  BY <1>3 DEF Paid
<1> QED BY <1>1, <1>3, <1>4, <1>5 DEF BackoffInv, Counted

(* The backoff is waited, the whole of it, before each connection. *)
LEMMA StormKept == LoopsInv /\ BackoffInv /\ (SocketNext \/ UNCHANGED socketVars) => BackoffInv'
<1> SUFFICES ASSUME LoopsInv, BackoffInv, SocketNext \/ UNCHANGED socketVars PROVE BackoffInv'
  OBVIOUS
<1> USE BotSocketAssumption
<1>0. /\ LoopsInv' /\ LoopsTyped /\ SockInv /\ Owned /\ loop \in [Loops -> LoopRow] /\ sock \in [Socks -> SockRow]
      /\ trouble \in 0..MaxTrouble /\ trouble \in Nat /\ tries \in [Loops -> TriesRow]
  BY LoopsKept DEF LoopsInv, LoopsTyped, SockInv, BackoffInv
<1>b. \A l \in Loops : Paid(loop[l], tries[l].count, tries[l].ticks) /\ Counted(l) /\ tries[l].count \in Nat /\ tries[l].ticks \in Nat
  <2>1. Least(MaxTrouble) \in Nat
    BY Backoffs
  <2> QED BY <1>0, <2>1 DEF BackoffInv, TriesRow
<1>t. trouble' = trouble \/ trouble' = trouble + 1
  <2>1. trouble' = trouble \/ Trouble
    BY DEF SocketNext, StartLoop, ConnectFails, Wakes, Drops, Connect, Hello, Closed, Resets, Stalls, Sweep, GoesDown, ComesUp, SocketTick, BotRestarts, socketVars
  <2> QED BY <2>1 DEF Trouble
(* what is said of a loop that the step leaves as it is *)
<1>s. ASSUME NEW l \in Loops, loop'[l].at = loop[l].at, loop'[l].sock = loop[l].sock, tries'[l].count = tries[l].count
      PROVE  Counted(l)'
  <2>1. CASE tries[l].count <= trouble
    BY <1>0, <1>b, <1>t, <1>s, <2>1 DEF Counted
  <2>2. CASE Intact(l) /\ tries[l].count <= trouble + 1
    <3>1. PICK s \in Socks : s = loop[l].sock /\ sock[s].bot /\ sock[s].alive /\ sock[s].hub /\ loop[l].at = "open"
      BY <1>0, <2>2 DEF Intact, Owned
    <3>2. sock'[s].bot
      BY <1>0, <1>s, <3>1 DEF LoopsInv, Owned
    <3>3. (sock'[s].alive /\ sock'[s].hub) \/ trouble' = trouble + 1
      BY <3>1, <3>2, Carries
    <3> QED BY <1>0, <1>b, <1>t, <1>s, <2>2, <3>1, <3>3 DEF Counted, Intact
  <2> QED BY <1>b, <2>1, <2>2 DEF Counted
<1>1. ASSUME UNCHANGED <<loop, tries>> PROVE BackoffInv'
  BY <1>0, <1>1, <1>b, <1>s DEF BackoffInv
<1>2. ASSUME NEW l \in Loops, StartLoop(l) \/ Wakes(l) PROVE BackoffInv'
  <2>1. PICK k \in LoopRow : k = loop[l]
    BY <1>0
  <2>2. PICK r : r = [k EXCEPT !.at = "connect"]
    OBVIOUS
  <2>3. r.at = "connect" /\ r.backoff = k.backoff /\ r.sock = k.sock /\ k.backoff \in 1..MaxBackoff
    BY <2>2 DEF LoopRow
  <2>4. loop' = [loop EXCEPT ![l] = r] /\ tries' = tries /\ trouble' = trouble
    BY <1>2, <2>1, <2>2 DEF StartLoop, Wakes
  <2>5. \A m \in Loops : loop'[m] = IF m = l THEN r ELSE loop[m]
    BY <1>0, <2>4
  <2>6. PICK c \in Nat, t \in Nat : c = tries[l].count /\ t = tries[l].ticks /\ Paid(k, c, t)
    BY <1>b, <2>1
  <2>7. Paid(r, c, t)
    <3>1. CASE k.at = "off"
      <4>1. c = 0 /\ Least(0) = 0
        BY <2>6, <3>1, Backoffs DEF Paid
      <4>2. k.backoff >= Backoff(c + 1)
        BY <2>3, <4>1, Fresh
      <4> QED BY <2>3, <4>1, <4>2 DEF Paid
    <3>2. CASE k.at = "sleep" /\ k.wait = 0
      <4>1. t + 0 >= Least(c) /\ k.backoff >= Backoff(c + 1) /\ (c >= 1 => t >= Least(c - 1))
        BY <2>6, <3>2 DEF Paid
      <4>2. t + 0 = t
        OBVIOUS
      <4> QED BY <2>3, <4>1, <4>2 DEF Paid
    <3> QED BY <1>2, <2>1, <3>1, <3>2 DEF StartLoop, Wakes, Off
  <2>8. c <= trouble
    <3>1. k.at # "open"
      BY <1>2, <2>1 DEF StartLoop, Wakes, Off
    <3> QED BY <1>b, <2>1, <2>6, <3>1 DEF Counted, Intact
  <2>9. ASSUME NEW m \in Loops PROVE Paid(loop'[m], tries'[m].count, tries'[m].ticks) /\ Counted(m)'
    <3>1. CASE m = l
      BY <2>4, <2>5, <2>6, <2>7, <2>8, <3>1 DEF Counted
    <3>2. CASE m # l
      BY <1>b, <1>s, <2>4, <2>5, <3>2
    <3> QED BY <3>1, <3>2
  <2> QED BY <1>0, <2>4, <2>9 DEF BackoffInv
<1>3. ASSUME NEW l \in Loops, NEW s \in Socks, Connect(l, s) PROVE BackoffInv'
  <2>1. PICK k \in LoopRow : k = loop[l]
    BY <1>0
  <2>2. PICK r : r = [k EXCEPT !.at = "open", !.sock = s]
    OBVIOUS
  <2>3. r.at = "open" /\ r.backoff = k.backoff /\ r.sock = s
    BY <2>2 DEF LoopRow
  <2>4. loop' = [loop EXCEPT ![l].at = "open", ![l].sock = s] /\ sock' = [sock EXCEPT ![s] = Opened] /\ tries' = [tries EXCEPT ![l].count = @ + 1]
        /\ trouble' = trouble /\ k.at = "connect"
    BY <1>3, <2>1 DEF Connect
  <2>5. \A m \in Loops : loop'[m] = IF m = l THEN r ELSE loop[m]
    BY <1>0, <2>1, <2>2, <2>4
  <2>6. PICK c \in Nat, t \in 0..Least(MaxTrouble) : tries[l] = [count |-> c, ticks |-> t] /\ Paid(k, c, t) /\ t \in Nat
    BY <1>0, <1>b, <2>1 DEF TriesRow
  <2>7. PICK q : q = [count |-> c + 1, ticks |-> t]
    OBVIOUS
  <2>8. q \in TriesRow /\ q.count = c + 1 /\ q.ticks = t /\ tries' = [tries EXCEPT ![l] = q]
    <3>1. q \in TriesRow /\ q.count = c + 1 /\ q.ticks = t
      BY <2>6, <2>7 DEF TriesRow
    <3>2. PICK e : e = tries[l] /\ e = [count |-> c, ticks |-> t]
      BY <2>6
    <3>3. [e EXCEPT !.count = @ + 1] = q
      BY <2>7, <3>2
    <3>4. tries' = [tries EXCEPT ![l] = [tries[l] EXCEPT !.count = @ + 1]]
      BY <1>0, <2>4
    <3> QED BY <3>1, <3>2, <3>3, <3>4
  <2>9. \A m \in Loops : tries'[m] = IF m = l THEN q ELSE tries[m]
    BY <1>0, <2>8
  <2>10. Paid(r, c + 1, t)
    <3>1. t >= Least(c) /\ k.backoff >= Backoff(c + 1) /\ (c + 1) - 1 = c /\ c + 1 >= 1 /\ c + 1 # 0
      BY <2>4, <2>6 DEF Paid
    <3> QED BY <2>3, <3>1 DEF Paid
  <2>11. c <= trouble
    BY <1>b, <2>1, <2>4, <2>6 DEF Counted, Intact
  <2>12. Intact(l)'
    BY <1>0, <2>3, <2>4, <2>5, Blank DEF Intact
  <2>13. ASSUME NEW m \in Loops PROVE Paid(loop'[m], tries'[m].count, tries'[m].ticks) /\ Counted(m)'
    <3>1. CASE m = l
      <4>1. loop'[m] = r /\ tries'[m] = q /\ q.count = c + 1 /\ q.ticks = t /\ Intact(m)' /\ trouble' = trouble
        BY <2>4, <2>5, <2>8, <2>9, <2>12, <3>1
      <4>2. tries'[m].count <= trouble' + 1
        BY <1>0, <2>11, <4>1
      <4> QED BY <2>10, <4>1, <4>2 DEF Counted
    <3>2. CASE m # l
      BY <1>b, <1>s, <2>5, <2>9, <3>2
    <3> QED BY <3>1, <3>2
  <2> QED BY <1>0, <2>8, <2>13 DEF BackoffInv
<1>4. ASSUME NEW l \in Loops, NEW age, EndsTurn(l, age), loop[l].at \in {"connect", "open"}, tries[l].count <= trouble' PROVE BackoffInv'
  <2>1. /\ tries' \in [Loops -> TriesRow] /\ Paid(loop[l], tries[l].count, tries[l].ticks)'
        /\ tries'[l].count <= tries[l].count /\ loop'[l].at = "sleep"
        /\ \A m \in Loops \ {l} : loop'[m] = loop[m] /\ tries'[m] = tries[m]
    BY <1>0, <1>4, TurnPays
  <2>2. Counted(l)'
    <3>1. tries'[l].count \in Nat
      BY <2>1 DEF TriesRow
    <3> QED BY <1>0, <1>b, <1>t, <1>4, <2>1, <3>1 DEF Counted
  <2>3. \A m \in Loops \ {l} : Paid(loop[m], tries[m].count, tries[m].ticks)' /\ Counted(m)'
    BY <1>b, <1>s, <2>1
  <2> QED BY <2>1, <2>2, <2>3 DEF BackoffInv
<1>5. ASSUME NEW l \in Loops, ConnectFails(l) PROVE BackoffInv'
  <2>1. loop[l].at = "connect" /\ EndsTurn(l, 0)
    BY <1>5 DEF ConnectFails
  <2>2. tries[l].count <= trouble
    BY <1>b, <2>1 DEF Counted, Intact
  <2> QED BY <1>0, <1>b, <1>t, <1>4, <2>1, <2>2
<1>6. ASSUME NEW l \in Loops, Drops(l) PROVE BackoffInv'
  <2>1. PICK s : s = loop[l].sock
    OBVIOUS
  <2>2. /\ loop[l].at = "open" /\ EndsTurn(l, sock[s].age)
        /\ (sock[s].alive /\ ~sock[s].hub) \/ Overdue(s) \/ trouble' = trouble + 1
    BY <1>6, <2>1 DEF Drops, Broken, Trouble
  <2>3. CASE (sock[s].alive /\ ~sock[s].hub) \/ Overdue(s)
    <3>1. tries[l].count <= trouble
      BY <1>b, <2>1, <2>3 DEF Counted, Intact, Overdue
    <3> QED BY <1>0, <1>b, <1>t, <1>4, <2>2, <3>1
  <2>4. CASE trouble' = trouble + 1
    <3>1. tries[l].count <= trouble + 1
      BY <1>0, <1>b DEF Counted
    <3> QED BY <1>4, <2>2, <2>4, <3>1
  <2> QED BY <2>2, <2>3, <2>4
<1>7. CASE SocketTick
  <2>1. /\ ~Busy /\ trouble' = trouble
        /\ loop' = [l \in Loops |-> IF loop[l].at = "sleep" THEN [loop[l] EXCEPT !.wait = @ - 1] ELSE loop[l]]
        /\ tries' = [l \in Loops |-> IF tries[l].count = 0 THEN tries[l] ELSE [tries[l] EXCEPT !.ticks = Now(@, Least(MaxTrouble))]]
    BY <1>7 DEF SocketTick
  <2>2. PICK most \in Nat : most = Least(MaxTrouble)
    BY Backoffs
  <2>3. ASSUME NEW l \in Loops
        PROVE  /\ tries'[l] \in TriesRow /\ tries'[l].count = tries[l].count /\ loop'[l].at = loop[l].at /\ loop'[l].sock = loop[l].sock
               /\ Paid(loop'[l], tries'[l].count, tries'[l].ticks)
    <3>1. PICK k \in LoopRow : k = loop[l]
      BY <1>0
    <3>2. PICK c \in Nat, t \in 0..most : tries[l] = [count |-> c, ticks |-> t] /\ Paid(k, c, t)
      BY <1>0, <1>b, <2>2, <3>1 DEF TriesRow
    <3>3. PICK u : u = IF c = 0 THEN t ELSE Now(t, most)
      OBVIOUS
    <3>4. u \in 0..most /\ u >= t /\ (c # 0 => u = t + 1 \/ u = most) /\ tries'[l] = [count |-> c, ticks |-> u]
      <4>1. u \in 0..most /\ u >= t /\ (c # 0 => u = t + 1 \/ u = most)
        BY <3>3 DEF Now
      <4>2. tries'[l] = IF c = 0 THEN tries[l] ELSE [tries[l] EXCEPT !.ticks = Now(@, most)]
        BY <2>1, <2>2, <3>2
      <4> QED BY <3>2, <3>3, <4>1, <4>2
    <3>5. tries'[l] \in TriesRow /\ tries'[l].count = c /\ tries'[l].ticks = u
      BY <2>2, <3>4 DEF TriesRow
    <3>6. CASE k.at = "sleep"
      <4>1. k.wait # 0 /\ k.wait \in 0..MaxBackoff
        BY <2>1, <3>1, <3>6 DEF Busy, LoopRow
      <4>2. PICK w \in 0..MaxBackoff : w = k.wait - 1
        BY <4>1
      <4>3. loop'[l] = [k EXCEPT !.wait = w]
        BY <2>1, <3>1, <3>6, <4>2
      <4>4. loop'[l].at = "sleep" /\ loop'[l].backoff = k.backoff /\ loop'[l].sock = k.sock /\ loop'[l].wait = w
        BY <3>6, <4>2, <4>3 DEF LoopRow
      <4>5. c <= MaxTrouble /\ Least(c) \in Nat /\ Least(c) <= most
        <5>1. c <= trouble
          BY <1>b, <3>1, <3>2, <3>6 DEF Counted, Intact
        <5>2. c <= MaxTrouble /\ MaxTrouble \in Nat
          BY <1>0, <5>1, BotSocketAssumption
        <5>3. Least(c) \in Nat /\ Least(c) <= Least(MaxTrouble)
          BY <5>2, Backoffs, LongerWait
        <5> QED BY <2>2, <5>2, <5>3
      <4>6. t + k.wait >= Least(c) /\ k.backoff >= Backoff(c + 1) /\ (c >= 1 => t >= Least(c - 1))
        BY <3>2, <3>6 DEF Paid
      <4>7. u + w >= Least(c)
        <5>1. CASE c = 0
          <6>1. Least(c) = 0
            BY <5>1, Backoffs
          <6> QED BY <3>4, <4>2, <6>1
        <5>2. CASE c # 0
          BY <3>4, <4>1, <4>2, <4>5, <4>6, <5>2
        <5> QED BY <5>1, <5>2
      <4>8. c >= 1 => u >= Least(c - 1)
        <5> SUFFICES ASSUME c >= 1 PROVE u >= Least(c - 1)
          OBVIOUS
        <5>1. c - 1 \in Nat
          OBVIOUS
        <5>2. Least(c - 1) \in Nat /\ t >= Least(c - 1)
          BY <4>6, <5>1, Backoffs
        <5> QED BY <3>4, <5>2
      <4>9. Paid(loop'[l], c, u)
        BY <4>4, <4>6, <4>7, <4>8 DEF Paid
      <4> QED BY <3>1, <3>2, <3>5, <3>6, <4>4, <4>9
    <3>7. CASE k.at # "sleep"
      <4>1. loop'[l] = k
        BY <2>1, <3>1, <3>7
      <4>2. k.at # "connect"
        BY <2>1, <3>1 DEF Busy
      <4>3. c >= 1 => u >= Least(c - 1)
        <5> SUFFICES ASSUME c >= 1 PROVE u >= Least(c - 1)
          OBVIOUS
        <5>1. c - 1 \in Nat
          OBVIOUS
        <5>2. Least(c - 1) \in Nat /\ t >= Least(c - 1)
          BY <3>2, <5>1, Backoffs DEF Paid
        <5> QED BY <3>4, <5>2
      <4>4. Paid(k, c, u)
        BY <3>2, <3>7, <4>2, <4>3 DEF Paid
      <4> QED BY <3>1, <3>2, <3>5, <4>1, <4>4
    <3> QED BY <3>6, <3>7
  <2>4. \A l \in Loops : Counted(l)'
    BY <1>s, <2>3
  <2>5. tries' \in [Loops -> TriesRow]
    BY <2>1, <2>3
  <2> QED BY <2>3, <2>4, <2>5 DEF BackoffInv
<1>8. CASE BotRestarts
  <2>1. PICK z : z = [count |-> 0, ticks |-> 0]
    OBVIOUS
  <2>2. Least(MaxTrouble) \in Nat
    BY Backoffs
  <2>3. z \in TriesRow /\ z.count = 0 /\ z.ticks = 0 /\ Off.at = "off"
    BY <2>1, <2>2 DEF TriesRow, Off
  <2>4. tries' = [l \in Loops |-> z] /\ loop' = [l \in Loops |-> Off]
    BY <1>8, <2>1 DEF BotRestarts
  <2>5. Paid(Off, 0, 0)
    BY <2>3 DEF Paid
  <2>6. 0 <= trouble'
    BY <1>0, <1>t
  <2> QED BY <2>3, <2>4, <2>5, <2>6 DEF BackoffInv, Counted
<1>9. ASSUME NEW s \in Socks, Hello(s) \/ Closed(s) \/ Resets(s) \/ Stalls(s) PROVE UNCHANGED <<loop, tries>>
  BY <1>9 DEF Hello, Closed, Resets, Stalls
<1>10. Sweep \/ GoesDown \/ ComesUp \/ UNCHANGED socketVars => UNCHANGED <<loop, tries>>
  BY DEF Sweep, GoesDown, ComesUp, socketVars
<1> QED BY <1>1, <1>2, <1>3, <1>5, <1>6, <1>7, <1>8, <1>9, <1>10 DEF SocketNext

LEMMA NoStorms == LoopsInv /\ BackoffInv => NoStorm /\ SocketTypeOK
<1> SUFFICES ASSUME LoopsInv, BackoffInv PROVE NoStorm /\ SocketTypeOK
  OBVIOUS
<1> USE BotSocketAssumption
<1>0. LoopsTyped /\ SockInv
  BY DEF LoopsInv
<1>1. NoStorm
  BY DEF NoStorm, BackoffInv, Paid, TriesRow
<1>2. ASSUME NEW l \in Loops PROVE tries[l] \in [count : 0..MaxTrouble + 1, ticks : 0..Least(MaxTrouble)]
  <2>1. PICK c \in Nat, t \in 0..Least(MaxTrouble) : tries[l] = [count |-> c, ticks |-> t]
    BY DEF BackoffInv, TriesRow
  <2>2. c <= trouble + 1 /\ trouble \in 0..MaxTrouble
    BY <1>0, <2>1 DEF BackoffInv, Counted, SockInv
  <2> QED BY <2>1, <2>2
<1>3. tries \in [Loops -> [count : 0..MaxTrouble + 1, ticks : 0..Least(MaxTrouble)]]
  BY <1>2 DEF BackoffInv
<1> QED BY <1>0, <1>1, <1>3 DEF SocketTypeOK, LoopsTyped, SockInv, LoopRow, SockRow

(* What a user's commands can be.                                            *)
AskRow == [kind : {"none", "slash", "text", "unlink"}, good : BOOLEAN,
           at : {"none", "sent", "work", "back", "done", "lost"}, sock : Socks \cup {Nil},
           shown : {"nothing", "thinking", "linked", "failed"}]
AsksTyped ==
    /\ ask \in [Asks -> AskRow] /\ pending \in Asks \cup {Nil}
    /\ chatLink \in {"none", "active", "revoked"} /\ told \in {"nothing", "linked", "failed", "unlinked"}

LEMMA AsksStart == CommandsInit => AsksTyped
BY DEF CommandsInit, AsksTyped, AskRow, NoAsk

LEMMA AsksKept == LoopsTyped /\ AsksTyped /\ (CommandsNext \/ UNCHANGED commandVars) => AsksTyped'
<1> SUFFICES ASSUME LoopsTyped, AsksTyped, CommandsNext \/ UNCHANGED commandVars PROVE AsksTyped'
  OBVIOUS
<1>0. /\ ask \in [Asks -> AskRow] /\ pending \in Asks \cup {Nil} /\ slot \in Socks \cup {Nil}
      /\ chatLink \in {"none", "active", "revoked"} /\ told \in {"nothing", "linked", "failed", "unlinked"}
  BY DEF AsksTyped, LoopsTyped
<1>1. CASE OverSocket
  <2>1. ASSUME NEW a \in Asks PROVE ask'[a] \in AskRow
    <3>1. PICK k \in AskRow : k = ask[a]
      BY <1>0
    <3>2. \/ ask'[a] = k \/ ask'[a] = [k EXCEPT !.at = "lost", !.sock = Nil] \/ ask'[a] = [k EXCEPT !.sock = Nil]
      BY <1>1, <3>1 DEF OverSocket, Carried
    <3> QED BY <3>2 DEF AskRow
  <2>2. ask' = [a \in Asks |-> ask'[a]]
    BY <1>1 DEF OverSocket, Carried
  <2>3. pending' \in Asks \cup {Nil} /\ chatLink' = chatLink /\ told' = told
    BY <1>0, <1>1 DEF OverSocket
  <2>4. ask' \in [Asks -> AskRow]
    BY <2>1, <2>2
  <2> QED BY <1>0, <2>3, <2>4 DEF AsksTyped
<1>2. ASSUME NEW a \in Asks, NEW good \in BOOLEAN, SlashLink(a, good) \/ TextLink(a, good) \/ UnlinkCmd(a) PROVE AsksTyped'
  <2>1. \A kind \in {"slash", "text", "unlink"}, g \in BOOLEAN, show \in {"nothing", "thinking"} : Sent(kind, g, show) \in AskRow
    BY <1>0 DEF Sent, AskRow
  <2>2. PICK k \in AskRow : ask' = [ask EXCEPT ![a] = k]
    BY <1>2, <2>1 DEF SlashLink, TextLink, UnlinkCmd
  <2>3. pending' \in {pending, a} /\ chatLink' = chatLink /\ told' \in {told, "unlinked"}
    BY <1>2 DEF SlashLink, TextLink, UnlinkCmd
  <2> QED BY <1>0, <2>2, <2>3 DEF AsksTyped
<1>3. ASSUME NEW a \in Asks, HubTakes(a) \/ Replies(a) PROVE AsksTyped'
  <2>1. PICK k \in AskRow : k = ask[a]
    BY <1>0
  <2>2. PICK at \in {"work", "done", "back", "lost"} : ask' = [ask EXCEPT ![a].at = at]
    BY <1>3 DEF HubTakes, Replies
  <2>3. [k EXCEPT !.at = at] \in AskRow
    BY DEF AskRow
  <2>4. ask' \in [Asks -> AskRow]
    BY <1>0, <2>1, <2>2, <2>3
  <2>5. pending' = pending /\ told' = told /\ chatLink' \in {chatLink, "revoked", "active"}
    BY <1>3 DEF HubTakes, Replies
  <2> QED BY <1>0, <2>4, <2>5 DEF AsksTyped
<1>4. ASSUME NEW a \in Asks, Gets(a) PROVE AsksTyped'
  <2>1. PICK k \in AskRow : k = ask[a]
    BY <1>0
  <2>2. PICK done : done = [ask EXCEPT ![a].at = "done"]
    OBVIOUS
  <2>3. [k EXCEPT !.at = "done"] \in AskRow
    BY DEF AskRow
  <2>4. done \in [Asks -> AskRow]
    BY <1>0, <2>1, <2>2, <2>3
  <2>5. PICK o \in {"linked", "failed"} : o = Outcome(a)
    BY DEF Outcome
  <2>6. (pending # Nil /\ ask' = [done EXCEPT ![pending].shown = o]) \/ ask' = done
    BY <1>4, <2>2, <2>5 DEF Gets
  <2>7. ask' \in [Asks -> AskRow]
    <3>1. CASE pending # Nil /\ ask' = [done EXCEPT ![pending].shown = o]
      <4>1. PICK m \in AskRow : m = done[pending]
        BY <1>0, <2>4, <3>1
      <4>2. [m EXCEPT !.shown = o] \in AskRow
        BY DEF AskRow
      <4> QED BY <1>0, <2>4, <3>1, <4>1, <4>2
    <3> QED BY <2>4, <2>6, <3>1
  <2>8. pending' = Nil /\ chatLink' = chatLink /\ told' \in {told, o}
    BY <1>4, <2>5 DEF Gets
  <2> QED BY <1>0, <2>7, <2>8 DEF AsksTyped
<1>5. CASE UNCHANGED commandVars
  BY <1>0, <1>5 DEF commandVars, AsksTyped
<1> QED BY <1>1, <1>2, <1>3, <1>4, <1>5 DEF CommandsNext

(***************************************************************************)
(* The distribution server.                                                *)
(***************************************************************************)
(* A set of versions that is not empty has a highest. *)
LEMMA Highest ==
    ASSUME NEW S \in SUBSET Versions, S # {}
    PROVE  Max(S) \in S /\ \A w \in S : w <= Max(S)
<1> USE ReleaseAssumption DEF Versions
<1>1. PICK T \in SUBSET Nat : T = {n \in Nat : \E w \in S : n = V - w}
  OBVIOUS
<1>2. PICK w \in S : TRUE
  OBVIOUS
<1>3. V - w \in T
  BY <1>1
<1>4. PICK R : R = OpToRel(<, Nat)
  OBVIOUS
<1>5. \E x \in T : \A y \in T : <<y, x>> \notin R
  BY <1>3, <1>4, NatLessThanWellFounded, WFMin, Zenon
<1>6. PICK x \in T : \A y \in T : ~(y < x)
  <2>1. \A a, b \in Nat : a < b => <<a, b>> \in R
    BY <1>4, Zenon DEF OpToRel
  <2> QED BY <1>1, <1>5, <2>1
<1>7. PICK m \in S : x = V - m
  BY <1>1, <1>6
<1>8. \A y \in S : m >= y
  <2> SUFFICES ASSUME NEW y \in S PROVE m >= y
    OBVIOUS
  <2>1. V - y \in T
    BY <1>1
  <2>2. ~(V - y < V - m)
    BY <2>1, <1>6, <1>7
  <2> QED BY <2>2
<1>9. Max(S) \in S /\ \A y \in S : Max(S) >= y
  BY <1>8 DEF Max
<1> QED BY <1>9

PassRow == [at : {"off", "list", "bytes", "sums"}, version : Versions \cup {Nothing}, sums : BOOLEAN, build : Builds, age : 0..Timeout]
ReleaseRow == [published : BOOLEAN, build : Builds, sums : Builds]
(* what a pass has spent at most, by the requests it has made *)
Elapsed(k) == k.age + (IF k.at = "sums" THEN 2 * Timeout ELSE IF k.at = "bytes" THEN Timeout ELSE 0)

(* ReleaseTypeOK, with its sets named *)
ReleaseTyped ==
    /\ allowPre \in BOOLEAN /\ repo \in [Versions -> ReleaseRow] /\ store \in Artifacts /\ pass \in [Passes -> PassRow]
    /\ due \in 0..PollEvery /\ copy \in [version : 0..V, build : Builds]
    /\ edits \in 0..MaxEdits /\ faults \in 0..MaxFaults /\ quiet \in 0..Catchup

(* A pass that waits for nothing is Idle; what one fetches is above the slot.  *)
Ready(k) ==
    /\ k.at = "off" => k = Idle
    /\ k.at \in {"bytes", "sums"} => k.version \in Versions /\ k.version > store.version
Sorted == \A p \in Passes : Ready(pass[p])

(* The passes do not overlap: one has ended by the time the next is due.       *)
Lone(p) == \A q \in Passes : q # p => pass[q] = Idle
OnePass == \A p \in Passes : pass[p] # Idle => Lone(p) /\ due + Elapsed(pass[p]) >= PollEvery

Best(v) == v \in Eligible /\ InPlace(v) /\ \A w \in Eligible : w <= v
Brings(k, v) ==
    \/ k.at = "list" /\ quiet <= PollEvery + k.age
    \/ k.at = "bytes" /\ k.version = v /\ quiet <= PollEvery + Timeout + k.age /\ (k.sums => repo[v].sums # Nothing)
    \/ /\ k.at = "sums" /\ k.version = v /\ quiet <= PollEvery + 2 * Timeout + k.age
       /\ k.build = repo[v].build /\ repo[v].sums = repo[v].build
(* The best release is served, a pass is bringing it, or one is due in time. *)
Underway == \A v \in Versions : Best(v) /\ store.version < v =>
    quiet + due <= PollEvery \/ \E p \in Passes : Brings(pass[p], v)

ReleaseInv == ReleaseTyped /\ Sorted /\ OnePass /\ Underway

LEMMA ReleaseTypes == ReleaseTyped <=> ReleaseTypeOK
BY DEF ReleaseTyped, ReleaseTypeOK, PassRow, ReleaseRow

LEMMA Idles == Idle \in PassRow /\ Idle.at = "off" /\ NoArtifact \in Artifacts /\ NoArtifact.version = 0
<1>1. Nothing \in Builds /\ 0 \in 0..Timeout /\ Nothing \in 0..V /\ Nothing = 0
  BY ReleaseAssumption DEF Builds, Nothing
<1> QED BY <1>1 DEF Idle, PassRow, NoArtifact, Artifacts

LEMMA ReleaseStart == ReleaseInit => ReleaseInv
<1> SUFFICES ASSUME ReleaseInit PROVE ReleaseInv
  OBVIOUS
<1> USE ReleaseAssumption
<1>1. ReleaseTyped
  <2>1. repo \in [Versions -> ReleaseRow]
    BY DEF ReleaseInit, ReleaseRow, Builds, Nothing
  <2>2. Catchup \in Nat
    BY DEF Catchup
  <2>3. copy \in [version : 0..V, build : Builds]
    BY DEF ReleaseInit, NoCopy, Builds, Nothing
  <2>4. 0 \in 0..PollEvery /\ 0 \in 0..MaxEdits /\ 0 \in 0..MaxFaults /\ 0 \in 0..Catchup
    BY <2>2
  <2>5. pass \in [Passes -> PassRow] /\ store \in Artifacts
    BY Idles DEF ReleaseInit
  <2> QED BY <2>1, <2>3, <2>4, <2>5 DEF ReleaseInit, ReleaseTyped
<1>2. Sorted /\ OnePass
  BY Idles DEF ReleaseInit, Sorted, Ready, OnePass
<1>3. Underway
  BY DEF ReleaseInit, Underway
<1> QED BY <1>1, <1>2, <1>3 DEF ReleaseInv

(* The best release is the same while the releases are. *)
LEMMA BestStays == ASSUME UNCHANGED <<repo, allowPre>>, NEW v PROVE Best(v)' <=> Best(v)
BY DEF Best, Eligible, InPlace

(* After an edit or a fault the next pass is due in time. *)
LEMMA Anew == ReleaseTyped' /\ quiet' = 0 => Underway'
<1> SUFFICES ASSUME ReleaseTyped', quiet' = 0 PROVE quiet' + due' <= PollEvery
  BY DEF Underway
<1>1. PICK d \in 0..PollEvery : d = due'
  BY DEF ReleaseTyped
<1>2. 0 + d <= PollEvery
  BY ReleaseAssumption
<1> QED BY <1>1, <1>2

LEMMA Listing ==
    ASSUME ReleaseTyped, NEW seen \in SUBSET Eligible
    PROVE  /\ pickLatestRelease(seen) \in Versions \cup {Nothing}
           /\ \A v : Best(v) /\ seen = Eligible => pickLatestRelease(seen) = v
<1>0. Versions \subseteq Nat /\ Nothing \notin Versions /\ Eligible \subseteq Versions
  BY ReleaseAssumption DEF Versions, Nothing, Eligible
<1>1. CASE seen = {}
  BY <1>0, <1>1 DEF pickLatestRelease, Best
<1>2. CASE seen # {}
  <2>1. seen \in SUBSET Versions
    BY <1>0
  <2>2. PICK m : m = Max(seen)
    OBVIOUS
  <2>3. m \in seen /\ \A w \in seen : w <= m
    BY <1>2, <2>1, <2>2, Highest
  <2>4. pickLatestRelease(seen) = m
    BY <1>2, <2>2 DEF pickLatestRelease
  <2>5. ASSUME NEW v, Best(v), seen = Eligible PROVE m = v
    <3>1. v \in Eligible /\ m \in Eligible /\ m <= v /\ v <= m
      BY <2>3, <2>5 DEF Best
    <3>2. v \in Nat /\ m \in Nat
      BY <3>1, <1>0
    <3> QED BY <3>1, <3>2
  <2> QED BY <2>1, <2>3, <2>4, <2>5
<1> QED BY <1>1, <1>2

LEMMA Catches == Catchup \in Nat /\ Catchup = PollEvery + 3 * Timeout + 1 /\ 0 \in 0..Catchup /\ PollEvery \in Nat /\ Timeout \in Nat
BY ReleaseAssumption DEF Catchup

LEMMA Edited ==
    ASSUME ReleaseInv, Edit, repo' \in [Versions -> ReleaseRow], UNCHANGED <<allowPre, store, pass, due, copy, faults>>
    PROVE  ReleaseInv'
<1>1. ReleaseTyped'
  BY Catches, ReleaseAssumption DEF ReleaseInv, ReleaseTyped, Edit
<1>2. Sorted' /\ OnePass'
  BY DEF ReleaseInv, Sorted, Ready, OnePass, Lone, Elapsed
<1> QED BY <1>1, <1>2, Anew DEF Edit, ReleaseInv

(* A step of one pass that takes no time: the others, and the releases, are   *)
(* left alone, and the slot is filled only as the pass ends.                  *)
LEMMA Passing ==
    ASSUME ReleaseInv, NEW p \in Passes, Lone(p), NEW k \in PassRow, Move(p, k), Ready(k),
           k # Idle => store' = store /\ due' + Elapsed(k) >= PollEvery,
           store' \in Artifacts, UNCHANGED <<allowPre, repo, copy, edits>>,
           due' \in 0..PollEvery, faults' \in 0..MaxFaults, quiet' \in {quiet, 0},
           quiet' = 0 \/ (/\ due' = due \/ due = 0
                          /\ \A v \in Versions : Best(v) /\ store'.version < v =>
                                store.version < v
                                /\ (Brings(pass[p], v) \/ (due = 0 /\ quiet <= PollEvery /\ due' # due) => Brings(k, v)))
    PROVE  ReleaseInv'
<1>1. pass' \in [Passes -> PassRow] /\ \A q \in Passes : pass'[q] = IF q = p THEN k ELSE Idle
  BY DEF ReleaseInv, ReleaseTyped, Move, Lone
<1>2. ReleaseTyped'
  BY <1>1, Catches DEF ReleaseInv, ReleaseTyped
<1>s. Sorted'
  <2>1. k = Idle \/ Ready(k)'
    BY DEF Ready
  <2>2. ASSUME NEW q \in Passes PROVE Ready(pass[q])'
    <3>1. CASE pass'[q] = Idle
      BY <3>1, Idles DEF Ready
    <3>2. CASE pass'[q] # Idle
      BY <1>1, <2>1, <3>2 DEF Ready
    <3> QED BY <3>1, <3>2
  <2> QED BY <2>2 DEF Sorted
<1>o. OnePass'
  BY <1>1 DEF OnePass, Lone, Elapsed
<1>3. CASE quiet' = 0
  BY <1>s, <1>o, <1>2, <1>3, Anew DEF ReleaseInv
<1>4. CASE quiet' # 0
  <2>1. quiet' = quiet
    BY <1>4
  <2>2. ASSUME NEW v \in Versions, Best(v)', store'.version < v
        PROVE  quiet' + due' <= PollEvery \/ \E q \in Passes : Brings(pass[q], v)'
    <3>1. Best(v)
      BY <2>2, BestStays
    <3>2. store.version < v /\ (Brings(pass[p], v) \/ (due = 0 /\ quiet <= PollEvery /\ due' # due) => Brings(k, v))
      BY <1>4, <2>2, <3>1
    <3>3. Brings(k, v) => Brings(pass[p], v)'
      BY <1>1, <2>1 DEF Brings
    <3>4. CASE quiet + due <= PollEvery
      <4>1. due' = due \/ (due = 0 /\ quiet <= PollEvery /\ due' # due)
        <5>1. due = 0 => quiet <= PollEvery
          BY <3>4 DEF ReleaseInv, ReleaseTyped
        <5> QED BY <1>4, <5>1
      <4> QED BY <2>1, <3>2, <3>3, <3>4, <4>1
    <3>5. ASSUME NEW q \in Passes, Brings(pass[q], v) PROVE \E x \in Passes : Brings(pass[x], v)'
      <4>1. q = p
        BY <3>5, Idles DEF Brings, Lone
      <4> QED BY <3>2, <3>3, <3>5, <4>1
    <3> QED BY <3>1, <3>2, <3>4, <3>5 DEF ReleaseInv, Underway
  <2>3. Underway'
    BY <2>2 DEF Underway
  <2> QED BY <1>s, <1>o, <1>2, <2>3 DEF ReleaseInv
<1> QED BY <1>3, <1>4

LEMMA Keeps ==
    ASSUME NEW v \in 0..V, NEW b \in Builds, NEW verified \in BOOLEAN, Keep(v, b, verified)
    PROVE  store' \in Artifacts /\ store'.version = v
<1>1. PICK a : a = [version |-> v, build |-> b, verified |-> verified]
  OBVIOUS
<1>2. a \in Artifacts /\ a.version = v
  BY <1>1 DEF Artifacts
<1> QED BY <1>1, <1>2 DEF Keep

LEMMA ReleaseKept ==
    ASSUME 3 * Timeout < PollEvery, ReleaseInv, ReleaseNext \/ UNCHANGED releaseVars
    PROVE  ReleaseInv' /\ Ratchet
<1> USE ReleaseAssumption
<1>t. /\ allowPre \in BOOLEAN /\ repo \in [Versions -> ReleaseRow] /\ store \in Artifacts /\ pass \in [Passes -> PassRow]
      /\ due \in 0..PollEvery /\ copy \in [version : 0..V, build : Builds]
      /\ edits \in 0..MaxEdits /\ faults \in 0..MaxFaults /\ quiet \in 0..Catchup
      /\ Sorted /\ OnePass /\ Underway /\ ReleaseTyped
  BY DEF ReleaseInv, ReleaseTyped
<1>f. Fault => faults' \in 0..MaxFaults /\ quiet' = 0 /\ faults' # faults
  BY <1>t DEF Fault
<1>v. /\ \A v \in Versions : v \in Nat \ {0}
      /\ store.version \in 0..V
  BY <1>t DEF Versions, Artifacts
<1>p. ASSUME NEW p \in Passes, pass[p].at # "off"
      PROVE  /\ Lone(p) /\ due + Elapsed(pass[p]) >= PollEvery /\ pass[p].age \in 0..Timeout /\ due \in 0..PollEvery
             /\ pass[p].at \in {"bytes", "sums"} => pass[p].version \in Versions /\ pass[p].version > store.version
  BY <1>p, <1>t, Idles DEF OnePass, Sorted, Ready, PassRow
<1>1. ASSUME NEW v \in Versions, Publish(v) \/ Upload(v) \/ UploadSums(v) \/ Yank(v) PROVE ReleaseInv' /\ Ratchet
  <2>1. repo[v].build \in Builds /\ (repo[v].build < 2 => repo[v].build + 1 \in Builds)
    BY <1>t DEF ReleaseRow, Builds
  <2>2. repo' \in [Versions -> ReleaseRow]
    <3>1. CASE Publish(v)
      BY <1>t, <3>1 DEF Publish, ReleaseRow
    <3>2. CASE Upload(v)
      BY <1>t, <2>1, <3>2 DEF Upload, ReleaseRow
    <3>3. CASE UploadSums(v)
      BY <1>t, <2>1, <3>3 DEF UploadSums, ReleaseRow
    <3>4. CASE Yank(v)
      BY <1>t, <3>4 DEF Yank, ReleaseRow
    <3> QED BY <1>1, <3>1, <3>2, <3>3, <3>4
  <2>3. Edit /\ UNCHANGED <<allowPre, store, pass, due, copy, faults>>
    BY <1>1 DEF Publish, Upload, UploadSums, Yank
  <2> QED BY <2>2, <2>3, Edited DEF Ratchet
<1>2. ASSUME NEW p \in Passes, Start(p) PROVE ReleaseInv' /\ Ratchet
  <2>1. PICK k : k = [Idle EXCEPT !.at = "list"]
    OBVIOUS
  <2>2. k \in PassRow /\ k.at = "list" /\ k.age = 0
    <3>1. k = [at |-> "list", version |-> Nothing, sums |-> FALSE, build |-> Nothing, age |-> 0]
      BY <2>1 DEF Idle
    <3>2. Nothing \in Builds /\ 0 \in 0..Timeout
      BY DEF Builds, Nothing
    <3> QED BY <3>1, <3>2 DEF PassRow
  <2>3. Move(p, k) /\ due = 0 /\ due' = PollEvery /\ pass[p] = Idle /\ quiet' = quiet /\ store' = store
    BY <1>2, <2>1 DEF Start
  <2>4. ASSUME NEW v \in Versions PROVE (Brings(pass[p], v) \/ (due = 0 /\ quiet <= PollEvery /\ due' # due) => Brings(k, v))
    BY <2>2, <2>3, Idles DEF Brings
  <2>5. faults' = faults /\ UNCHANGED <<allowPre, repo, copy, edits>>
    BY <1>2 DEF Start
  <2>6. due' \in 0..PollEvery
    BY <2>3
  <2>7. Lone(p)
    <3>1. ASSUME NEW q \in Passes, pass[q] # Idle PROVE FALSE
      <4>1. due + Elapsed(pass[q]) >= PollEvery /\ pass[q].age \in 0..Timeout
        BY <1>t, <3>1 DEF OnePass, PassRow
      <4>2. Elapsed(pass[q]) <= 3 * Timeout
        BY <4>1 DEF Elapsed
      <4>3. Elapsed(pass[q]) \in Nat
        BY <4>1 DEF Elapsed
      <4> QED BY <2>3, <4>1, <4>2, <4>3
    <3> QED BY <3>1 DEF Lone
  <2>8. Ready(k)
    BY <2>2 DEF Ready
  <2>9. due' + Elapsed(k) >= PollEvery
    BY <2>2, <2>3 DEF Elapsed
  <2>10. quiet' \in {quiet, 0} /\ faults' \in 0..MaxFaults /\ store' \in Artifacts
    BY <1>t, <2>3, <2>5
  <2>11. \A v \in Versions : Best(v) /\ store'.version < v => store.version < v
                /\ (Brings(pass[p], v) \/ (due = 0 /\ quiet <= PollEvery /\ due' # due) => Brings(k, v))
    BY <2>3, <2>4
  <2> QED BY <2>2, <2>3, <2>5, <2>6, <2>7, <2>8, <2>9, <2>10, <2>11, Passing DEF Ratchet
<1>3. ASSUME NEW p \in Passes, Listed(p) PROVE ReleaseInv' /\ Ratchet
  <2>1. PICK seen \in SUBSET Eligible :
          /\ pass[p].at = "list"
          /\ (seen = Eligible /\ UNCHANGED <<faults, quiet>>) \/ (seen # Eligible /\ Fault)
          /\ Move(p, IF pickLatestRelease(seen) # Nothing /\ Ahead(pickLatestRelease(seen)) /\ repo[pickLatestRelease(seen)].build # Nothing
                     THEN [at |-> "bytes", version |-> pickLatestRelease(seen), sums |-> repo[pickLatestRelease(seen)].sums # Nothing,
                           build |-> Nothing, age |-> 0]
                     ELSE Idle)
          /\ UNCHANGED <<allowPre, repo, store, due, copy, edits>>
    BY <1>3 DEF Listed
  <2>2. PICK v : v = pickLatestRelease(seen)
    OBVIOUS
  <2>3. PICK g \in BOOLEAN : g <=> (v # Nothing /\ Ahead(v) /\ repo[v].build # Nothing)
    OBVIOUS
  <2>b. PICK c \in BOOLEAN : c = (repo[v].sums # Nothing)
    OBVIOUS
  <2>4. PICK k : k = IF g THEN [at |-> "bytes", version |-> v, sums |-> c, build |-> Nothing, age |-> 0] ELSE Idle
    OBVIOUS
  <2>5. Move(p, k)
    BY <2>1, <2>2, <2>3, <2>4, <2>b
  <2>6. v \in Versions \cup {Nothing} /\ \A w : Best(w) /\ seen = Eligible => v = w
    BY <1>t, <2>2, Listing
  <2>7. k \in PassRow /\ Ready(k) /\ (g => k.at = "bytes" /\ k.version = v /\ k.sums = c /\ k.age = 0) /\ (~g => k = Idle)
    <3>1. CASE g
      <4>1. v \in Versions /\ v > store.version /\ Nothing \in Builds /\ 0 \in 0..Timeout
        BY <2>3, <2>6, <3>1 DEF Builds, Nothing, Ahead
      <4> QED BY <2>4, <3>1, <4>1 DEF PassRow, Ready
    <3>2. CASE ~g
      BY <2>4, <3>2, Idles DEF Ready
    <3> QED BY <3>1, <3>2
  <2>p. Lone(p) /\ due + Elapsed(pass[p]) >= PollEvery /\ pass[p].age \in 0..Timeout /\ due \in 0..PollEvery
    BY <1>p, <2>1
  <2>8. ASSUME NEW w \in Versions, Best(w), store.version < w, seen = Eligible, Brings(pass[p], w)
        PROVE  Brings(k, w)
    <3>1. v = w /\ repo[w].build # Nothing /\ g
      BY <2>3, <2>6, <2>8, <1>v DEF Best, InPlace, Ahead, Nothing
    <3>2. k.at = "bytes" /\ k.version = w /\ k.age = 0 /\ (k.sums => repo[w].sums # Nothing)
      BY <2>7, <2>b, <3>1
    <3>3. quiet <= PollEvery + pass[p].age
      BY <2>1, <2>8 DEF Brings
    <3>4. quiet <= PollEvery + Timeout + 0
      BY <1>t, <2>p, <3>3, Catches
    <3> QED BY <3>2, <3>4 DEF Brings
  <2>9. quiet' = 0 \/ (seen = Eligible /\ quiet' = quiet /\ faults' = faults)
    BY <1>f, <2>1
  <2>10. faults' \in 0..MaxFaults
    BY <1>f, <1>t, <2>1
  <2>11. quiet' \in {quiet, 0}
    BY <2>9
  <2>12. due' = due /\ due' \in 0..PollEvery /\ store' = store /\ store' \in Artifacts /\ UNCHANGED <<allowPre, repo, copy, edits>>
    BY <1>t, <2>1
  <2>13. quiet' = 0 \/ \A w \in Versions : Best(w) /\ store'.version < w =>
            store.version < w /\ (Brings(pass[p], w) \/ (due = 0 /\ quiet <= PollEvery /\ due' # due) => Brings(k, w))
    BY <2>8, <2>9, <2>12
  <2>14. k # Idle => due' + Elapsed(k) >= PollEvery
    <3>1. Elapsed(pass[p]) = pass[p].age
      BY <2>1, <2>p DEF Elapsed
    <3>2. k # Idle => Elapsed(k) = Timeout
      BY <2>7 DEF Elapsed
    <3> QED BY <2>p, <2>12, <3>1, <3>2
  <2> QED BY <2>5, <2>7, <2>p, <2>10, <2>11, <2>12, <2>13, <2>14, Passing DEF Ratchet
<1>4. ASSUME NEW p \in Passes, Downloaded(p) PROVE ReleaseInv' /\ Ratchet
  <2>1. PICK v : v = pass[p].version
    OBVIOUS
  <2>2. PICK b : b = repo[v].build
    OBVIOUS
  <2>3. PICK k : k = IF pass[p].sums THEN [at |-> "sums", version |-> v, sums |-> TRUE, build |-> b, age |-> 0] ELSE Idle
    OBVIOUS
  <2>4. /\ pass[p].at = "bytes" /\ Move(p, k)
        /\ IF pass[p].sums THEN store' = store ELSE Keep(v, b, FALSE)
        /\ UNCHANGED <<allowPre, repo, due, copy, edits, faults, quiet>>
    BY <1>4, <2>1, <2>2, <2>3 DEF Downloaded
  <2>p. /\ Lone(p) /\ due + Elapsed(pass[p]) >= PollEvery /\ pass[p].age \in 0..Timeout /\ due \in 0..PollEvery
        /\ v \in Versions /\ v > store.version
    BY <1>p, <2>1, <2>4
  <2>5. b \in Builds /\ v \in 0..V
    BY <1>t, <2>2, <2>p DEF ReleaseRow, Versions
  <2>6. CASE ~pass[p].sums
    <3>1. k = Idle /\ store' \in Artifacts /\ store'.version = v
      <4>1. Keep(v, b, FALSE) /\ k = Idle
        BY <2>3, <2>4, <2>6
      <4>2. store' \in Artifacts /\ store'.version = v
        BY <2>5, <4>1, Keeps
      <4> QED BY <4>1, <4>2
    <3>2. Ready(k) /\ k \in PassRow
      BY <3>1, Idles DEF Ready
    <3>3. ASSUME NEW w \in Versions, Best(w), store'.version < w PROVE store.version < w /\ ~Brings(pass[p], w)
      <4>1. store.version < w
        BY <1>v, <2>p, <3>1, <3>3
      <4>2. v # w
        BY <1>v, <2>p, <3>1, <3>3
      <4> QED BY <2>1, <2>4, <4>1, <4>2 DEF Brings
    <3>4. quiet' = quiet /\ due' = due /\ due' \in 0..PollEvery /\ faults' \in 0..MaxFaults /\ quiet' \in {quiet, 0} /\ UNCHANGED <<allowPre, repo, copy, edits>>
      BY <1>t, <2>4
    <3>5. \A w \in Versions : Best(w) /\ store'.version < w =>
            store.version < w /\ (Brings(pass[p], w) \/ (due = 0 /\ quiet <= PollEvery /\ due' # due) => Brings(k, w))
      BY <3>3, <3>4
    <3>6. ReleaseInv'
      BY <2>4, <2>p, <3>1, <3>2, <3>4, <3>5, Passing
    <3> QED BY <2>p, <3>1, <3>6 DEF Ratchet
  <2>7. CASE pass[p].sums
    <3>1. k = [at |-> "sums", version |-> v, sums |-> TRUE, build |-> b, age |-> 0] /\ store' = store /\ store' \in Artifacts
      BY <1>t, <2>3, <2>4, <2>7
    <3>2. Ready(k) /\ k \in PassRow
      BY <2>p, <2>5, <3>1 DEF Ready, PassRow
    <3>3. ASSUME NEW w \in Versions, Best(w), Brings(pass[p], w) PROVE Brings(k, w)
      <4>1. v = w /\ quiet <= PollEvery + Timeout + pass[p].age /\ repo[w].sums # Nothing
        BY <2>1, <2>4, <2>7, <3>3 DEF Brings
      <4>2. quiet <= PollEvery + 2 * Timeout + 0
        BY <1>t, <2>p, <4>1, Catches
      <4>3. b = repo[w].build /\ repo[w].sums = repo[w].build
        BY <2>2, <3>3, <4>1 DEF Best, InPlace
      <4> QED BY <3>1, <4>1, <4>2, <4>3 DEF Brings
    <3>4. quiet' = quiet /\ due' = due /\ due' \in 0..PollEvery /\ faults' \in 0..MaxFaults /\ quiet' \in {quiet, 0} /\ UNCHANGED <<allowPre, repo, copy, edits>>
      BY <1>t, <2>4
    <3>5. \A w \in Versions : Best(w) /\ store'.version < w =>
            store.version < w /\ (Brings(pass[p], w) \/ (due = 0 /\ quiet <= PollEvery /\ due' # due) => Brings(k, w))
      BY <3>1, <3>3, <3>4
    <3>6. due' + Elapsed(k) >= PollEvery
      <4>1. Elapsed(pass[p]) = pass[p].age + Timeout /\ Elapsed(k) = 0 + 2 * Timeout
        BY <2>4, <3>1 DEF Elapsed
      <4> QED BY <2>p, <3>4, <4>1
    <3>7. ReleaseInv'
      BY <2>4, <2>p, <3>1, <3>2, <3>4, <3>5, <3>6, Passing
    <3> QED BY <3>1, <3>7 DEF Ratchet
  <2> QED BY <2>6, <2>7
<1>5. ASSUME NEW p \in Passes, Checked(p) PROVE ReleaseInv' /\ Ratchet
  <2>1. PICK v : v = pass[p].version
    OBVIOUS
  <2>2. PICK b : b = pass[p].build
    OBVIOUS
  <2>4. /\ pass[p].at = "sums" /\ Move(p, Idle) /\ repo[v].published
        /\ IF repo[v].sums = b THEN Keep(v, b, TRUE) ELSE store' = store
        /\ UNCHANGED <<allowPre, repo, due, copy, edits, faults, quiet>>
    BY <1>5, <2>1, <2>2 DEF Checked
  <2>p. Lone(p) /\ v \in Versions /\ v > store.version /\ b \in Builds /\ v \in 0..V
    BY <1>p, <1>t, <2>1, <2>2, <2>4 DEF PassRow, Versions
  <2>5. store' \in Artifacts /\ (store' = store \/ store'.version = v)
    <3>1. CASE repo[v].sums = b
      BY <2>4, <2>p, <3>1, Keeps
    <3>2. CASE repo[v].sums # b
      BY <1>t, <2>4, <3>2
    <3> QED BY <3>1, <3>2
  <2>6. ASSUME NEW w \in Versions, Best(w), store'.version < w PROVE store.version < w /\ ~Brings(pass[p], w)
    <3>1. store.version < w
      BY <1>v, <2>p, <2>5, <2>6
    <3>2. ASSUME Brings(pass[p], w) PROVE FALSE
      <4>1. v = w /\ b = repo[w].build /\ repo[w].sums = repo[w].build
        BY <2>1, <2>2, <2>4, <3>2 DEF Brings
      <4>2. store'.version = w
        BY <2>4, <4>1 DEF Keep
      <4> QED BY <1>v, <2>6, <4>2
    <3> QED BY <3>1, <3>2
  <2>7. quiet' = quiet /\ due' = due /\ due' \in 0..PollEvery /\ faults' \in 0..MaxFaults /\ quiet' \in {quiet, 0} /\ UNCHANGED <<allowPre, repo, copy, edits>>
    BY <1>t, <2>4
  <2>8. \A w \in Versions : Best(w) /\ store'.version < w =>
          store.version < w /\ (Brings(pass[p], w) \/ (due = 0 /\ quiet <= PollEvery /\ due' # due) => Brings(Idle, w))
    BY <2>6, <2>7
  <2>9. Ready(Idle) /\ Idle \in PassRow
    BY Idles DEF Ready
  <2>10. ReleaseInv'
    BY <2>4, <2>p, <2>5, <2>7, <2>8, <2>9, Passing
  <2> QED BY <2>p, <2>5, <2>10 DEF Ratchet
<1>6. ASSUME NEW p \in Passes, Fails(p) PROVE ReleaseInv' /\ Ratchet
  <2>1. PICK v : v = pass[p].version
    OBVIOUS
  <2>2. PICK b : b = pass[p].build
    OBVIOUS
  <2>3. /\ pass[p].at # "off" /\ Move(p, Idle) /\ UNCHANGED <<allowPre, repo, due, copy, edits>>
        /\ IF pass[p].at = "sums" THEN Keep(v, b, FALSE) ELSE store' = store
        /\ Fault \/ (pass[p].at # "list" /\ ~repo[v].published /\ faults' = faults /\ quiet' = quiet)
    BY <1>6, <2>1, <2>2 DEF Fails, GivesUp
  <2>p. Lone(p) /\ (pass[p].at = "sums" => v \in Versions /\ v > store.version /\ v \in 0..V) /\ b \in Builds
    BY <1>p, <1>t, <2>1, <2>2, <2>3 DEF PassRow, Versions
  <2>5. store' \in Artifacts /\ (store' = store \/ (store'.version = v /\ v \in Versions /\ v > store.version))
    <3>1. CASE pass[p].at = "sums"
      BY <2>3, <2>p, <3>1, Keeps
    <3>2. CASE pass[p].at # "sums"
      BY <1>t, <2>3, <3>2
    <3> QED BY <3>1, <3>2
  <2>6. ASSUME NEW w \in Versions, Best(w), store'.version < w, quiet' # 0 PROVE store.version < w /\ ~Brings(pass[p], w)
    <3>1. store.version < w
      BY <1>v, <2>p, <2>5, <2>6
    <3>2. pass[p].at # "list" /\ ~repo[v].published
      BY <1>f, <2>3, <2>6
    <3>3. repo[w].published
      BY <2>6 DEF Best, Eligible
    <3> QED BY <2>1, <3>1, <3>2, <3>3 DEF Brings
  <2>7. due' = due /\ due' \in 0..PollEvery /\ faults' \in 0..MaxFaults /\ quiet' \in {quiet, 0} /\ UNCHANGED <<allowPre, repo, copy, edits>>
    BY <1>t, <1>f, <2>3
  <2>8. quiet' = 0 \/ \A w \in Versions : Best(w) /\ store'.version < w =>
          store.version < w /\ (Brings(pass[p], w) \/ (due = 0 /\ quiet <= PollEvery /\ due' # due) => Brings(Idle, w))
    BY <2>6, <2>7
  <2>9. Ready(Idle) /\ Idle \in PassRow
    BY Idles DEF Ready
  <2>10. ReleaseInv'
    BY <2>3, <2>p, <2>5, <2>7, <2>8, <2>9, Passing
  <2> QED BY <2>5, <2>10 DEF Ratchet
<1>7. CASE TimePasses
  <2>1. PICK q : q = Min({quiet + 1, Catchup})
    OBVIOUS
  <2>2. /\ due > 0 /\ due' = due - 1 /\ (\A p \in Passes : pass[p].age < Timeout) /\ quiet' = q
        /\ pass' = [p \in Passes |-> IF pass[p] = Idle THEN Idle ELSE [pass[p] EXCEPT !.age = @ + 1]]
        /\ UNCHANGED <<allowPre, repo, store, copy, edits, faults>>
    BY <1>7, <2>1 DEF TimePasses
  <2>3. q \in 0..Catchup /\ q <= quiet + 1
    <3>1. quiet + 1 \in Nat /\ Catchup \in Nat
      BY <1>t, Catches
    <3>2. q = IF quiet + 1 <= Catchup THEN quiet + 1 ELSE Catchup
      BY <2>1, <3>1 DEF Min
    <3> QED BY <3>1, <3>2
  <2>4. ASSUME NEW p \in Passes
        PROVE  /\ pass'[p] \in PassRow /\ (pass[p] = Idle => pass'[p] = Idle)
               /\ pass[p] # Idle => /\ pass'[p].at = pass[p].at /\ pass'[p].version = pass[p].version /\ pass'[p].build = pass[p].build
                                    /\ pass'[p].sums = pass[p].sums
                                    /\ pass'[p].age = pass[p].age + 1 /\ pass[p].age \in 0..Timeout /\ pass[p].at # "off"
    <3>1. CASE pass[p] = Idle
      BY <2>2, <3>1, Idles
    <3>2. CASE pass[p] # Idle
      <4>1. PICK k \in PassRow : k = pass[p]
        BY <1>t
      <4>2. k.age \in 0..Timeout /\ k.age < Timeout /\ k.age + 1 \in 0..Timeout
        BY <2>2, <4>1 DEF PassRow
      <4>3. pass'[p] = [k EXCEPT !.age = k.age + 1]
        BY <2>2, <3>2, <4>1
      <4>4. k.at # "off"
        BY <1>t, <3>2, <4>1 DEF Sorted, Ready
      <4> QED BY <3>2, <4>1, <4>2, <4>3, <4>4 DEF PassRow
    <3> QED BY <3>1, <3>2
  <2>5. ReleaseTyped'
    <3>1. due' \in 0..PollEvery
      BY <1>t, <2>2
    <3> QED BY <1>t, <2>2, <2>3, <2>4, <3>1 DEF ReleaseTyped
  <2>6. Sorted'
    <3>1. ASSUME NEW p \in Passes PROVE Ready(pass[p])'
      BY <1>t, <2>2, <2>4, Idles DEF Sorted, Ready
    <3> QED BY <3>1 DEF Sorted
  <2>7. OnePass'
    <3>1. ASSUME NEW p \in Passes, pass'[p] # Idle PROVE Lone(p)' /\ due' + Elapsed(pass'[p]) >= PollEvery
      <4>1. pass[p] # Idle /\ Lone(p) /\ due + Elapsed(pass[p]) >= PollEvery /\ pass[p].age \in 0..Timeout
        BY <1>t, <2>4, <3>1 DEF OnePass
      <4>2. Lone(p)'
        BY <2>4, <4>1 DEF Lone
      <4>3. Elapsed(pass'[p]) = Elapsed(pass[p]) + 1 /\ Elapsed(pass[p]) \in Nat
        BY <2>4, <4>1 DEF Elapsed
      <4> QED BY <1>t, <2>2, <4>1, <4>2, <4>3
    <3> QED BY <3>1 DEF OnePass, Elapsed
  <2>8. Underway'
    <3>1. ASSUME NEW v \in Versions, Best(v)', store'.version < v
          PROVE  quiet' + due' <= PollEvery \/ \E p \in Passes : Brings(pass[p], v)'
      <4>1. Best(v) /\ store.version < v
        BY <2>2, <3>1, BestStays
      <4>2. CASE quiet + due <= PollEvery
        BY <1>t, <2>2, <2>3, <4>2, Catches
      <4>3. ASSUME NEW p \in Passes, Brings(pass[p], v) PROVE Brings(pass[p], v)'
        <5>1. pass[p] # Idle
          BY <4>3, Idles DEF Brings
        <5>2. /\ pass'[p].at = pass[p].at /\ pass'[p].version = pass[p].version /\ pass'[p].build = pass[p].build
              /\ pass'[p].age = pass[p].age + 1 /\ pass[p].age \in Nat /\ quiet' <= quiet + 1 /\ quiet' \in Nat /\ quiet \in Nat
          <6>1. quiet' <= quiet + 1 /\ quiet' \in Nat /\ quiet \in Nat
            BY <1>t, <2>2, <2>3, Catches
          <6>2. pass[p].age \in Nat
            BY <2>4, <5>1
          <6> QED BY <2>4, <5>1, <6>1, <6>2
        <5>3. \A n \in Nat : quiet <= n + pass[p].age => quiet' <= n + pass'[p].age
          BY <5>2
        <5>4. PollEvery \in Nat /\ PollEvery + Timeout \in Nat /\ PollEvery + 2 * Timeout \in Nat
          BY Catches
        <5> QED BY <2>2, <4>3, <5>2, <5>3, <5>4 DEF Brings
      <4> QED BY <1>t, <4>1, <4>2, <4>3 DEF Underway
    <3> QED BY <3>1 DEF Underway
  <2> QED BY <2>2, <2>5, <2>6, <2>7, <2>8 DEF ReleaseInv, Ratchet
<1>8. CASE Reboot
  <2>1. Fault /\ store' = NoArtifact /\ due' = 0 /\ pass' = [p \in Passes |-> Idle] /\ UNCHANGED <<allowPre, repo, copy, edits>>
    BY <1>8 DEF Reboot
  <2>2. 0 \in 0..PollEvery /\ 0 \in 0..Catchup
    BY Catches
  <2>3. ReleaseTyped'
    BY <1>f, <1>t, <2>1, <2>2, Idles DEF ReleaseTyped
  <2>4. Sorted' /\ OnePass'
    BY <2>1, Idles DEF Sorted, Ready, OnePass
  <2>5. Reboots
    BY <1>f, <2>1 DEF Reboots
  <2> QED BY <1>f, <2>1, <2>3, <2>4, <2>5, Anew DEF ReleaseInv, Ratchet
<1>9. CASE Revalidate
  <2>1. copy' = [version |-> store.version, build |-> store.build] /\ UNCHANGED <<allowPre, repo, store, pass, due, edits, faults, quiet>>
    BY <1>9 DEF Revalidate
  <2>2. copy' \in [version : 0..V, build : Builds]
    BY <1>t, <2>1 DEF Artifacts
  <2>3. ReleaseTyped'
    BY <1>t, <2>1, <2>2 DEF ReleaseTyped
  <2>4. Sorted' /\ OnePass' /\ Underway'
    BY <1>t, <2>1 DEF Sorted, Ready, OnePass, Lone, Elapsed, Underway, Best, Eligible, InPlace, Brings
  <2> QED BY <2>1, <2>3, <2>4 DEF ReleaseInv, Ratchet
<1>10. CASE UNCHANGED releaseVars
  BY <1>t, <1>10 DEF releaseVars, ReleaseInv, ReleaseTyped, Sorted, Ready, OnePass, Lone, Elapsed, Underway, Best, Eligible, InPlace, Brings, Ratchet
<1> QED BY <1>1, <1>2, <1>3, <1>4, <1>5, <1>6, <1>7, <1>8, <1>9, <1>10 DEF ReleaseNext

LEMMA Mirrored == ReleaseInv => Mirrors /\ ReleaseTypeOK
<1> SUFFICES ASSUME ReleaseInv, quiet = Catchup, NEW v \in Eligible, InPlace(v), \A w \in Eligible : w <= v, ~(store.version >= v) PROVE FALSE
  BY ReleaseTypes DEF Mirrors, ReleaseInv
<1> USE ReleaseAssumption
<1>1. Best(v) /\ v \in Versions
  BY DEF Best, Eligible
<1>2. store.version < v
  BY <1>1 DEF ReleaseInv, ReleaseTyped, Artifacts, Versions
<1>3. due \in 0..PollEvery /\ \A p \in Passes : pass[p].age \in 0..Timeout
  BY DEF ReleaseInv, ReleaseTyped, PassRow
<1>4. quiet + due > PollEvery
  BY <1>3, Catches
<1>5. PICK p \in Passes : Brings(pass[p], v)
  BY <1>1, <1>2, <1>3, <1>4, Catches DEF ReleaseInv, Underway
<1>6. quiet <= PollEvery + 2 * Timeout + pass[p].age
  BY <1>3, <1>5, Catches DEF Brings
<1> QED BY <1>3, <1>6, Catches

(***************************************************************************)
(* Each of them within the whole.                                          *)
(***************************************************************************)
LEMMA SocketSteps == [Next]_vars => SocketNext \/ UNCHANGED socketVars
BY DEF Next, Rest, vars, CommandsNext, OverSocket, SlashLink, TextLink, UnlinkCmd, HubTakes, Replies, Gets

LEMMA ReleaseSteps == [Next]_vars => ReleaseNext \/ UNCHANGED releaseVars
BY DEF Next, Rest, vars

LEMMA PageSteps == [Next]_vars => LinkPageNext \/ UNCHANGED linkPageVars
BY DEF Next, Rest, vars

(* Within one ping, one wait for a pong and the longest backoff (or one idle  *)
(* limit) of the last trouble the bot sends to a registered socket, and no     *)
(* dead one is registered: for any number of loops and of sockets.            *)
THEOREM BotsRecover == Spec => []Recovers
<1>1. Init => LoopsInv
  BY LoopsStart DEF Init, CommandsInit
<1>2. [Next]_vars => SocketNext \/ UNCHANGED socketVars
  BY SocketSteps
<1> QED BY <1>1, <1>2, LoopsKept, Recovered, PTL DEF Spec

(* Before the n-th connection of a loop since a stable one the first n - 1    *)
(* backoffs have passed, however often the backend accepts and drops, and for  *)
(* any number of loops, sockets and commands.                                 *)
THEOREM NothingStormed == Spec => []BackoffKept
<1>1. Init => LoopsInv /\ BackoffInv /\ AsksTyped
  BY LoopsStart, StormStart, AsksStart DEF Init, CommandsInit
<1>2. [Next]_vars => (SocketNext \/ UNCHANGED socketVars) /\ (CommandsNext \/ UNCHANGED commandVars)
  <2>1. [Next]_vars => CommandsNext \/ UNCHANGED commandVars
    BY DEF Next, Rest, vars, commandVars
  <2> QED BY <2>1, SocketSteps
<1>3. LoopsInv /\ BackoffInv /\ AsksTyped /\ [Next]_vars => (LoopsInv /\ BackoffInv /\ AsksTyped)'
  <2>1. LoopsInv => LoopsTyped
    BY DEF LoopsInv
  <2> QED BY <1>2, <2>1, LoopsKept, StormKept, AsksKept
<1>4. LoopsInv /\ BackoffInv /\ AsksTyped => BackoffKept
  BY NoStorms DEF BackoffKept, CommandsTypeOK, AsksTyped, AskRow
<1> QED BY <1>1, <1>3, <1>4, PTL DEF Spec

(* A poll interval and a pass after the last trouble the highest release is   *)
(* served, as long as a pass has ended when the next is due.                  *)
THEOREM LatestMirrored == ASSUME 3 * Timeout < PollEvery PROVE Spec => []MirrorsLatest
<1>1. Init => ReleaseInv /\ PageInv
  BY ReleaseStart, PageStart DEF Init
<1>2. ReleaseInv /\ PageInv /\ [Next]_vars => (ReleaseInv /\ PageInv)'
  BY ReleaseSteps, PageSteps, ReleaseKept, PageKept
<1>3. ReleaseInv /\ PageInv => MirrorsLatest
  BY Mirrored DEF MirrorsLatest, PageInv
<1> QED BY <1>1, <1>2, <1>3, PTL DEF Spec

(* Nothing healthy is ended: the sweep closes a live connection only in       *)
(* trouble, the server never goes back to a lower release while passes do not *)
(* overlap, and a command is dropped only once a link has changed.            *)
THEOREM NothingEndsEarly == ASSUME 3 * Timeout < PollEvery PROVE Spec => NoFalseEnd
<1>1. Init => SockInv /\ ReleaseInv /\ PageInv
  BY LoopsStart, ReleaseStart, PageStart DEF Init, CommandsInit, LoopsInv
<1>2. SockInv /\ ReleaseInv /\ PageInv /\ [Next]_vars => (SockInv /\ ReleaseInv /\ PageInv)' /\ HealthyKept /\ Ratchet /\ DropMeansChange
  BY SocketSteps, ReleaseSteps, PageSteps, SocksKept, ReleaseKept, PageKept, DropHasCause
<1>3. SockInv /\ ReleaseInv /\ PageInv /\ [Next]_vars => [HealthyKept /\ Ratchet /\ DropMeansChange]_vars
  BY <1>2
<1> QED BY <1>1, <1>2, <1>3, PTL DEF Spec, NoFalseEnd
=============================================================================
