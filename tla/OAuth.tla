-------------------------------- MODULE OAuth --------------------------------
(***************************************************************************)
(* Signing in by a provider's redirects (oauth-express, with the providers *)
(* of packages/oauth): nothing is kept of a sign-in but a signed state that *)
(* travels with it, so the callback may come late, twice, from the back    *)
(* button, or after another attempt; the code it carries is exchanged once. *)
(***************************************************************************)
EXTENDS Naturals, FiniteSets

CONSTANTS
    Ways,                  \* the providers: "google" and "apple"
    StateTTL,              \* STATE_TTL_SEC
    MaxNow, MaxStarts, MaxReplays \* bound the clock, the attempts and the repeated callbacks

VARIABLES
    clock,
    starts,    \* how many attempts there have been
    consent,   \* the attempts at a consent screen, as [n, way, state]
    callbacks, \* the requests on their way to the callback
    handling,  \* the callbacks whose code is being exchanged, or whose account is looked up
    replays,
    consented, \* the providers the user has authorized the app at
    spent,     \* the codes that were exchanged
    name,      \* the name of each provider's account: "none", "fallback" or "given"
    answers    \* what each callback was answered, as [c, what, since] (history)

oauthVars == <<clock, starts, consent, callbacks, handling, replays, consented, spent, name, answers>>
-----------------------------------------------------------------------------
(* signState: claims of its type, and an expiry *)
signState == [typ |-> "state", exp |-> clock + StateTTL]
(* verifyToken and verifyState *)
verifyState(token) == token.typ = "state" /\ ~(token.exp < clock)

Start(way) ==
    /\ starts < MaxStarts /\ starts' = starts + 1
    /\ consent' = consent \cup {[n |-> starts + 1, way |-> way, state |-> signState]}
    /\ UNCHANGED <<clock, callbacks, handling, replays, consented, spent, name, answers>>

(* the provider sends the browser back: with a code of its own for each        *)
(* consent, or an error.  Apple tells the name with the first one only.        *)
Consents(c, denied) ==
    /\ c \in consent /\ consent' = consent \ {c}
    /\ callbacks' = callbacks \cup
         {[n |-> c.n, way |-> c.way, state |-> c.state, code |-> IF denied THEN 0 ELSE c.n,
           user |-> ~denied /\ (c.way = "google" \/ c.way \notin consented), again |-> 0]}
    /\ consented' = IF denied THEN consented ELSE consented \cup {c.way}
    /\ UNCHANGED <<clock, starts, handling, replays, spent, name, answers>>

(* the browser repeats a callback, before or after its answer: a reload, or *)
(* the back button                                                          *)
Repeats(c) ==
    /\ replays < MaxReplays /\ replays' = replays + 1
    /\ callbacks' = callbacks \cup {[c EXCEPT !.again = replays']}
    /\ UNCHANGED <<clock, starts, consent, handling, consented, spent, name, answers>>

Answer(c, what, since) == answers' = answers \cup {[c |-> c, what |-> what, since |-> since]}

(* handleCallback, before its await: denied, or a state that is not good       *)
Refuse(c) ==
    /\ c \in callbacks /\ callbacks' = callbacks \ {c}
    /\ c.code = 0 \/ ~verifyState(c.state)
    /\ Answer(c, IF c.code = 0 THEN "denied" ELSE "invalid_state", clock)
    /\ UNCHANGED <<clock, starts, consent, handling, replays, consented, spent, name>>

Verify(c) ==
    /\ c \in callbacks /\ callbacks' = callbacks \ {c}
    /\ c.code # 0 /\ verifyState(c.state)
    /\ handling' = handling \cup {[c |-> c, step |-> "exchange", known |-> "none", since |-> clock]}
    /\ UNCHANGED <<clock, starts, consent, replays, consented, spent, name, answers>>

(* exchangeCode: the provider takes a code once.  Google's token is verified   *)
(* against its keys, Apple's is decoded as it is.                             *)
Replies == {"lost", "unverifiable", "token"}
Taken(way, reply) == reply = "token" \/ (reply = "unverifiable" /\ way = "apple")

Exchange(h, reply) ==
    /\ h \in handling /\ h.step = "exchange"
    /\ spent' = spent \cup {h.c.code}
    /\ IF h.c.code \notin spent /\ Taken(h.c.way, reply)
       THEN /\ handling' = (handling \ {h}) \cup {[h EXCEPT !.step = "write", !.known = name[h.c.way]]}
            /\ UNCHANGED answers
       ELSE handling' = handling \ {h} /\ Answer(h.c, "exchange_failed", h.since)
    /\ UNCHANGED <<clock, starts, consent, callbacks, replays, consented, name>>

(* upsertAccount after its lookup: the name of the profile, or the one that    *)
(* was cached, or a fallback                                                   *)
NameGiven(h) == IF h.c.user THEN "given" ELSE IF h.known = "given" THEN "given" ELSE "fallback"

onLogin(h) ==
    /\ h \in handling /\ h.step = "write" /\ handling' = handling \ {h}
    /\ IF h.known = "none" /\ name[h.c.way] # "none"
       THEN Answer(h.c, "error", h.since) /\ UNCHANGED name
       ELSE Answer(h.c, "signed_in", h.since) /\ name' = [name EXCEPT ![h.c.way] = NameGiven(h)]
    /\ UNCHANGED <<clock, starts, consent, callbacks, replays, consented, spent>>

OAuthTick ==
    /\ clock < MaxNow /\ clock' = clock + 1
    /\ UNCHANGED <<starts, consent, callbacks, handling, replays, consented, spent, name, answers>>

OAuthInit ==
    /\ clock = 0 /\ starts = 0 /\ consent = {} /\ callbacks = {} /\ handling = {} /\ replays = 0
    /\ consented = {} /\ spent = {} /\ name = [w \in Ways |-> "none"] /\ answers = {}

OAuthNext ==
    \/ \E way \in Ways : Start(way)
    \/ \E c \in consent, denied \in BOOLEAN : Consents(c, denied)
    \/ \E c \in callbacks : Refuse(c) \/ Verify(c)
    \/ \E c \in callbacks \cup {h.c : h \in handling} \cup {a.c : a \in answers} : Repeats(c)
    \/ \E h \in handling : onLogin(h) \/ \E reply \in Replies : Exchange(h, reply)
    \/ OAuthTick
-----------------------------------------------------------------------------
(* A sign-in that was begun signs in at most once, whatever the browser       *)
(* repeats, and only if its state had not expired when the callback came; and *)
(* an account is called by a given name only if a sign-in that told it got    *)
(* through, which the first one of Apple may not.                              *)
OncePerCode ==
    LET through == {a \in answers : a.what = "signed_in"} IN
    /\ \A a, b \in through : a.c.n = b.c.n => a = b
    /\ \A a \in through : a.since <= a.c.state.exp
    /\ \A w \in Ways :
         /\ name[w] = "given" => \E a \in through : a.c.way = w /\ a.c.user
         /\ name[w] # "none" <=> \E a \in through : a.c.way = w
=============================================================================
