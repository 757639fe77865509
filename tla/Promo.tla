------------------------------- MODULE Promo -------------------------------
(***************************************************************************)
(* PRO by promo code (ADR-0011, ADR-0020): the homepage code that is made  *)
(* at boot and by a timer, its redemption in a transaction that holds the  *)
(* account's row lock, and the sweep that lapses windows that are over.    *)
(* Time goes in ticks of about two weeks; a request takes less than one.   *)
(***************************************************************************)
EXTENDS SignIn

CONSTANTS
    Duration,   \* DURATION_DAYS
    Validity,   \* VALIDITY_DAYS
    TierCap,    \* TIER_CAP_DAYS
    GenEvery,   \* PROMO_GEN_MS
    MaxCodes,   \* bounds the codes
    MaxNow      \* bounds the clock

ASSUME PromoAssumption ==
    /\ Duration \in Nat \ {0} /\ Validity \in Nat \ {0} /\ TierCap \in Nat \ {0} /\ GenEvery \in Nat \ {0}
    /\ MaxCodes \in Nat /\ MaxNow \in Nat

VARIABLES
    now,
    codes,    \* PromoCode, oldest first: the expiry of each
    redeemed, \* PromoRedemption: the pairs of a code and an account
    tier,     \* what the Account table says of each account's tier
    redeeming, \* the transaction of each browser's request to redeem
    timer,    \* when the process makes the next code
    booting   \* whether ensureCurrentCode is still to run

promoVars == <<now, codes, redeemed, tier, redeeming, timer, booting>>

NoTx == [code |-> 0, base |-> 0]
PromoTypeOK ==
    /\ now \in 0..MaxNow
    /\ codes \in Seq(0..(MaxNow + Validity)) /\ Len(codes) <= MaxCodes
    /\ redeemed \subseteq (1..MaxCodes) \X Identities
    /\ tier \in [Identities -> [tier : {"free", "pro"}, expires : Nat]]
    /\ redeeming \in [Browsers -> [code : 0..MaxCodes, base : Nat]]
    /\ timer \in 0..(MaxNow + GenEvery) /\ booting \in BOOLEAN

PromoInit ==
    /\ now = 0 /\ codes = <<>> /\ redeemed = {}
    /\ tier = [i \in Identities |-> [tier |-> "free", expires |-> 0]]
    /\ redeeming = [b \in Browsers |-> NoTx]
    /\ timer = GenEvery /\ booting = TRUE
-----------------------------------------------------------------------------
(* currentCode: the newest that has not expired, 0 for null *)
CurrentCode ==
    LET live == {c \in 1..Len(codes) : codes[c] > now} IN
    IF live = {} THEN 0 ELSE CHOOSE c \in live : \A d \in live : d <= c

GenerateAutoCode == codes' = Append(codes, now + Validity)

(* ensureCurrentCode, called on boot *)
EnsureCurrentCode ==
    /\ booting /\ booting' = FALSE
    /\ IF CurrentCode = 0 THEN Len(codes) < MaxCodes /\ GenerateAutoCode ELSE UNCHANGED codes
    /\ UNCHANGED <<signInVars, now, redeemed, tier, redeeming, timer>>

(* the promo interval *)
GenerateCode ==
    /\ timer = now /\ timer' = now + GenEvery
    /\ Len(codes) < MaxCodes /\ GenerateAutoCode
    /\ UNCHANGED <<signInVars, now, redeemed, tier, redeeming, booting>>

(* bound: a tick passes only between requests, and after what was due *)
Tick ==
    /\ now < MaxNow /\ timer > now /\ ~booting /\ \A b \in Browsers : redeeming[b] = NoTx
    /\ Event
    /\ now' = now + 1
    /\ UNCHANGED <<signInRest, request, codes, redeemed, tier, redeeming, timer, booting>>

(* the process stops, its transactions roll back, and it starts again *)
Restart ==
    /\ Event
    /\ redeeming' = [b \in Browsers |-> NoTx]
    /\ request' = [b \in Browsers |-> NoRequest]
    /\ bucket' = [b \in Browsers |-> [tokens |-> Capacity, last |-> minute]]
    /\ guesses' = [b \in Browsers |-> <<>>]
    /\ flow' = [b \in Browsers |-> IF flow[b].step = "resolved" THEN NoFlow ELSE flow[b]]
    /\ timer' = now + GenEvery /\ booting' = TRUE
    /\ UNCHANGED <<offer, account, cookie, page, ended, proved, minute, now, codes, redeemed, tier>>
-----------------------------------------------------------------------------
(* the row of the account, which redeem locks first *)
(* mutated form: redemptions of an account are not serialized *)
NeverLocked(a) == FALSE
Locked(a) == \E b \in Browsers : redeeming[b] # NoTx /\ request[b].account = a

Answer(b) == request' = [request EXCEPT ![b] = NoRequest]

(* 400 or 409, without the lock or rolled back *)
Refuse(b, c) ==
    /\ request[b].op = "redeem" /\ redeeming[b] = NoTx /\ ~Locked(request[b].account)
    /\ c \in 1..Len(codes) => codes[c] <= now \/ <<c, request[b].account>> \in redeemed
    /\ Answer(b)
    /\ UNCHANGED <<promoVars, signInRest, events>>

(* the lock, the checks, and the account row the window is counted from *)
Begin(b, c) ==
    LET a == request[b].account IN
    /\ request[b].op = "redeem" /\ redeeming[b] = NoTx /\ ~Locked(a)
    /\ c \in 1..Len(codes) /\ codes[c] > now /\ <<c, a>> \notin redeemed
    /\ redeeming' = [redeeming EXCEPT ![b] =
         [code |-> c, base |-> IF tier[a].expires > now THEN tier[a].expires ELSE now]]
    /\ UNCHANGED <<signInVars, now, codes, redeemed, tier, timer, booting>>

Capped(expiry) == IF expiry > now + TierCap THEN now + TierCap ELSE expiry

(* The redemption's row and the new window, committed.  The key on the code *)
(* and the account refuses a second row.                                    *)
Commit(b) ==
    LET a == request[b].account
        c == redeeming[b].code
        fresh == <<c, a>> \notin redeemed
    IN
    /\ redeeming[b] # NoTx
    /\ redeemed' = redeemed \cup {<<c, a>>}
    /\ tier' = IF fresh THEN [tier EXCEPT ![a] = [tier |-> "pro", expires |-> Capped(redeeming[b].base + Duration)]]
               ELSE tier
    /\ redeeming' = [redeeming EXCEPT ![b] = NoTx]
    /\ Answer(b)
    /\ UNCHANGED <<signInRest, events>>
    /\ UNCHANGED <<now, codes, timer, booting>>

(* lapseExpiredTiers, which waits for the rows that are locked *)
Over(a) == tier[a].expires <= now
Lapse ==
    LET lapsed == {a \in Identities : tier[a].tier = "pro" /\ Over(a)} IN
    /\ lapsed # {} /\ \A a \in Identities : ~Locked(a)
    /\ tier' = [a \in Identities |-> IF a \in lapsed THEN [tier[a] EXCEPT !.tier = "free"] ELSE tier[a]]
    /\ UNCHANGED <<signInVars, now, codes, redeemed, redeeming, timer, booting>>

PromoNext ==
    \/ EnsureCurrentCode \/ GenerateCode \/ Tick \/ Lapse
    \/ \E b \in Browsers :
         \/ Pass(b, "redeem") /\ UNCHANGED promoVars
         \/ \E c \in 0..MaxCodes : Refuse(b, c) \/ Begin(b, c)
         \/ Commit(b)
-----------------------------------------------------------------------------
(* As long as the window that was paid for lasts, the stored tier says so,   *)
(* which is what notifications and attentions read, however the sweep falls  *)
(* between the steps of a redemption.                                        *)
ProKept == \A a \in Identities : tier[a].expires > now => tier[a].tier = "pro"

(* No account ever has more than the cap ahead of it.                        *)
TierCapped == \A a \in Identities : tier[a].expires <= now + TierCap

(* Every redemption that is recorded has extended the window, as it is when  *)
(* the redemption commits, by the code's full duration or up to the cap:     *)
(* two redemptions of an account at once do not swallow each other.          *)
FullExtension ==
    \A a \in Identities : \A c \in 1..MaxCodes :
        <<c, a>> \in redeemed' \ redeemed =>
            \/ tier'[a].expires = now + TierCap
            \/ tier'[a].expires >= tier[a].expires + Duration /\ tier'[a].expires >= now + Duration
=============================================================================
