---------------------------- MODULE Integrations ----------------------------
(***************************************************************************)
(* Linking chat users to accounts (ADR-0007): the one-time token minted on *)
(* the integrations page, the bot hub's link requests and unlink notices,  *)
(* and the owner's unlink.                                                 *)
(***************************************************************************)
EXTENDS Promo

CONSTANTS
    Platforms,
    ChatUsers,
    PlatformOf,  \* the platform of each chat user
    Tokens       \* bounds the tokens minted

ASSUME IntegrationsAssumption ==
    /\ PlatformOf \in [ChatUsers -> Platforms]
    /\ None \notin Platforms \cup ChatUsers \cup Tokens /\ Tokens # {}

VARIABLES
    linkToken, \* LinkToken
    link,      \* ChannelLink, by the chat user
    frame,     \* the link request of each chat user, while the hub awaits the database
    bound,     \* the chat users each token was bound to (history)
    void       \* tokens that a newer one superseded before they were used (history)

linkVars == <<linkToken, link, frame, bound, void>>
allVars == <<signInVars, promoVars, linkVars>>

NoToken == [account |-> None, platform |-> None, state |-> "none"]
NoLink == [account |-> None, status |-> "none"]
NoFrame == [token |-> None, account |-> None, step |-> "no"]

IntegrationsTypeOK ==
    /\ SignInTypeOK /\ PromoTypeOK
    /\ linkToken \in [Tokens -> [account : Identities \cup {None}, platform : Platforms \cup {None},
                                 state : {"none", "open", "expired", "used", "gone"}]]
    /\ link \in [ChatUsers -> [account : Identities \cup {None}, status : {"none", "active", "stale", "revoked"}]]
    /\ frame \in [ChatUsers -> [token : Tokens \cup {None}, account : Identities \cup {None},
                                step : {"no", "found", "claimed"}]]
    /\ bound \in [Tokens -> SUBSET ChatUsers] /\ void \subseteq Tokens

IntegrationsInit ==
    /\ SignInInit /\ PromoInit
    /\ linkToken = [t \in Tokens |-> NoToken]
    /\ link = [u \in ChatUsers |-> NoLink]
    /\ frame = [u \in ChatUsers |-> NoFrame]
    /\ bound = [t \in Tokens |-> {}] /\ void = {}

-----------------------------------------------------------------------------
(* mintLinkToken, one transaction: the account's unused tokens for the      *)
(* platform go, and a fresh one is stored                                   *)
Superseded(a, p) == {t \in Tokens : linkToken[t] \in [account : {a}, platform : {p}, state : {"open", "expired"}]}

MintLink(b, p) ==
    LET a == request[b].account
        t == CHOOSE u \in Tokens : linkToken[u] = NoToken
    IN
    /\ request[b].op = "mint"
    /\ \E u \in Tokens : linkToken[u] = NoToken
    /\ linkToken' = [o \in Tokens |->
         IF o = t THEN [account |-> a, platform |-> p, state |-> "open"]
         ELSE IF o \in Superseded(a, p) THEN [linkToken[o] EXCEPT !.state = "gone"] ELSE linkToken[o]]
    /\ void' = void \cup Superseded(a, p)
    /\ Answer(b)
    /\ UNCHANGED <<promoVars, signInRest, events>>
    /\ UNCHANGED <<link, frame, bound>>

(* LINK_TTL_MS is over *)
LinkTokenExpires(t) ==
    /\ linkToken[t].state = "open" /\ Event
    /\ linkToken' = [linkToken EXCEPT ![t].state = "expired"]
    /\ UNCHANGED <<signInRest, request, promoVars, link, frame, bound, void>>

PruneLinkTokens ==
    /\ \E t \in Tokens : linkToken[t].state \in {"used", "expired"}
    /\ linkToken' = [t \in Tokens |-> IF linkToken[t].state \in {"used", "expired"}
                                      THEN [linkToken[t] EXCEPT !.state = "gone"] ELSE linkToken[t]]
    /\ UNCHANGED <<signInVars, promoVars, link, frame, bound, void>>
-----------------------------------------------------------------------------
(* a bot relays /link: verifyLinkToken looks the token up; one that is not  *)
(* for this platform, used or expired is refused at once                    *)
Good(t, u) == linkToken[t].state = "open" /\ linkToken[t].platform = PlatformOf[u]

LinkRequest(u, t) ==
    /\ frame[u] = NoFrame /\ Good(t, u) /\ Event
    /\ frame' = [frame EXCEPT ![u] = [token |-> t, account |-> linkToken[t].account, step |-> "found"]]
    /\ UNCHANGED <<signInRest, request, promoVars, linkToken, link, bound, void>>

(* it claims the token: the update of a row that is there and unused *)
(* mutated form: the row is not checked again *)
ClaimsBlindly(t) == TRUE
Claims(t) == linkToken[t].state \in {"open", "expired"}
Claim(u) ==
    LET t == frame[u].token IN
    /\ frame[u].step = "found"
    /\ linkToken' = IF Claims(t) THEN [linkToken EXCEPT ![t].state = "used"] ELSE linkToken
    /\ frame' = [frame EXCEPT ![u] = IF Claims(t) THEN [@ EXCEPT !.step = "claimed"] ELSE NoFrame]
    /\ UNCHANGED <<signInVars, promoVars, link, bound, void>>

(* the upsert of the link *)
Bind(u) ==
    /\ frame[u].step = "claimed"
    /\ link' = [link EXCEPT ![u] = [account |-> frame[u].account, status |-> "active"]]
    /\ bound' = [bound EXCEPT ![frame[u].token] = @ \cup {u}]
    /\ frame' = [frame EXCEPT ![u] = NoFrame]
    /\ UNCHANGED <<signInVars, promoVars, linkToken, void>>

(* unlink_notice: the user's command, or a bot that cannot reach the user   *)
UnlinkNotice(u, status) ==
    /\ link[u].status # "none" /\ link[u].status # status /\ Event
    /\ link' = [link EXCEPT ![u].status = status]
    /\ UNCHANGED <<signInRest, request, promoVars, linkToken, frame, bound, void>>

(* DELETE of a link the page has listed, which may have moved since *)
MyLink(u, a) == link[u].status # "none" /\ link[u].account = a
Unlink(b, u) ==
    /\ request[b].op = "unlink"
    /\ link' = IF MyLink(u, request[b].account) THEN [link EXCEPT ![u].status = "revoked"] ELSE link
    /\ Answer(b)
    /\ UNCHANGED <<promoVars, signInRest, events>>
    /\ UNCHANGED <<linkToken, frame, bound, void>>

IntegrationsNext ==
    \/ \E b \in Browsers :
         \/ \E op \in {"mint", "unlink"} : Pass(b, op) /\ UNCHANGED <<promoVars, linkVars>>
         \/ \E p \in Platforms : MintLink(b, p)
         \/ \E u \in ChatUsers : Unlink(b, u)
    \/ \E t \in Tokens : LinkTokenExpires(t)
    \/ PruneLinkTokens
    \/ \E u \in ChatUsers :
         \/ \E t \in Tokens : LinkRequest(u, t)
         \/ Claim(u) \/ Bind(u)
         \/ \E status \in {"stale", "revoked"} : UnlinkNotice(u, status)

(* frames of a process that stops are lost *)
AccountsNext ==
    \/ SignInNext /\ UNCHANGED <<promoVars, linkVars>>
    \/ PromoNext /\ UNCHANGED linkVars
    \/ Restart /\ frame' = [u \in ChatUsers |-> NoFrame]
       /\ UNCHANGED <<linkToken, link, bound, void>>
    \/ IntegrationsNext
-----------------------------------------------------------------------------
(* A token binds one chat user at most, of the platform it was minted for,   *)
(* however two requests with it interleave, and none once a newer one has    *)
(* superseded it, even if its request was looked up before that.             *)
SingleUse ==
    \A t \in Tokens :
        /\ Cardinality(bound[t]) <= 1
        /\ t \in void => bound[t] = {}
        /\ \A u \in bound[t] : PlatformOf[u] = linkToken[t].platform

(* A link is revoked by the owner it belongs to by then, or by its chat user *)
(* through the bot: a page whose list is stale does not revoke a link that   *)
(* has moved to another account.                                             *)
RevokedByOwner ==
    \A u \in ChatUsers :
        (link'[u].status = "revoked" /\ link[u].status # "revoked" /\ request' # request)
        => \E b \in Browsers : request[b].op = "unlink" /\ request[b].account = link[u].account
=============================================================================
