----------------------------- MODULE PushDevice -----------------------------
(***************************************************************************)
(* Web push on one browser (EnableNotifications.tsx, push/router.ts, the   *)
(* web-push half of the dispatcher): the permission and the subscription   *)
(* belong to the browser, the button to a tab, the rows to the account     *)
(* whose cookie a request carries, and the endpoint may end at any time.   *)
(***************************************************************************)
EXTENDS Integers, FiniteSets

CONSTANTS
    Tabs,     \* the tabs of the browser
    Accounts, \* the accounts somebody signs in to there
    MaxEnds,  \* bounds the endpoints the push service hands out
    MaxRows   \* bounds the PushSubscription rows ever created


VARIABLES
    perm,     \* Notification.permission
    cookie,   \* the account of the session
    endpoint, \* of the browser's subscription, or 0
    ends,     \* the endpoints handed out
    button,   \* [Tabs -> the state of EnableNotifications]
    enabling, \* [Tabs -> where enable() and the handler of its POST are]
    rows,     \* the PushSubscription table
    made,     \* the rows ever created: ids are not used twice
    push,     \* the row a sweep is sending to, with the answer to it, or none
    owes,     \* [Tabs -> the account and endpoint it turned on] (history)
    together  \* has a handler looked while another was about to write? (history)

browser == <<perm, cookie, endpoint, ends>>
table == <<rows, made>>
pushVars == <<browser, button, enabling, table, push, owes, together>>

Permissions == {"default", "granted", "denied"}
NoRow == 0
Idle == [pc |-> "idle", account |-> "none", endpoint |-> 0, existing |-> NoRow]
NothingOwed == [account |-> "none", endpoint |-> 0]
NotSending == [id |-> NoRow, answer |-> "none"]

(* catch: whatever fails, the button is there again *)
AfterFailure(t) == "default"
-----------------------------------------------------------------------------
(* enable(), step by step *)
Press(t) ==
    /\ button[t] \in {"default", "denied"}
    /\ button' = [button EXCEPT ![t] = "busy"]
    /\ enabling' = [enabling EXCEPT ![t] = [Idle EXCEPT !.pc = "asking"]]
    /\ UNCHANGED <<browser, table, push, owes, together>>

(* requestPermission: only a permission that is not decided brings up the question *)
Decide(t, p) ==
    /\ enabling[t].pc = "asking"
    /\ perm # "default" => p = perm
    /\ perm' = p
    /\ IF p = "granted"
       THEN enabling' = [enabling EXCEPT ![t].pc = "subscribing"] /\ UNCHANGED button
       ELSE enabling' = [enabling EXCEPT ![t] = Idle] /\ button' = [button EXCEPT ![t] = p]
    /\ UNCHANGED <<cookie, endpoint, ends, table, push, owes, together>>

(* pushManager.subscribe: the subscription there is, or a new one *)
Subscribe(t) ==
    /\ enabling[t].pc = "subscribing" /\ perm = "granted"
    /\ IF endpoint # 0 THEN UNCHANGED <<endpoint, ends>>
       ELSE ends < MaxEnds /\ ends' = ends + 1 /\ endpoint' = ends + 1
    /\ enabling' = [enabling EXCEPT ![t].pc = "posting", ![t].endpoint = endpoint']
    /\ UNCHANGED <<perm, cookie, button, table, push, owes, together>>

Answer(t, b) == button' = [button EXCEPT ![t] = b] /\ enabling' = [enabling EXCEPT ![t] = Idle]

(* no key on the server, a rejection, a request that is lost *)
Fails(t) ==
    /\ enabling[t].pc \in {"subscribing", "posting"}
    /\ Answer(t, AfterFailure(t))
    /\ UNCHANGED <<browser, table, push, owes, together>>

(* POST /push/subscribe: what findFirst finds, and then the write *)
Find(t) ==
    /\ enabling[t].pc = "posting"
    /\ \E r \in {s.id : s \in {x \in rows : x.account = cookie /\ x.endpoint = enabling[t].endpoint}}
            \cup (IF \E x \in rows : x.account = cookie /\ x.endpoint = enabling[t].endpoint THEN {} ELSE {NoRow}) :
         enabling' = [enabling EXCEPT ![t].pc = "found", ![t].account = cookie, ![t].existing = r]
    /\ together' = (together \/ \E u \in Tabs \ {t} : enabling[u].pc = "found")
    /\ UNCHANGED <<browser, button, table, push, owes>>

There(e) == e.existing # NoRow

Write(t) ==
    LET e == enabling[t] IN
    /\ e.pc = "found"
    /\ \/ There(e) /\ UNCHANGED table
       \/ ~There(e) /\ made < MaxRows /\ made' = made + 1
          /\ rows' = rows \cup {[id |-> made + 1, account |-> e.account, endpoint |-> e.endpoint]}
    /\ enabling' = [enabling EXCEPT ![t].pc = IF There(e) /\ ~\E r \in rows : r.id = e.existing THEN "failed" ELSE "written"]
    /\ UNCHANGED <<browser, button, push, owes, together>>

(* the answer arrives, or does not; the update of a row that is gone is a 500 *)
Done(t) ==
    /\ enabling[t].pc \in {"written", "failed"}
    /\ \/ /\ enabling[t].pc = "written"
          /\ Answer(t, "granted")
          /\ owes' = [owes EXCEPT ![t] = [account |-> enabling[t].account, endpoint |-> enabling[t].endpoint]]
       \/ Answer(t, AfterFailure(t)) /\ UNCHANGED owes
    /\ UNCHANGED <<browser, table, push, together>>
-----------------------------------------------------------------------------
(* a tab is loaded anew: the effect reads the permission *)
Mount(t) ==
    /\ enabling[t].pc = "idle" /\ button[t] # perm
    /\ button' = [button EXCEPT ![t] = perm]
    /\ owes' = [owes EXCEPT ![t] = NothingOwed]
    /\ UNCHANGED <<browser, enabling, table, push, together>>

SignInAs(a) == cookie' = a /\ a # cookie /\ UNCHANGED <<perm, endpoint, ends, button, enabling, table, push, owes, together>>

(* the push service drops the subscription, or the user takes the permission back *)
Ends == endpoint # 0 /\ endpoint' = 0 /\ UNCHANGED <<perm, cookie, ends, button, enabling, table, push, owes, together>>
Resets(p) ==
    /\ perm = "granted" /\ p # "granted" /\ perm' = p /\ endpoint' = 0
    /\ UNCHANGED <<cookie, ends, button, enabling, table, push, owes, together>>

(* dispatchPending: the push to a row, and what becomes of the row *)
Send(r) ==
    /\ push = NotSending
    /\ push' \in [id : {r.id}, answer : {"failed", IF r.endpoint = endpoint THEN "ok" ELSE "gone"}]
    /\ UNCHANGED <<browser, button, enabling, table, owes, together>>

Gone(answer) == answer = "gone"

Settle ==
    /\ push # NotSending
    /\ push' = NotSending
    /\ rows' = IF Gone(push.answer) THEN {r \in rows : r.id # push.id} ELSE rows
    /\ UNCHANGED <<browser, button, enabling, made, owes, together>>

PushInit ==
    /\ perm = "default" /\ cookie \in Accounts /\ endpoint = 0 /\ ends = 0
    /\ button = [t \in Tabs |-> perm] /\ enabling = [t \in Tabs |-> Idle]
    /\ rows = {} /\ made = 0 /\ push = NotSending
    /\ owes = [t \in Tabs |-> NothingOwed] /\ together = FALSE

PushNext ==
    \/ \E t \in Tabs : \/ Press(t) \/ Subscribe(t) \/ Fails(t) \/ Find(t) \/ Write(t) \/ Done(t) \/ Mount(t)
                       \/ \E p \in Permissions : Decide(t, p)
    \/ \E a \in Accounts : SignInAs(a)
    \/ Ends
    \/ \E p \in Permissions : Resets(p)
    \/ \E r \in rows : Send(r)
    \/ Settle
-----------------------------------------------------------------------------
(* A tab that has turned notifications on has them: while the endpoint it     *)
(* subscribed lives, the account it did so for has a row of it, whatever      *)
(* other tabs, sign-ins, failed pushes and prunes have done since; and a      *)
(* device has one row of an account unless two of its tabs asked at once.     *)
StaysSubscribed ==
    /\ \A t \in Tabs : (owes[t] # NothingOwed /\ owes[t].endpoint = endpoint)
          => \E r \in rows : r.account = owes[t].account /\ r.endpoint = endpoint
    /\ \A r, q \in rows : (r.account = q.account /\ r.endpoint = q.endpoint) => r = q \/ together
=============================================================================
