----------------------------- MODULE PopupLogin -----------------------------
(***************************************************************************)
(* Sign-in in a popup (useOAuthPopup.ts): every attempt has a listener for *)
(* the token and a poll for the window being closed, which race; a new     *)
(* attempt abandons the last and uses the window of that name again.       *)
(***************************************************************************)
EXTENDS Naturals, FiniteSets

CONSTANTS MaxLogins \* bounds the attempts


VARIABLES
    logins,    \* the attempts there have been
    cleanup,   \* the attempt in cleanupRef, or 0
    listeners, \* the attempts whose listener is registered
    polls,     \* the attempts whose interval runs
    pending,
    window,    \* the popup: 0 if closed, or the attempt whose page it shows
    posted,    \* the tokens posted to the page and not delivered, by attempt
    told       \* what each attempt has been told, as [attempt, what] (history)

popupVars == <<logins, cleanup, listeners, polls, pending, window, posted, told>>
-----------------------------------------------------------------------------
(* mutated form: the interval is left running *)
KeepsPoll(k) == polls
StopsPoll(k) == polls \ {k}
CleanUp(k) ==
    /\ listeners' = listeners \ {k} /\ polls' = StopsPoll(k)
    /\ pending' = FALSE /\ cleanup' = 0

Tell(k, what) == told' = told \cup {[attempt |-> k, what |-> what]}

(* window.open gives the window of that name, or nothing when it is blocked *)
signIn(blocked) ==
    /\ logins < MaxLogins /\ logins' = logins + 1
    /\ LET k == logins + 1
           others == listeners \ {cleanup}
           ticking == IF cleanup = 0 THEN polls ELSE StopsPoll(cleanup)
       IN IF blocked
          THEN /\ listeners' = others /\ polls' = ticking /\ cleanup' = 0
               /\ pending' = FALSE
               /\ Tell(k, "cancel") /\ UNCHANGED window
          ELSE /\ listeners' = others \cup {k} /\ polls' = ticking \cup {k} /\ cleanup' = k
               /\ pending' = TRUE /\ window' = k /\ UNCHANGED told
    /\ UNCHANGED posted

(* the page in the window posts the token and closes it *)
Finishes ==
    /\ window # 0 /\ posted' = posted \cup {window} /\ window' = 0
    /\ UNCHANGED <<logins, cleanup, listeners, polls, pending, told>>

UserCloses == window # 0 /\ window' = 0 /\ UNCHANGED <<logins, cleanup, listeners, polls, pending, posted, told>>

(* a message goes to whoever listens; it does not say of which attempt it is *)
onMessage(m) ==
    /\ m \in posted /\ posted' = posted \ {m}
    /\ IF listeners = {} THEN UNCHANGED <<cleanup, listeners, polls, pending, told>>
       ELSE \E k \in listeners : Tell(k, "token") /\ CleanUp(k)
    /\ UNCHANGED <<logins, window>>

Poll(k) ==
    /\ k \in polls /\ window = 0
    /\ CleanUp(k) /\ Tell(k, "cancel")
    /\ UNCHANGED <<logins, window, posted>>

Unmount ==
    /\ cleanup # 0 /\ CleanUp(cleanup)
    /\ UNCHANGED <<logins, window, posted, told>>

PopupInit ==
    /\ logins = 0 /\ cleanup = 0 /\ listeners = {} /\ polls = {} /\ pending = FALSE
    /\ window = 0 /\ posted = {} /\ told = {}

PopupNext ==
    \/ \E blocked \in BOOLEAN : signIn(blocked)
    \/ Finishes \/ UserCloses \/ Unmount
    \/ \E m \in posted : onMessage(m)
    \/ \E k \in polls : Poll(k)

(* An attempt is told of a token or of a cancel, once, and never after it has *)
(* been abandoned; nothing of it is left behind, and the button says so.      *)
OneOutcome ==
    /\ \A s, t \in told : s.attempt = t.attempt => s = t
    /\ listeners = (IF pending THEN {cleanup} ELSE {}) /\ polls = listeners
    /\ \A k \in listeners : k = logins /\ ~\E t \in told : t.attempt = k
=============================================================================
