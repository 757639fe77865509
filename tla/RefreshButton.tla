---------------------------- MODULE RefreshButton ----------------------------
(***************************************************************************)
(* The refresh button of a machine (MachineDetail.tsx), the token bucket   *)
(* of its route, and the hint about the filters that repeated refreshes of *)
(* either kind bring up (refreshNudge.ts).                                 *)
(***************************************************************************)
EXTENDS Integers, Sequences

CONSTANTS
    CoolDown,    \* the 5 s of the button, and of the bucket's refill
    NudgeWindow, \* NUDGE_WINDOW_MS
    MaxNow,      \* bounds the time
    MaxPresses \* bounds the presses of a page load


VARIABLES
    at,        \* the time
    button,    \* "ready", "asking", or the label it shows until it is ready again
    left,      \* of the timer that makes it ready
    request,   \* the request of the button: "none", "out", "accepted" or "refused"
    level,     \* the bucket, in parts of a token: CoolDown of them are one
    looked,    \* when the bucket was last looked at
    clicks,    \* refreshClicks of this page load
    reloads,   \* ztf.dash.reloads of the tab
    nudged,    \* has this page load shown the hint?
    tooSoon,   \* has the button been told to slow down? (history)
    pressed,   \* the times it was pressed in this page load (history)
    load,      \* this page load and the one before: when, if a reload, and
    prior,     \* whether it came with the hint (history)
    elsewhere     \* has another page asked for the same machine? (history)

bucket == <<level, looked>>
hint == <<clicks, reloads, nudged, pressed, load, prior>>
refreshVars == <<at, button, left, request, bucket, hint, tooSoon, elsewhere>>
-----------------------------------------------------------------------------
(* times are in order: those within the window are the last ones *)
Kept(times) ==
    LET recent == {i \in DOMAIN times : at - times[i] < NudgeWindow}
        first == CHOOSE i \in recent : \A j \in recent : i <= j
    IN  IF recent = {} THEN <<>> ELSE SubSeq(times, first, Len(times))
Recorded(times) == Append(Kept(times), at)
Crosses(times) == Len(Recorded(times)) >= 2

Rest(label) == CoolDown

Press ==
    /\ button = "ready" /\ request = "none" /\ Len(pressed) < MaxPresses
    /\ button' = "asking" /\ request' = "out"
    /\ clicks' = Recorded(clicks) /\ nudged' = (nudged \/ Crosses(clicks))
    /\ pressed' = Append(pressed, at)
    /\ UNCHANGED <<at, left, bucket, reloads, load, prior, tooSoon, elsewhere>>

(* tokenBucket: refill by the time since the last look, then take one       *)
Refilled == LET l == level + (at - looked) IN IF l > CoolDown THEN CoolDown ELSE l
Look(ok) ==
    /\ ok = (Refilled >= CoolDown)
    /\ level' = IF ok THEN Refilled - CoolDown ELSE Refilled
    /\ looked' = at

Arrive ==
    /\ request = "out"
    /\ \E ok \in BOOLEAN : Look(ok) /\ request' = (IF ok THEN "accepted" ELSE "refused")
    /\ UNCHANGED <<at, button, left, hint, tooSoon, elsewhere>>

(* another page of the account, or another browser *)
AnotherAsks ==
    /\ elsewhere' = TRUE
    /\ \E ok \in BOOLEAN : Look(ok)
    /\ UNCHANGED <<at, button, left, request, hint, tooSoon>>

(* the answer, or none: the request or its answer is lost *)
Told(label) ==
    /\ request # "none"
    /\ label \in {"failed"} \cup (CASE request = "accepted" -> {"requested"} [] request = "refused" -> {"slow down"} [] OTHER -> {})
    /\ request' = "none"
    /\ button' = label
    /\ left' = Rest(label)
    /\ tooSoon' = (tooSoon \/ label = "slow down")
    /\ UNCHANGED <<at, bucket, hint, elsewhere>>

Passes ==
    /\ at < MaxNow /\ at' = at + 1
    /\ IF left > 0 THEN left' = left - 1 ELSE left' = left
    /\ button' = IF left = 1 THEN "ready" ELSE button
    /\ UNCHANGED <<request, bucket, hint, tooSoon, elsewhere>>

(* The browser's reload: a new page, with the storage of the tab.  A request *)
(* of the old page that is on its way is another page's from now on.         *)
Reload ==
    /\ request' = "none"
    /\ button' = "ready" /\ left' = 0
    /\ elsewhere' = (elsewhere \/ button # "ready")
    /\ clicks' = <<>> /\ pressed' = <<>>
    /\ nudged' = Crosses(reloads)
    /\ reloads' = IF Crosses(reloads) THEN <<>> ELSE Recorded(reloads)
    /\ load' = [t |-> at, hint |-> Crosses(reloads)] /\ prior' = load
    /\ UNCHANGED <<at, bucket, tooSoon>>

NoReload == [t |-> -1, hint |-> FALSE]
RefreshInit ==
    /\ at = 0 /\ button = "ready" /\ left = 0 /\ request = "none"
    /\ level = CoolDown /\ looked = 0
    /\ clicks = <<>> /\ reloads = <<>> /\ nudged = FALSE /\ tooSoon = FALSE /\ elsewhere = FALSE
    /\ pressed = <<>> /\ load = NoReload /\ prior = NoReload

RefreshNext ==
    \/ Press \/ Arrive \/ AnotherAsks \/ Passes \/ Reload
    \/ \E label \in {"requested", "slow down", "failed"} : Told(label)
-----------------------------------------------------------------------------
Close(times) == \E i, j \in DOMAIN times : i < j /\ times[j] - times[i] < NudgeWindow

(* "Stay disabled ~5s to match the server-side rate limit": a page that is    *)
(* alone with a machine is never told to slow down, however long its requests *)
(* take and whichever of them are lost.                                       *)
NeverTooSoon == elsewhere \/ ~tooSoon

(* The hint is up after two presses of this page load within the window, or   *)
(* when the page is the second of two such reloads, and not otherwise; the    *)
(* reload that brings it up does not count towards the next.                  *)
NudgeEarned ==
    /\ load.hint = (prior.t >= 0 /\ ~prior.hint /\ load.t - prior.t < NudgeWindow)
    /\ nudged = (load.hint \/ Close(pressed))
=============================================================================
