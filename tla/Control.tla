------------------------------ MODULE Control ------------------------------
(***************************************************************************)
(* The control channel between ONE plugin instance and the backend         *)
(* (ADR-0026, ADR-0029), composed with the plugin's send gate.  A poll is  *)
(* one POST /api/v1/control: the backend touches the machine, computes an  *)
(* answer and, for a long poll with nothing pending, holds it until it is  *)
(* signalled or times out.  Requests, answers and snapshots get lost, the  *)
(* backend restarts; what is not lost arrives within Lag ticks.            *)
(***************************************************************************)
EXTENDS SendGate, FiniteSets

CONSTANTS
    Polls,     \* slots for polls that are on their way
    PollEvery, \* CONTROL_POLL_EVERY_TICKS
    Hold,      \* MAX_WAIT_MS and LONG_POLL_WAIT_MS, in ticks
    Watchdog,  \* CONTROL_WATCHDOG_TICKS
    Lag,       \* ticks a request or an answer takes at most, if it arrives
    MaxFaults, MaxRestarts, MaxClicks

Never == -1

ASSUME ControlAssumption ==
    /\ {PollEvery, Hold, Watchdog} \subseteq Nat \ {0} /\ Lag \in Nat
    /\ Hold + 2 * Lag < Watchdog  \* "the hold plus slack"
    /\ {MaxFaults, MaxRestarts, MaxClicks} \subseteq Nat /\ IsFiniteSet(Polls)

VARIABLES
    long,       \* control_long_poll
    inflight, issued,   \* control_inflight, control_issued_wall
    lastSeq,    \* last_refresh_seq
    poll,       \* [Polls -> Poll]
    lastSeen,   \* Machine.lastSeenAt, Never when there is no Machine row
    refreshSeq, \* presence: the machine's refresh sequence
    watching,   \* presence: isWatching
    pending,    \* is an unexpired pane-output request pending?
    clicked,    \* when the refresh button was pressed and not yet served (history)
    missed,     \* requests that did not arrive since the last touch (history)
    clicks, faults, restarts   \* counters of the bounded events

plugin == <<long, inflight, issued, lastSeq>>
presence == <<refreshSeq, watching>>
history == <<clicked, missed>>
counters == <<clicks, faults, restarts>>
vars == <<gateVars, plugin, poll, lastSeen, presence, pending, history, counters>>

Poll == [pc : {"free", "out", "compute", "read", "parked", "back"}, from : 0..MaxWall,
         again : BOOLEAN, found : BOOLEAN, ok : BOOLEAN,
         watched : BOOLEAN, seq : 0..MaxClicks, secs : Intervals \cup {HeartbeatDefault}]
NoPoll == [pc |-> "free", from |-> 0, again |-> FALSE, found |-> FALSE, ok |-> FALSE,
           watched |-> FALSE, seq |-> 0, secs |-> HeartbeatDefault]

TypeOK ==
    /\ GateTypeOK
    /\ long \in BOOLEAN /\ inflight \in BOOLEAN
    /\ issued \in 0..MaxWall /\ lastSeq \in 0..MaxClicks
    /\ poll \in [Polls -> Poll]
    /\ lastSeen \in 0..MaxWall \cup {Never}
    /\ refreshSeq \in 0..MaxClicks
    /\ watching \in BOOLEAN /\ pending \in BOOLEAN
    /\ clicked \in 0..MaxWall \cup {Never} /\ missed \in 0..MaxFaults
    /\ clicks \in 0..MaxClicks /\ faults \in 0..MaxFaults /\ restarts \in 0..MaxRestarts

Init ==
    /\ GateInit
    /\ long \in BOOLEAN /\ inflight = FALSE /\ issued = 0 /\ lastSeq = 0
    /\ poll = [p \in Polls |-> NoPoll]
    /\ lastSeen \in {0, Never}
    /\ refreshSeq = 0 /\ watching = FALSE /\ pending = FALSE
    /\ clicked = Never /\ missed = 0
    /\ clicks = 0 /\ faults = 0 /\ restarts = 0

At(p, pc) == poll[p].pc = pc
Outstanding == {p \in Polls : ~At(p, "free")}
Set(p, q) == poll' = [poll EXCEPT ![p] = q]

(* Nothing that arrives at all is later than Lag; no hold is longer than Hold. *)
Timely ==
    \A p \in Outstanding :
        wall - poll[p].from < IF At(p, "parked") THEN Hold ELSE Lag
-----------------------------------------------------------------------------
(* control_poll_due; mutated forms: no watchdog; a watchdog inside the hold *)
DueUnwatched(now) == IF long THEN ~inflight ELSE now % PollEvery = 0
DueInHold(now) == IF long THEN ~inflight \/ now - issued >= Hold ELSE now % PollEvery = 0
Due(now) ==
    IF long THEN ~inflight \/ now - issued >= Watchdog ELSE now % PollEvery = 0

(* maybe_poll_control *)
Issue ==
    IF Due(wall')
    THEN /\ \E p \in Polls \ Outstanding : Set(p, [NoPoll EXCEPT !.pc = "out", !.from = wall'])
         /\ inflight' = TRUE /\ issued' = wall'
    ELSE UNCHANGED <<poll, inflight, issued>>

(* Event::Timer: the control poll if one is due, then the send decision.  A  *)
(* snapshot is fire and forget; if it arrives the machine is (re)registered. *)
Timer ==
    /\ Timely
    /\ \E sig \in Signature : Tick(sig)
    /\ Issue
    /\ clicked' = IF gate'.at = wall' THEN Never ELSE clicked
    /\ \/ gate'.at = wall' /\ lastSeen' = wall' /\ missed' = 0
       \/ UNCHANGED <<lastSeen, missed>>
    /\ UNCHANGED <<long, lastSeq, presence, pending, counters>>

(* handleControl up to the liveness touch, for a machine the account owns *)
Touch(p) ==
    /\ At(p, "out") /\ lastSeen # Never
    /\ lastSeen' = wall /\ missed' = 0
    /\ \E secs \in Intervals : Set(p, [poll[p] EXCEPT !.pc = "compute", !.secs = secs])
    /\ UNCHANGED <<gateVars, plugin, presence, pending, clicked, counters>>

(* no such machine yet: 403 *)
Refuse(p) ==
    /\ At(p, "out") /\ lastSeen = Never
    /\ Set(p, [poll[p] EXCEPT !.pc = "back"])
    /\ UNCHANGED <<gateVars, plugin, lastSeen, presence, pending, history, counters>>

(* compute: the pending pane-output requests are read, awaited *)
ReadPending(p) ==
    /\ At(p, "compute")
    /\ Set(p, [poll[p] EXCEPT !.pc = "read", !.found = pending])
    /\ UNCHANGED <<gateVars, plugin, lastSeen, presence, pending, history, counters>>

(* Is the answer held?  Asked once per poll. *)
Holds(q) == long /\ ~q.again /\ ~q.found

(* compute's other half: presence as it is now, then hold or answer *)
Answer(p) ==
    LET q == [poll[p] EXCEPT !.watched = watching, !.seq = refreshSeq] IN
    /\ At(p, "read")
    /\ IF Holds(q) THEN Set(p, [q EXCEPT !.pc = "parked", !.from = wall])
                   ELSE Set(p, [q EXCEPT !.pc = "back", !.ok = TRUE])
    /\ UNCHANGED <<gateVars, plugin, lastSeen, presence, pending, history, counters>>

(* waiters: the parked polls that are released compute once more *)
Release(P) ==
    [p \in Polls |-> IF p \in P /\ At(p, "parked")
                     THEN [poll[p] EXCEPT !.pc = "compute", !.again = TRUE, !.from = wall]
                     ELSE poll[p]]

TimeOut(p) ==
    /\ At(p, "parked") /\ wall - poll[p].from = Hold
    /\ poll' = Release({p})
    /\ UNCHANGED <<gateVars, plugin, lastSeen, presence, pending, history, counters>>

WakeAll == Release(Polls)

(* POST /machines/:id/refresh: bump, and wake the held polls *)
Refresh ==
    /\ lastSeen # Never /\ clicks < MaxClicks
    /\ clicks' = clicks + 1 /\ refreshSeq' = refreshSeq + 1 /\ watching' = TRUE
    /\ poll' = WakeAll
    /\ clicked' = IF clicked = Never THEN wall ELSE clicked
    /\ UNCHANGED <<gateVars, plugin, lastSeen, pending, missed, faults, restarts>>

(* an output request: the row, then the signal *)
RequestOutput ==
    /\ lastSeen # Never /\ pending' = TRUE
    /\ poll' = WakeAll
    /\ UNCHANGED <<gateVars, plugin, lastSeen, presence, history, counters>>

(* the request is fulfilled, or its time to live is over *)
SettleOutput ==
    /\ pending /\ pending' = FALSE
    /\ UNCHANGED <<gateVars, plugin, poll, lastSeen, presence, history, counters>>

(* a dashboard opens, or its last signal expires *)
Presence ==
    /\ watching' = ~watching
    /\ UNCHANGED <<gateVars, plugin, poll, lastSeen, refreshSeq, pending, history, counters>>

(* on_control_response: is the refresh sequence news?  mutated form: the     *)
(* first refresh is taken for the initial value                              *)
NewsAfterFirst(seq) == seq > lastSeq + 1
News(seq) == seq > lastSeq

(* Event::WebRequestResult of a control poll *)
Handle(p) ==
    LET q == poll[p] IN
    /\ At(p, "back")
    /\ inflight' = FALSE
    /\ Set(p, NoPoll)
    /\ IF q.ok
       THEN /\ Hurry(q.watched, q.secs, News(q.seq))
            /\ lastSeq' = IF News(q.seq) THEN q.seq ELSE lastSeq
       ELSE UNCHANGED <<gateVars, lastSeq>>
    /\ UNCHANGED <<long, issued, lastSeen, presence, pending, history, counters>>

(* The request or its answer is dropped, and the host reports nothing; when  *)
(* a held connection closes, the machine's other held polls are released.    *)
Lose(p) ==
    /\ poll[p].pc \in {"out", "parked", "back"} /\ faults < MaxFaults
    /\ faults' = faults + 1
    /\ missed' = IF At(p, "out") THEN missed + 1 ELSE missed
    /\ poll' = [(IF At(p, "parked") THEN WakeAll ELSE poll) EXCEPT ![p] = NoPoll]
    /\ UNCHANGED <<gateVars, plugin, lastSeen, presence, pending, clicked, clicks, restarts>>

(* the request fails on its way, and the plugin is told *)
Fail(p) ==
    /\ At(p, "out") /\ faults < MaxFaults
    /\ faults' = faults + 1 /\ missed' = missed + 1
    /\ Set(p, [poll[p] EXCEPT !.pc = "back", !.ok = FALSE])
    /\ UNCHANGED <<gateVars, plugin, lastSeen, presence, pending, clicked, clicks, restarts>>

(* The backend restarts: presence is in memory, so it forgets a refresh it   *)
(* had not passed on, and the polls it held break off.                       *)
Restart ==
    /\ restarts < MaxRestarts /\ restarts' = restarts + 1
    /\ refreshSeq' = 0 /\ watching' = FALSE /\ clicked' = Never
    /\ poll' = [p \in Polls |->
                  IF poll[p].pc \in {"compute", "read", "parked"}
                  THEN [NoPoll EXCEPT !.pc = "back", !.from = IF At(p, "parked") THEN wall ELSE poll[p].from]
                  ELSE poll[p]]
    /\ UNCHANGED <<gateVars, plugin, lastSeen, pending, missed, clicks, faults>>

Next ==
    \/ Timer \/ Refresh \/ RequestOutput \/ SettleOutput \/ Presence \/ Restart
    \/ \E p \in Polls :
          \/ Touch(p) \/ Refuse(p) \/ ReadPending(p) \/ Answer(p) \/ TimeOut(p)
          \/ Handle(p) \/ Lose(p) \/ Fail(p)

Spec == Init /\ [][Next]_vars
-----------------------------------------------------------------------------
(* A long poll is never re-issued early (cadence.rs: "a normally-returning   *)
(* long-poll is never re-issued early"): although the plugin and the backend *)
(* time the poll separately, at most one is outstanding, whatever is lost.   *)
OneOutstanding == long => \A p, o \in Outstanding : p = o

(* The liveness touch: a live plugin's machine goes stale only by requests   *)
(* that do not arrive, each of which costs at most one watchdog period; the  *)
(* loss of an answer costs nothing.                                          *)
StaysFresh ==
    lastSeen # Never /\ wall > 0 =>
        wall - lastSeen <= (IF long THEN Watchdog ELSE PollEvery) * (missed + 1) + Lag

(* The refresh button: if nothing was lost, a snapshot goes out within one   *)
(* hold (or poll period) of the click and the time of the messages.          *)
Prompt == (IF long THEN Hold ELSE PollEvery) + 3 * Lag + 2
RefreshInTime ==
    faults = 0 /\ restarts = 0 /\ clicked # Never => wall - clicked < Prompt

(* The same for a click on a backend that has restarted since the plugin     *)
(* last heard of one (plugin.rs: "A bumped refresh sequence (manual refresh  *)
(* button) forces one snapshot on the next tick").                           *)
RefreshAfterRestart == faults = 0 /\ clicked # Never => wall - clicked < Prompt + Lag
=============================================================================
