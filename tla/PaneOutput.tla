----------------------------- MODULE PaneOutput -----------------------------
(***************************************************************************)
(* On-demand pane output for ONE pane (ADR-0016, 0030, 0032): the drawers  *)
(* that show it, the request rows of the database, the capture held in the *)
(* backend's memory, and the plugin that captures.  The handlers run in no *)
(* transaction: every awaited statement is a step of its own.              *)
(***************************************************************************)
EXTENDS Integers, FiniteSets

CONSTANTS
    Viewers,    \* drawers open on the pane (usePaneOutput)
    Slots,      \* deliveries that may be in flight at once
    Pro,        \* is the account of the pro tier?
    TTL,        \* REQUEST_TTL_SEC, in clock units
    Window,     \* FREE_AUTO_REFRESH_SEC
    Retention,  \* PANE_OUTPUT_RETENTION_SEC
    MaxTime, MaxLosses

Never == -1

VARIABLES
    clock,
    machine,  \* is there a Machine row, owned by the account?
    rows,     \* OutputRequest rows of the pane
    held,     \* PaneOutputStore: when the capture held was stored: {time}, or {}
    start,    \* autoRefresh: when the window was opened, or Never
    viewer,   \* [Viewers -> [pc, now]]: a drawer and its request in flight
    told,     \* is a control response with this pane on its way to the plugin?
    delivery, \* [Slots -> pc]: captured and on its way in POST /output
    purging,  \* forgetMachine has committed, the store is not purged yet
    gesture,  \* the last drawer opening or resume (history)
    stored,   \* when a capture was last stored, or Never (history)
    crossed,  \* has a request come between a delivery's two writes? (history)
    restarts, forgets

backend == <<rows, held, start>>
plugin == <<told, delivery>>
history == <<gesture, stored, crossed>>
counters == <<restarts, forgets>>
vars == <<clock, machine, backend, viewer, plugin, purging, history, counters>>

Times == 0..MaxTime
Row == [id : Nat, status : {"pending", "fulfilled"}, at : Times]
Viewer == [pc : {"closed", "asked", "owned", "rearm", "create", "polling", "read",
                 "gap", "paused", "unshared", "failed"}, now : Times]

TypeOK ==
    /\ clock \in Times /\ machine \in BOOLEAN
    /\ rows \subseteq Row
    /\ held \in {{}} \cup {{t} : t \in Times}
    /\ start \in Times \cup {Never}
    /\ viewer \in [Viewers -> Viewer]
    /\ told \in BOOLEAN /\ delivery \in [Slots -> {"free", "out", "checked", "put"}]
    /\ purging \in BOOLEAN
    /\ gesture \in Times /\ stored \in Times \cup {Never} /\ crossed \in BOOLEAN
    /\ restarts \in 0..MaxLosses /\ forgets \in 0..MaxLosses

Init ==
    /\ clock = 0 /\ machine = TRUE
    /\ rows = {} /\ held = {} /\ start = Never
    /\ viewer = [v \in Viewers |-> [pc |-> "closed", now |-> 0]]
    /\ told = FALSE /\ delivery = [d \in Slots |-> "free"]
    /\ purging = FALSE
    /\ gesture = 0 /\ stored = Never /\ crossed = FALSE
    /\ restarts = 0 /\ forgets = 0

Go(v, pc) == viewer' = [viewer EXCEPT ![v].pc = pc]
Recording == {d \in Slots : delivery[d] = "put"}
Pending == {r \in rows : r.status = "pending"}
-----------------------------------------------------------------------------
(* A human opens the drawer or presses resume: mode=start opens a window. *)
Open(v) ==
    /\ viewer[v].pc \in {"closed", "paused", "unshared", "failed"}
    /\ Go(v, "asked")
    /\ start' = clock /\ gesture' = clock
    /\ UNCHANGED <<clock, machine, rows, held, plugin, purging, stored, crossed, counters>>

(* allow; mutated form: a spent window is taken for a missing one *)
Lapsed == start = Never \/ clock - start > Window
Missing == start = Never
Allowed == Pro \/ Missing \/ clock - start <= Window

(* An automatic tick (mode=auto) *)
Auto(v) ==
    /\ viewer[v].pc = "gap"
    /\ Go(v, IF Allowed THEN "asked" ELSE "paused")
    /\ start' = IF ~Pro /\ Missing THEN clock ELSE start
    /\ UNCHANGED <<clock, machine, rows, held, plugin, purging, history, counters>>

(* registerRequest: ownsMachine *)
Owns(v) ==
    /\ viewer[v].pc = "asked"
    /\ Go(v, IF machine THEN "owned" ELSE "failed")
    /\ UNCHANGED <<clock, machine, backend, plugin, purging, history, counters>>

(* store.delete, and the time of the re-arm *)
Drop(v) ==
    /\ viewer[v].pc = "owned"
    /\ held' = {}
    /\ viewer' = [viewer EXCEPT ![v] = [pc |-> "rearm", now |-> clock]]
    /\ crossed' = (crossed \/ Recording # {})
    /\ UNCHANGED <<clock, machine, rows, start, plugin, purging, gesture, stored, counters>>

(* the rows the re-arm finds; mutated form: only those still pending *)
RearmsPending == Pending
Rearms == rows

(* updateMany: the pane's rows become pending again; if there are none, one  *)
(* is to be created (rows are only ever deleted all together, by a forget)   *)
Rearm(v) ==
    /\ viewer[v].pc = "rearm"
    /\ rows' = (rows \ Rearms) \cup {[r EXCEPT !.status = "pending", !.at = viewer[v].now] : r \in Rearms}
    /\ viewer' = [viewer EXCEPT ![v] = [pc |-> IF Rearms = {} THEN "create" ELSE "polling", now |-> 0]]
    /\ crossed' = (crossed \/ Recording # {})
    /\ UNCHANGED <<clock, machine, held, start, plugin, purging, gesture, stored, counters>>

Create(v) ==
    /\ viewer[v].pc = "create"
    /\ rows' = rows \cup {[id |-> Cardinality(rows) + 1, status |-> "pending", at |-> clock]}
    /\ Go(v, "polling")
    /\ crossed' = (crossed \/ Recording # {})
    /\ UNCHANGED <<clock, machine, held, start, plugin, purging, gesture, stored, counters>>

(* pending and not older than the TTL *)
Fresh == {r \in Pending : r.at >= clock - TTL}

(* readOutput: the drawer polls on while a row is pending ... *)
ReadRow(v) ==
    /\ viewer[v].pc = "polling" /\ Fresh = {}
    /\ Go(v, "read")
    /\ UNCHANGED <<clock, machine, backend, plugin, purging, history, counters>>

(* ... and then gets what is held, or "not shared" *)
ReadStore(v) ==
    /\ viewer[v].pc = "read"
    /\ Go(v, IF held = {} THEN "unshared" ELSE "gap")
    /\ UNCHANGED <<clock, machine, backend, plugin, purging, history, counters>>

(* a call of the drawer fails, or the drawer is closed *)
Fail(v) ==
    /\ viewer[v].pc \in {"polling", "read", "gap"} /\ Go(v, "failed")
    /\ UNCHANGED <<clock, machine, backend, plugin, purging, history, counters>>

(* pendingRequests, for a control response *)
Tell ==
    /\ machine /\ Fresh # {} /\ told' = TRUE
    /\ UNCHANGED <<clock, machine, backend, viewer, delivery, purging, history, counters>>

(* deliver_pending: capture and POST ... *)
Captured ==
    /\ told /\ told' = FALSE
    /\ \E d \in Slots : /\ delivery[d] = "free"
                        /\ delivery' = [delivery EXCEPT ![d] = "out"]
    /\ UNCHANGED <<clock, machine, backend, viewer, purging, history, counters>>

(* ... ignored unless pane_output is on, which may be switched at any time,  *)
(* or the control response is lost *)
Ignored ==
    /\ told /\ told' = FALSE
    /\ UNCHANGED <<clock, machine, backend, viewer, delivery, purging, history, counters>>

(* a delivery is lost *)
LoseDelivery(d) ==
    /\ delivery[d] = "out" /\ delivery' = [delivery EXCEPT ![d] = "free"]
    /\ UNCHANGED <<clock, machine, backend, viewer, told, purging, history, counters>>

(* submitOutput: ownsMachine *)
Check(d) ==
    /\ delivery[d] = "out"
    /\ delivery' = [delivery EXCEPT ![d] = IF machine THEN "checked" ELSE "free"]
    /\ UNCHANGED <<clock, machine, backend, viewer, told, purging, history, counters>>

HeldAt(t) == {t}

(* The plugin's timestamp is no date (milliseconds as text), so what is      *)
(* recorded as the time of capture is the time of receipt.                   *)
Put(d) ==
    /\ delivery[d] = "checked"
    /\ held' = HeldAt(clock) /\ stored' = clock
    /\ delivery' = [delivery EXCEPT ![d] = "put"]
    /\ UNCHANGED <<clock, machine, rows, start, viewer, told, purging, gesture, crossed, counters>>

(* markFulfilled, or its last attempt fails and the row stays pending *)
Fulfil(d) ==
    /\ delivery[d] = "put"
    /\ delivery' = [delivery EXCEPT ![d] = "free"]
    /\ rows' = (rows \ Pending) \cup {[r EXCEPT !.status = "fulfilled"] : r \in Pending}
    /\ UNCHANGED <<clock, machine, held, start, viewer, told, purging, history, counters>>
FulfilFails(d) ==
    /\ delivery[d] = "put"
    /\ delivery' = [delivery EXCEPT ![d] = "free"]
    /\ UNCHANGED <<clock, machine, backend, viewer, told, purging, history, counters>>

(* the sweep's prune; mutated form: captures go when their request expires *)
ExpiredWithRequest(e) == e < clock - TTL
Expired(e) == e < clock - Retention
Prune ==
    /\ \E e \in held : Expired(e)
    /\ held' = {e \in held : ~Expired(e)}
    /\ UNCHANGED <<clock, machine, rows, start, viewer, plugin, purging, history, counters>>

(* forgetMachine: the transaction, then the purge of the store *)
Forget ==
    /\ machine /\ ~purging /\ restarts + forgets < MaxLosses /\ forgets' = forgets + 1
    /\ machine' = FALSE /\ rows' = {} /\ purging' = TRUE
    /\ UNCHANGED <<clock, held, start, viewer, plugin, history, restarts>>
Purge ==
    /\ purging /\ purging' = FALSE /\ held' = {}
    /\ UNCHANGED <<clock, machine, rows, start, viewer, plugin, history, counters>>

(* an ingest registers the machine again *)
Register ==
    /\ ~machine /\ machine' = TRUE
    /\ UNCHANGED <<clock, backend, viewer, plugin, purging, history, counters>>

(* the backend restarts: store, windows and the requests in it are gone *)
Restart ==
    /\ restarts + forgets < MaxLosses /\ restarts' = restarts + 1
    /\ held' = {} /\ start' = Never /\ purging' = FALSE
    /\ viewer' = [v \in Viewers |->
          IF viewer[v].pc \in {"asked", "owned", "rearm", "create", "read"}
          THEN [pc |-> "failed", now |-> 0] ELSE viewer[v]]
    /\ delivery' = [d \in Slots |->
          IF delivery[d] \in {"checked", "put"} THEN "free" ELSE delivery[d]]
    /\ UNCHANGED <<clock, machine, rows, told, history, forgets>>

Tick ==
    /\ clock < MaxTime /\ clock' = clock + 1
    /\ UNCHANGED <<machine, backend, viewer, plugin, purging, history, counters>>
-----------------------------------------------------------------------------
(* the backend's part of a drawer's calls *)
Serve(v) == Owns(v) \/ Drop(v) \/ Rearm(v) \/ Create(v) \/ ReadRow(v) \/ ReadStore(v)

Next ==
    \/ \E v \in Viewers : Open(v) \/ Auto(v) \/ Serve(v) \/ Fail(v)
    \/ \E d \in Slots : Check(d) \/ Put(d) \/ Fulfil(d) \/ FulfilFails(d) \/ LoseDelivery(d)
    \/ Tell \/ Captured \/ Ignored
    \/ Prune \/ Forget \/ Purge \/ Register \/ Restart \/ Tick

Spec == Init /\ [][Next]_vars

-----------------------------------------------------------------------------
(* The request table does not grow (service.ts: "Keeps the pending set from  *)
(* growing on each re-open"): the rows of a pane are at most as many as the  *)
(* drawers that first asked for it at the same time, whatever else happens.  *)
RowsBounded ==
    Cardinality(rows) + Cardinality({v \in Viewers : viewer[v].pc = "create"}) <= Cardinality(Viewers)

(* The free window is enforced by the backend: no automatic request of a     *)
(* free account is let through later than Window after a human gesture,      *)
(* whichever drawer made it and whatever the drawers' own timers do.         *)
AutoWithinWindow ==
    [][\A v \in Viewers : viewer[v].pc = "gap" /\ viewer'[v].pc = "asked" =>
          Pro \/ restarts > 0 \/ clock - gesture <= Window]_vars

(* A fulfilled request has its frame (readOutput: "Only once the request has *)
(* been fulfilled ... do we serve the held output"): what the table says and *)
(* what the memory holds agree until the frame's retention is over, unless   *)
(* the process or the machine is lost, or a request comes between the two    *)
(* writes of a delivery.                                                     *)
FulfilledHasFrame ==
    \/ crossed \/ restarts > 0 \/ forgets > 0
    \/ \E v \in Viewers : viewer[v].pc \in {"rearm", "create"}
    \/ \A r \in rows : r.status = "fulfilled" => held # {} \/ stored < clock - Retention
=============================================================================
