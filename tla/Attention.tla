----------------------------- MODULE Attention -----------------------------
(***************************************************************************)
(* The attention episode engine of the backend for ONE machine: the table  *)
(* of attention rows, and the handlers that reconcile it.  A handler is    *)
(* one activation of processAttentions, started by an ingest (with the     *)
(* sids the plugin instance reported) or by the machine sweep (with the    *)
(* machine-level scope '').  processAttentions runs in no transaction, so  *)
(* every awaited statement is a step of its own and the handlers           *)
(* interleave between them.                                                *)
(***************************************************************************)
EXTENDS Integers, FiniteSets

CONSTANTS
    Handlers,     \* activations that may be in flight at once
    Keys,         \* (targetKey, type) pairs
    NoKey,        \* "no key", not a member of Keys
    SidOf,        \* [Keys -> sid]: the leading sid of the targetKey
    MachineScope, \* the sid '' of machine-level targets
    IdleKey, OfflineKey,   \* claude.idle and machine.offline on this machine
    Tiers,        \* account tiers a handler may read
    Threshold,    \* [Keys -> [Tiers -> Nat]], thresholdSeconds in clock units
    Cooldown,     \* [Keys -> Nat], cooldownSeconds in clock units
    Scopes,       \* sets of sids one ingest may report
    Stale, Lookback,       \* STALE_AFTER_MS, OFFLINE_LOOKBACK_MS
    MaxTime, MaxJobs, MaxCrashes, MaxForgets

Never == -1
Sids == {SidOf[k] : k \in Keys}

ASSUME KeysAssumption ==
    /\ NoKey \notin Keys
    /\ {IdleKey, OfflineKey} \subseteq Keys
    /\ SidOf[IdleKey] = MachineScope /\ SidOf[OfflineKey] = MachineScope
    /\ Scopes \subseteq SUBSET (Sids \ {MachineScope})
ASSUME PolicyAssumption ==
    /\ Tiers # {}
    /\ Threshold \in [Keys -> [Tiers -> Nat]]
    /\ Cooldown \in [Keys -> Nat]
    /\ Stale \in Nat /\ Lookback \in Nat
ASSUME BoundsAssumption ==
    {MaxTime, MaxJobs, MaxCrashes, MaxForgets} \subseteq Nat

VARIABLES
    clock,     \* backend wall clock
    lastSeen,  \* Machine.lastSeenAt, Never when there is no Machine row
    rows,      \* the Attention table
    nextId,    \* next fresh row id
    job,       \* [Handlers -> Job]
    notified,  \* notifications enqueued: [key, at]
    started, crashes, forgets   \* counters of the bounded events

vars == <<clock, lastSeen, rows, nextId, job, notified, started, crashes, forgets>>
counters == <<started, crashes, forgets>>

Wire == {"active", "cleared", "absent"}
Row == [id : Nat, key : Keys, since : Nat, fired : Nat \cup {Never}]
Job == [pc : {"idle", "stored", "next", "create", "fire", "doomed", "enqueue"},
        sids : SUBSET Sids, report : [Keys -> Wire], tier : Tiers, now : Nat,
        todo : SUBSET Keys, key : Keys \cup {NoKey}, id : Nat,
        doomed : SUBSET Nat, fired : SUBSET Keys]

NoJob == [pc |-> "idle", sids |-> {}, report |-> [k \in Keys |-> "absent"],
          tier |-> CHOOSE t \in Tiers : TRUE, now |-> 0, todo |-> {},
          key |-> NoKey, id |-> 0, doomed |-> {}, fired |-> {}]

TypeOK ==
    /\ clock \in 0..MaxTime
    /\ lastSeen \in 0..MaxTime \cup {Never}
    /\ rows \subseteq Row
    /\ nextId \in Nat \ {0}
    /\ job \in [Handlers -> Job]
    /\ notified \subseteq [key : Keys, at : Nat]
    /\ started \in 0..MaxJobs /\ crashes \in 0..MaxCrashes /\ forgets \in 0..MaxForgets

Init ==
    /\ clock = 0 /\ lastSeen = Never
    /\ rows = {} /\ nextId = 1
    /\ job = [h \in Handlers |-> NoJob]
    /\ notified = {}
    /\ started = 0 /\ crashes = 0 /\ forgets = 0

(* What one handler knows of its own run. *)
Reported(j, state) == {k \in Keys : j.report[k] = state}
Set(h, j) == job' = [job EXCEPT ![h] = j]
RowsOf(k) == {r \in rows : r.key = k}

(* Nothing keeps a handler from starting while others of its scope run. *)
MayStart(h) == job[h].pc = "idle" /\ started < MaxJobs

(* No two handlers in flight have a session or the sweep's scope in common. *)
Disjoint == \A g, h \in Handlers : g # h => job[g].sids \cap job[h].sids = {}

(* mutated form: the anti-spam window is forgotten *)
DueAtThreshold(r, j) == j.now - r.since >= Threshold[r.key][j.tier]

(* outside the cooldown, and old enough for the tier *)
Due(r, j) ==
    /\ j.now - r.since >= Threshold[r.key][j.tier]
    /\ r.fired = Never \/ j.now - r.fired >= Cooldown[r.key]
-----------------------------------------------------------------------------
(* POST /api/v1/ingest: storeSnapshot commits, the machine is seen. *)
StoreSnapshot(h, sids, report, tier) ==
    /\ MayStart(h)
    /\ Set(h, [NoJob EXCEPT !.pc = "stored", !.sids = sids, !.report = report, !.tier = tier,
                            !.todo = {k \in Keys : report[k] # "absent"}])
    /\ lastSeen' = clock
    /\ started' = started + 1
    /\ UNCHANGED <<clock, rows, nextId, notified, crashes, forgets>>

(* The handler takes its clock reading, after the awaits of the route. *)
BeginReconcile(h) ==
    /\ job[h].pc = "stored"
    /\ Set(h, [job[h] EXCEPT !.pc = "next", !.now = clock])
    /\ UNCHANGED <<clock, lastSeen, rows, nextId, notified, counters>>

(* One pass of the machine sweep over this machine: both machine-level       *)
(* attentions in one call, idle forced cleared while the machine is offline. *)
StartSweep(h, idle, tier) ==
    LET offline == clock - lastSeen > Stale IN
    /\ MayStart(h)
    /\ lastSeen # Never /\ clock - lastSeen < Lookback
    /\ Set(h, [NoJob EXCEPT
         !.pc = "next", !.sids = {MachineScope}, !.tier = tier, !.now = clock,
         !.todo = {IdleKey, OfflineKey},
         !.report = [k \in Keys |-> CASE k = OfflineKey -> IF offline THEN "active" ELSE "cleared"
                                      [] k = IdleKey -> IF idle /\ ~offline THEN "active" ELSE "cleared"
                                      [] OTHER -> "absent"]])
    /\ started' = started + 1
    /\ UNCHANGED <<clock, lastSeen, rows, nextId, notified, crashes, forgets>>

(* deleteMany for an attention reported cleared *)
ClearReported(h, k) ==
    /\ job[h].pc = "next" /\ k \in job[h].todo /\ job[h].report[k] = "cleared"
    /\ rows' = rows \ RowsOf(k)
    /\ Set(h, [job[h] EXCEPT !.todo = @ \ {k}])
    /\ UNCHANGED <<clock, lastSeen, nextId, notified, counters>>

(* Handler j's state after it has looked at its copy r of the row. *)
Decided(j, r) ==
    IF Due(r, j) THEN [j EXCEPT !.todo = @ \ {r.key}, !.pc = "fire", !.key = r.key, !.id = r.id]
                 ELSE [j EXCEPT !.todo = @ \ {r.key}, !.pc = "next", !.key = NoKey, !.id = 0]

(* findUnique for an attention reported active *)
Lookup(h, k) ==
    /\ job[h].pc = "next" /\ k \in job[h].todo /\ job[h].report[k] = "active"
    /\ \/ \E r \in RowsOf(k) : Set(h, Decided(job[h], r))
       \/ /\ RowsOf(k) = {}
          /\ Set(h, [job[h] EXCEPT !.pc = "create", !.key = k])
    /\ UNCHANGED <<clock, lastSeen, rows, nextId, notified, counters>>

(* A statement fails and the activation is abandoned, with what it had fired. *)
Abort(h) == Set(h, NoJob)

NewRow(j) == [id |-> nextId, key |-> j.key, since |-> j.now, fired |-> Never]

(* create: a new episode, unless another handler created the row since *)
Create(h) ==
    LET k == job[h].key
        r == NewRow(job[h])
    IN
    /\ job[h].pc = "create"
    /\ \/ /\ RowsOf(k) = {}
          /\ rows' = rows \cup {r}
          /\ nextId' = nextId + 1
          /\ Set(h, Decided(job[h], r))
       \/ RowsOf(k) # {} /\ Abort(h) /\ UNCHANGED <<rows, nextId>>
    /\ UNCHANGED <<clock, lastSeen, notified, counters>>

(* mutated form: the row is found by its target, as the lookup found it *)
FiredRowsByKey(j) == RowsOf(j.key)
FiredRows(j) == {r \in rows : r.id = j.id}

(* update lastFiredAt by row id, and remember the fire *)
Fire(h) ==
    LET mine == FiredRows(job[h]) IN
    /\ job[h].pc = "fire"
    /\ \/ /\ mine # {}
          /\ rows' = (rows \ mine) \cup {[r EXCEPT !.fired = job[h].now] : r \in mine}
          /\ Set(h, [job[h] EXCEPT !.pc = "next", !.key = NoKey, !.id = 0, !.fired = @ \cup {job[h].key}])
       \/ mine = {} /\ Abort(h) /\ UNCHANGED rows
    /\ UNCHANGED <<clock, lastSeen, nextId, notified, counters>>

(* mutated forms: rows of other sessions too; only what was said to be over *)
UnseenOnMachine(j) == {r \in rows : r.key \notin Reported(j, "active")}
UnseenIfCleared(j) == {r \in rows : r.key \in Reported(j, "cleared")}
Unseen(j) == {r \in rows : SidOf[r.key] \in j.sids /\ r.key \notin Reported(j, "active")}

(* findMany of the active rows: the ones of this scope not seen are doomed *)
Scan(h) ==
    /\ job[h].pc = "next" /\ job[h].todo = {}
    /\ Set(h, [job[h] EXCEPT !.pc = "doomed", !.doomed = {r.id : r \in Unseen(job[h])}])
    /\ UNCHANGED <<clock, lastSeen, rows, nextId, notified, counters>>

(* delete by row id: an error if the row is gone *)
DeleteDoomed(h, i) ==
    LET mine == {r \in rows : r.id = i} IN
    /\ job[h].pc = "doomed" /\ i \in job[h].doomed
    /\ \/ mine # {} /\ rows' = rows \ mine /\ Set(h, [job[h] EXCEPT !.doomed = @ \ {i}])
       \/ mine = {} /\ Abort(h) /\ UNCHANGED rows
    /\ UNCHANGED <<clock, lastSeen, nextId, notified, counters>>

EndClear(h) ==
    /\ job[h].pc = "doomed" /\ job[h].doomed = {}
    /\ IF job[h].fired = {} THEN Set(h, NoJob) ELSE Set(h, [job[h] EXCEPT !.pc = "enqueue"])
    /\ UNCHANGED <<clock, lastSeen, rows, nextId, notified, counters>>

LeftAfter(j, k) == j.fired \ {k}

(* createForFired: one notification per fired attention *)
Enqueue(h, k) ==
    /\ job[h].pc = "enqueue" /\ k \in job[h].fired
    /\ notified' = notified \cup {[key |-> k, at |-> job[h].now]}
    /\ IF LeftAfter(job[h], k) = {}
       THEN Set(h, NoJob) ELSE Set(h, [job[h] EXCEPT !.fired = LeftAfter(job[h], k)])
    /\ UNCHANGED <<clock, lastSeen, rows, nextId, counters>>

(* the control poll's liveness touch of a known machine *)
Touch ==
    /\ lastSeen # Never /\ lastSeen' = clock
    /\ UNCHANGED <<clock, rows, nextId, job, notified, counters>>

(* forgetMachine's transaction *)
ForgetMachine ==
    /\ lastSeen # Never /\ forgets < MaxForgets
    /\ lastSeen' = Never /\ rows' = {} /\ forgets' = forgets + 1
    /\ UNCHANGED <<clock, nextId, job, notified, started, crashes>>

(* the backend process dies: the table survives, the activations do not *)
Crash ==
    /\ crashes < MaxCrashes /\ crashes' = crashes + 1
    /\ job' = [h \in Handlers |-> NoJob]
    /\ UNCHANGED <<clock, lastSeen, rows, nextId, notified, started, forgets>>

Tick ==
    /\ clock < MaxTime /\ clock' = clock + 1
    /\ UNCHANGED <<lastSeen, rows, nextId, job, notified, counters>>
-----------------------------------------------------------------------------
(* the reports of one plugin instance about the sids it lists *)
Reports(sids) ==
    {[k \in Keys |-> IF k \in A THEN "active" ELSE "absent"] :
        A \in SUBSET {k \in Keys : SidOf[k] \in sids}}

Ingest(h) ==
    \E sids \in Scopes, tier \in Tiers : \E report \in Reports(sids) :
        StoreSnapshot(h, sids, report, tier)
Sweep(h) == \E idle \in BOOLEAN, tier \in Tiers : StartSweep(h, idle, tier)

(* the steps of a handler in flight *)
Step(h) ==
    \/ BeginReconcile(h)
    \/ \E k \in Keys : ClearReported(h, k) \/ Lookup(h, k) \/ Enqueue(h, k)
    \/ Create(h) \/ Fire(h) \/ Scan(h) \/ EndClear(h)
    \/ \E i \in job[h].doomed : DeleteDoomed(h, i)

Next ==
    \/ \E h \in Handlers : Ingest(h) \/ Sweep(h) \/ Step(h)
    \/ Touch \/ ForgetMachine \/ Crash \/ Tick

Spec == Init /\ [][Next]_vars
-----------------------------------------------------------------------------
Quiet == \A h \in Handlers : job[h].pc = "idle"

(* Nobody is notified early: a row carries a fire only if the episode it     *)
(* stands for had lasted the threshold of some tier when it fired, although  *)
(* the handler decided on a copy that others may have deleted and recreated. *)
NoEarlyFire ==
    \A r \in rows : r.fired # Never =>
        \E tier \in Tiers : r.fired - r.since >= Threshold[r.key][tier]

(* A live episode ends only by the word of its own session: a row disappears *)
(* in a handler step only if that handler's report covers the row's session  *)
(* and does not list the attention active.  (service.ts: "left untouched, no *)
(* clobber".)                                                                *)
ClearedByOwner ==
    [][\A r \in rows : (\A q \in rows' : q.id # r.id) =>
          \/ lastSeen' = Never
          \/ \E h \in Handlers : /\ job[h] # job'[h]
                                 /\ SidOf[r.key] \in job[h].sids
                                 /\ job[h].report[r.key] # "active"]_vars

(* The anti-spam window: within one episode a target fires at most once per  *)
(* cooldown, judged against the table at the moment of the fire.             *)
FiresInWindow ==
    \A h \in Handlers : \A k \in job'[h].fired \ job[h].fired :
        \A r \in RowsOf(k) : r.fired = Never \/ job[h].now - r.fired >= Cooldown[k]

(* When a handler ends its clearing pass, the rows of the sessions it covers *)
(* are exactly the attentions it was told are active, whatever the handlers  *)
(* of the other sessions and the sweep did meanwhile.                        *)
Reconciled ==
    \A h \in Handlers :
        job[h].pc = "enqueue" \/ (job[h].pc = "doomed" /\ job[h].doomed = {}) =>
            {r.key : r \in {q \in rows : SidOf[q.key] \in job[h].sids}} = Reported(job[h], "active")

(* A fired attention enqueues notifications (ingest/router.ts): with no      *)
(* handler in flight, every fire stamped in the table has its notification.  *)
FiredIsEnqueued ==
    Quiet => \A r \in rows : r.fired # Never => [key |-> r.key, at |-> r.fired] \in notified
=============================================================================
