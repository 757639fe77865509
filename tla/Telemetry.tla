----------------------------- MODULE Telemetry -----------------------------
(***************************************************************************)
(* What the backend knows of ONE machine: the rows the plugin instances of *)
(* its Zellij sessions write by ingest and keep alive by control polls,    *)
(* and the views made from them: the merged machine, the Spotlight roster  *)
(* and the sweep's verdict that every Claude has gone quiet.               *)
(*                                                                         *)
(* Timestamps are kept as ages, the time passed since, which saturate at   *)
(* Cap.  A POST is delivered or lost before the clock moves on; the plugin *)
(* never looks at its answer.  forgetMachine is one transaction of several *)
(* statements, so an ingest may commit between the first and the last.     *)
(***************************************************************************)
EXTENDS Integers, FiniteSets

CONSTANTS
    Sids, Panes,
    SidOf,            \* [Panes -> Sids]
    Marked,           \* panes whose title carries Claude's marker
    Verdict,          \* panes the plugin itself recognised as Claude
    Fingerprints,     \* contents a pane may show
    StaleAfter,       \* STALE_AFTER_MS
    Threshold,        \* idleThresholdSeconds of the account's tier
    Lookback,         \* OFFLINE_LOOKBACK_MS
    Cap,              \* where ages saturate
    MaxPosts,         \* POSTs in flight
    MaxChanges, MaxLifecycle, MaxForgets, MaxLosses,
    MaxEvents         \* changes, lifecycle events, forgets and losses together

ASSUME TelemetryAssumption ==
    /\ SidOf \in [Panes -> Sids]
    /\ Marked \subseteq Panes /\ Verdict \subseteq Panes
    /\ Fingerprints \subseteq Nat /\ Fingerprints # {} /\ Cap \in Nat
    /\ {StaleAfter, Threshold} \subseteq 1..Cap
    /\ Lookback \in Nat /\ StaleAfter < Lookback /\ Lookback <= Cap
    /\ {MaxPosts, MaxChanges, MaxLifecycle, MaxForgets, MaxLosses, MaxEvents} \subseteq Nat

VARIABLES
    live,     \* sessions that run, each with its plugin instance
    running,  \* panes whose process has not exited
    screen,   \* what each pane shows now
    changed,  \* age of the last change of each pane's screen
    listed,   \* [Sids -> the dead sessions its instance knows of]
    told,     \* the structure each instance last sent
    posts,    \* snapshots in flight
    lastSeen, \* age of Machine.lastSeenAt, or Never
    slice,    \* the Snapshot rows
    activity, \* the PaneActivity rows
    forget,   \* the forget transaction in progress: its doomed rows, or NoForget
    gone,     \* how long the machine has been forgotten (history)
    spent     \* counters of the bounded events

world == <<live, running, screen, changed, listed, told>>
tables == <<lastSeen, slice, activity>>
telemetryVars == <<world, posts, tables, forget, gone, spent>>

Never == -1
Absent == [state |-> "absent"]
NoForget == [on |-> FALSE, rows |-> {}]
Age == 0..Cap
PanesOf(s) == {p \in Panes : SidOf[p] = s}

Slice == [state : {"live", "resurrectable"}, panes : SUBSET Panes, age : Age]
Activity == [fp : [Panes -> Fingerprints \cup {Never}], at : [Panes -> Age \cup {Never}], age : Age]
Structure == [running : SUBSET Panes, dead : SUBSET Sids]
Post == [from : Sids, running : SUBSET Panes, screen : [Panes -> Fingerprints], dead : SUBSET Sids]
Kinds == {"change", "lifecycle", "forget", "loss"}

TelemetryTypeOK ==
    /\ live \subseteq Sids /\ running \subseteq Panes
    /\ screen \in [Panes -> Fingerprints] /\ changed \in [Panes -> Age]
    /\ listed \in [Sids -> SUBSET Sids]
    /\ told \in [Sids -> Structure \cup {Absent}]
    /\ posts \subseteq Post
    /\ lastSeen \in Age \cup {Never}
    /\ slice \in [Sids -> Slice \cup {Absent}]
    /\ activity \in [Sids -> Activity \cup {Absent}]
    /\ forget \in [on : BOOLEAN, rows : SUBSET Sids]
    /\ gone \in Age
    /\ spent \in [Kinds -> Nat]

TelemetryInit ==
    /\ live = Sids /\ running = Panes
    /\ screen = [p \in Panes |-> CHOOSE v \in Fingerprints : TRUE]
    /\ changed = [p \in Panes |-> 0]
    /\ listed = [s \in Sids |-> {}]
    /\ told = [s \in Sids |-> Absent] /\ posts = {} /\ lastSeen = Never
    /\ slice = [s \in Sids |-> Absent] /\ activity = [s \in Sids |-> Absent]
    /\ forget = NoForget /\ gone = 0
    /\ spent = [k \in Kinds |-> 0]

Spend(kind, max) ==
    /\ spent[kind] < max /\ spent["change"] + spent["lifecycle"] + spent["forget"] + spent["loss"] < MaxEvents
    /\ spent' = [spent EXCEPT ![kind] = @ + 1]
-----------------------------------------------------------------------------
(* The machine: panes print, processes exit, sessions die and come back.     *)
(* A screen shows nothing that is still held somewhere (hashes do not repeat)*)
Held(p) == {screen[p]} \cup {m.screen[p] : m \in posts}
             \cup {activity[s].fp[p] : s \in {q \in Sids : activity[q] # Absent}}

Change(p) ==
    /\ SidOf[p] \in live /\ p \in running
    /\ Spend("change", MaxChanges)
    /\ LET free == Fingerprints \ Held(p) IN
         free # {} /\ screen' = [screen EXCEPT ![p] = CHOOSE v \in free : TRUE]
    /\ changed' = [changed EXCEPT ![p] = 0]
    /\ UNCHANGED <<live, running, listed, told, posts, tables, forget, gone>>

Exit(p) ==
    /\ SidOf[p] \in live /\ p \in running /\ Spend("lifecycle", MaxLifecycle)
    /\ running' = running \ {p}
    /\ UNCHANGED <<live, screen, changed, listed, told, posts, tables, forget, gone>>

Kill(s) ==
    /\ s \in live /\ live # {s} /\ Spend("lifecycle", MaxLifecycle)
    /\ live' = live \ {s}
    /\ told' = [told EXCEPT ![s] = Absent]
    /\ UNCHANGED <<running, screen, changed, listed, posts, tables, forget, gone>>

Resurrect(s) ==
    /\ s \notin live /\ Spend("lifecycle", MaxLifecycle)
    /\ live' = live \cup {s} /\ listed' = [listed EXCEPT ![s] = {}] /\ told' = [told EXCEPT ![s] = Absent]
    /\ UNCHANGED <<running, screen, changed, posts, tables, forget, gone>>

(* SessionUpdate brings instance s the resurrectable sessions of the host *)
SessionUpdate(s) ==
    /\ s \in live /\ listed[s] # Sids \ live
    /\ listed' = [listed EXCEPT ![s] = Sids \ live]
    /\ UNCHANGED <<live, running, screen, changed, told, posts, tables, forget, gone, spent>>

(* The send gate lets a snapshot go: its own session, then the dead ones *)
(* mutated form: the dead sessions are left out *)
StructureNoDead(s) == [running |-> running \cap PanesOf(s), dead |-> {}]
StructureOf(s) == [running |-> running \cap PanesOf(s), dead |-> listed[s]]
Send(s) ==
    LET m == [from |-> s, running |-> StructureOf(s).running, screen |-> screen,
              dead |-> StructureOf(s).dead]
    IN
    /\ s \in live /\ m \notin posts /\ Cardinality(posts) < MaxPosts
    /\ posts' = posts \cup {m}
    /\ told' = [told EXCEPT ![s] = StructureOf(s)]
    /\ UNCHANGED <<live, running, screen, changed, listed, tables, forget, gone, spent>>

Lose(m) ==
    /\ m \in posts /\ Spend("loss", MaxLosses)
    /\ posts' = posts \ {m}
    /\ UNCHANGED <<world, tables, forget, gone>>
-----------------------------------------------------------------------------
(* deriveActivity, pane by pane: unknown at first sight, stamped on a change *)
(* mutated form: only the first sight is stamped *)
StampedOnce(before, fp) ==
    IF before.fp = Never THEN [fp |-> fp, at |-> 0] ELSE [before EXCEPT !.fp = fp]
Stamped(before, fp) ==
    IF before.fp = Never THEN [fp |-> fp, at |-> Never]
    ELSE IF before.fp # fp THEN [fp |-> fp, at |-> 0] ELSE before

deriveActivity(prev, panes, fps) ==
    LET before(p) == IF prev = Absent THEN [fp |-> Never, at |-> Never]
                                      ELSE [fp |-> prev.fp[p], at |-> prev.at[p]]
        after(p) == IF p \in panes THEN Stamped(before(p), fps[p]) ELSE [fp |-> Never, at |-> Never]
    IN [fp |-> [p \in Panes |-> after(p).fp], at |-> [p \in Panes |-> after(p).at], age |-> 0]

(* storeSnapshot: the machine is registered or seen, one row per session *)
storeSnapshot(m) ==
    LET sids == {m.from} \cup m.dead
        panes(s) == IF s = m.from THEN PanesOf(s) ELSE {}
    IN
    /\ lastSeen' = 0
    /\ slice' = [s \in Sids |->
         IF s \notin sids THEN slice[s]
         ELSE [state |-> IF s = m.from THEN "live" ELSE "resurrectable",
               panes |-> IF s = m.from THEN m.running ELSE {}, age |-> 0]]
    /\ activity' = [s \in Sids |->
         IF s \in sids THEN deriveActivity(activity[s], panes(s), m.screen) ELSE activity[s]]

(* POST /ingest commits.  A row the forget has deleted makes it wait. *)
Ingest(m) ==
    /\ m \in posts /\ ({m.from} \cup m.dead) \cap forget.rows = {}
    /\ storeSnapshot(m)
    /\ posts' = posts \ {m}
    /\ UNCHANGED <<world, forget, gone, spent>>

(* It holds the machine row the forget needs next: the database breaks the   *)
(* deadlock, and either the ingest fails or the forget is rolled back.       *)
Deadlock(m) ==
    /\ m \in posts /\ ({m.from} \cup m.dead) \cap forget.rows # {}
    /\ \/ forget' = NoForget /\ UNCHANGED <<posts, spent>>
       \/ posts' = posts \ {m} /\ Spend("loss", MaxLosses) /\ UNCHANGED forget
    /\ UNCHANGED <<world, tables, gone>>

(* mutated form: the poll is not refused when the machine is unknown *)
Unguarded == TRUE
Owned == lastSeen # Never

(* POST /control of instance s: the liveness touch of the sids it lists *)
Control(s) ==
    LET sids == {s} \cup listed[s] IN
    /\ s \in live /\ Owned /\ sids \cap forget.rows = {}
    /\ lastSeen' = IF lastSeen = Never THEN Never ELSE 0
    /\ slice' = [q \in Sids |-> IF q \in sids /\ slice[q] # Absent THEN [slice[q] EXCEPT !.age = 0] ELSE slice[q]]
    /\ activity' = [q \in Sids |-> IF q \in sids /\ activity[q] # Absent THEN [activity[q] EXCEPT !.age = 0] ELSE activity[q]]
    /\ UNCHANGED <<world, posts, forget, gone, spent>>

(* DELETE /machines/:id: the rows first, the machine last *)
ForgetRows ==
    /\ Owned /\ ~forget.on /\ Spend("forget", MaxForgets)
    /\ forget' = [on |-> TRUE, rows |-> {s \in Sids : slice[s] # Absent}]
    /\ UNCHANGED <<world, posts, tables, gone>>

ForgetMachine ==
    /\ forget.on
    /\ lastSeen' = Never /\ forget' = NoForget /\ gone' = 0
    /\ slice' = [s \in Sids |-> IF s \in forget.rows THEN Absent ELSE slice[s]]
    /\ activity' = [s \in Sids |-> IF s \in forget.rows THEN Absent ELSE activity[s]]
    /\ UNCHANGED <<world, posts, spent>>
-----------------------------------------------------------------------------
(* The reads: only rows inside the staleness window *)
Fresh(row) == row # Absent /\ row.age < StaleAfter

(* mergeSlices: the sessions of the machine's view, and the panes in it *)
View == {s \in Sids : Fresh(slice[s])}
Shown == UNION {slice[s].panes : s \in View}

isClaudePane(p) == p \in Verdict \/ p \in Marked

UpdatedAt(p) == IF Fresh(activity[SidOf[p]]) THEN activity[SidOf[p]].at[p] ELSE Never

(* activeClaudeSessions *)
Roster == {p \in Shown : isClaudePane(p) /\ slice[SidOf[p]].state = "live"}

(* computeMachineIdle over watchedPaneKeys *)
watchedPaneKeys == {p \in Shown : isClaudePane(p)}
computeMachineIdle ==
    /\ watchedPaneKeys # {}
    /\ \A p \in watchedPaneKeys : UpdatedAt(p) # Never /\ UpdatedAt(p) >= Threshold

(* one pass of the sweep: the machine-level attentions it reports active, and *)
(* hands to the episode engine (Attention!StartSweep)                         *)
sweepMachineAttentions ==
    LET offline == lastSeen > StaleAfter IN
    IF lastSeen = Never \/ lastSeen >= Lookback THEN {}
    ELSE {a \in {"claude.idle", "machine.offline"} :
            IF a = "machine.offline" THEN offline ELSE ~offline /\ computeMachineIdle}

Older(a) == IF a = Never \/ a = Cap THEN a ELSE a + 1
Aged(row) == IF row = Absent THEN row ELSE [row EXCEPT !.age = Older(@)]

(* A unit of time passes: the rows being deleted are not locked for that     *)
(* long, SessionUpdates come every second, and a change of structure is sent *)
(* within the debounce (SendGate!OnsetPrompt).                               *)
TimePasses ==
    /\ posts = {} /\ ~forget.on
    /\ \A s \in live : listed[s] = Sids \ live /\ told[s] = StructureOf(s)
    /\ changed' = [p \in Panes |-> Older(changed[p])]
    /\ lastSeen' = Older(lastSeen)
    /\ slice' = [s \in Sids |-> Aged(slice[s])]
    /\ activity' = [s \in Sids |->
         IF activity[s] = Absent THEN Absent
         ELSE [Aged(activity[s]) EXCEPT !.at = [p \in Panes |-> Older(activity[s].at[p])]]]
    /\ gone' = IF lastSeen = Never THEN Older(gone) ELSE 0
    /\ UNCHANGED <<live, running, screen, listed, told, posts, forget, spent>>
-----------------------------------------------------------------------------
TelemetryNext ==
    \/ \E p \in Panes : Change(p) \/ Exit(p)
    \/ \E s \in Sids : Kill(s) \/ Resurrect(s) \/ SessionUpdate(s) \/ Send(s) \/ Control(s)
    \/ \E m \in posts : Lose(m) \/ Ingest(m) \/ Deadlock(m)
    \/ ForgetRows \/ ForgetMachine \/ TimePasses

(* The host delivers its events; a forget's statements run; an instance sends *)
(* again and again (SendGate!SilenceBounded), and a POST that is tried again  *)
(* and again arrives.                                                         *)
Fairness ==
    /\ WF_telemetryVars(ForgetMachine)
    /\ \A s \in Sids :
         /\ WF_telemetryVars(SessionUpdate(s)) /\ SF_telemetryVars(Send(s)) /\ WF_telemetryVars(Control(s))
         /\ SF_telemetryVars(\E m \in posts : m.from = s /\ Ingest(m))

TelemetrySpec == TelemetryInit /\ [][TelemetryNext]_telemetryVars
FairSpec == TelemetrySpec /\ Fairness
-----------------------------------------------------------------------------
(* The rows of session s say what the machine shows. *)
Informed(s) ==
    /\ s \in View /\ slice[s].state = "live"
    /\ slice[s].panes = running \cap PanesOf(s)
    /\ Fresh(activity[s]) /\ \A p \in slice[s].panes : activity[s].fp[p] = screen[p]

(* claude.idle means silence (ADR-0027): a sweep reports it only if no Claude *)
(* that runs in a session the backend is informed of has printed anything     *)
(* within the threshold, whatever was forgotten, lost, overtaken or           *)
(* overwritten by another instance on the way.                                *)
IdleIsSilence ==
    "claude.idle" \in sweepMachineAttentions =>
        \A p \in (Marked \cup Verdict) \cap running :
            SidOf[p] \in live /\ Informed(SidOf[p]) => changed[p] >= Threshold

(* A forgotten machine leaves every view: rows an ingest committed in the    *)
(* middle of the forget outlive it, but nothing refreshes them.              *)
ForgottenFades == lastSeen = Never /\ gone >= StaleAfter => View = {}

(* Once the machine stops changing, what the views show of a session comes   *)
(* to be right and stays so: its running panes if it lives, no pane if not,  *)
(* although POSTs were lost unnoticed and instances disagree about who died; *)
(* and Spotlight's roster offers no Claude that is not running.              *)
Right(s) ==
    s \in View => slice[s].panes = IF s \in live THEN running \cap PanesOf(s) ELSE {}
Running(p) == p \in running /\ SidOf[p] \in live
Converges == <>[]((\A s \in Sids : Right(s)) /\ (\A p \in Roster : Running(p)))
=============================================================================
