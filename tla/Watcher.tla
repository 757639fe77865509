------------------------------ MODULE Watcher ------------------------------
(***************************************************************************)
(* What one plugin instance says of its own session: the settings in force *)
(* and what they redact (ADR-0002), the sampling of panes and its detectors*)
(* (ADR-0025, ADR-0054), the cache of coloured renders (ADR-0016), the     *)
(* debug log (ADR-0049), and, in front of them, the send gate.             *)
(*                                                                         *)
(* Zellij tells titles and panes in SessionUpdates, some time after they   *)
(* changed; a screen is read live at every tick.  The numbers of a text do *)
(* not matter to the detectors, so a screen is one of a few looks, and     *)
(* whatever is written there changes its fingerprint.                      *)
(***************************************************************************)
EXTENDS SendGate, FiniteSets

CONSTANTS
    Panes,
    Raws,       \* the settings a user may write, as they are written
    StaleTicks, \* THINKING_STALE_TICKS
    MaxEvents   \* what happens around the plugin

(* A title begins with a marker of Claude Code or not; a screen shows a shell, *)
(* a question, a turn in flight or the idle prompt, in one of two versions.    *)
Titles == {"plain", "sparkle", "spinner"}
Looks == {"shell", "question", "turn", "prompt"}
Screen == [look : Looks, version : {0, 1}]
None == "none"
Unseen == [look |-> "unseen", version |-> 0]

(* what a snapshot tells: its structure, and the contents of the panes *)
Structure ==
    [machine : {None, "hostname", "alias"}, panes : SUBSET Panes,
     attentions : SUBSET ({<<"detached", None>>} \cup {"needs-input", "thinking"} \X Panes),
     claude : SUBSET Panes, session : {None, "session"},
     titles : UNION {[open -> Titles \cup {None}] : open \in SUBSET Panes}]
Alerting == {s \in Structure : s.attentions # {}}
Empty == [structure |-> [machine |-> None, panes |-> {}, attentions |-> {}, claude |-> {},
                         session |-> None, titles |-> <<>>],
          content |-> [fingerprints |-> <<>>, active |-> FALSE]]

(* attentions, the freshness of each Claude pane, and that of the machine *)
Log == [attentions : SUBSET ({<<"detached", None>>} \cup {"needs-input", "thinking"} \X Panes),
        claude : UNION {[shown -> BOOLEAN] : shown \in SUBSET Panes}, machine : {None, "active", "idle"}]
NewLog == [attentions |-> {}, claude |-> [p \in {} |-> TRUE], machine |-> None]

VARIABLES
    world,  \* the session as it is: screens, titles, open panes, attached clients
    known,  \* host.live: the session as the last SessionUpdate told it
    seen,   \* PaneActivity: the fingerprint of each pane and when it changed (0: never)
    raw,    \* the settings as the user wrote them
    cache,  \* OutputCache: the panes with a coloured render
    reports,\* render reports that wait for the plugin
    told,   \* DebugState: what the debug log spoke of last
    heard,  \* ... and what a reader of the log believes in (history)
    events, touched \* how much happened; when each pane was written to, when anything else changed (history)

vars == <<gateVars, world, known, seen, raw, cache, reports, told, heard, events, touched>>
-----------------------------------------------------------------------------
(* parse_config, field by field; what is invalid fails closed *)
(* mutated form: what is invalid counts as not written *)
NameOpen(full, value) == value = "send" \/ (value \in {None, "bad"} /\ full)
parseFull(value) == value \in {None, "on"}
resolveName(full, value) == value = "send" \/ (value = None /\ full)
resolveMachine(full, value) ==
    CASE value = None -> IF full THEN "real" ELSE "hidden"
      [] value \in {"real", "alias", "hidden"} -> value
      [] value \in {"alias:", "bad"} -> "hidden"
switchedOn(value) == value = "on"

Config ==
    LET full == parseFull(raw.full) IN
    [names   |-> resolveName(full, raw.names),
     machine |-> resolveMachine(full, raw.machine),
     output  |-> switchedOn(raw.output),
     hostname|-> switchedOn(raw.hostname),
     debug   |-> switchedOn(raw.debug)]
wantsHostname == Config.hostname /\ Config.machine = "real"

(* privacy.rs *)
machineIdentity ==
    CASE Config.machine = "real"   -> IF wantsHostname THEN "hostname" ELSE None
      [] Config.machine = "alias"  -> "alias"
      [] Config.machine = "hidden" -> None
nameToWire(name) == IF Config.names THEN name ELSE None
-----------------------------------------------------------------------------
(* attentions.rs: what a title and the tail of a screen show *)
hasClaudeMarker(title) == title \in {"sparkle", "spinner"}
isThinkingMarker(title) == title = "spinner"
lastLineIsPrompt(screen) == screen.look = "question"
tailShowsTurnInFlight(screen) == screen.look = "turn"
isClaudeContent(screen) == screen.look \in {"turn", "prompt"}

(* the scrollback of a pane that is closed already cannot be read *)
Scrollback(p) == IF p \in world.open THEN world.screen[p] ELSE [look |-> "gone", version |-> 0]
IsClaude(p) == hasClaudeMarker(known.title[p]) \/ isClaudeContent(Scrollback(p))

(* PaneActivity::observe and retain *)
Observe(p) ==
    CASE seen[p].screen = Unseen -> [screen |-> Scrollback(p), changed |-> 0]
      [] seen[p].screen # Unseen /\ seen[p].screen # Scrollback(p) -> [screen |-> Scrollback(p), changed |-> wall']
      [] OTHER -> seen[p]
Observed == [p \in Panes |-> IF p \in known.open THEN Observe(p) ELSE [screen |-> Unseen, changed |-> 0]]
Fresh(p) == Observed[p].changed # 0 /\ wall' - Observed[p].changed < StaleTicks

(* the detectors: a question wins over thinking *)
TurnInFlight(p) == isThinkingMarker(known.title[p]) \/ tailShowsTurnInFlight(Scrollback(p))
(* mutated form: thinking wins *)
DetectedThinkingFirst(p) ==
    IF Fresh(p) /\ TurnInFlight(p) THEN {"thinking"}
    ELSE IF lastLineIsPrompt(Scrollback(p)) THEN {"needs-input"} ELSE {}
Detected(p) ==
    IF lastLineIsPrompt(Scrollback(p)) THEN {"needs-input"}
    ELSE IF Fresh(p) /\ TurnInFlight(p) THEN {"thinking"} ELSE {}
Attentions ==
    {<<"detached", None>> : d \in {TRUE} \cap {~known.attached}}
    \cup UNION {{<<kind, p>> : kind \in Detected(p)} : p \in {q \in known.open : IsClaude(q)}}

(* build_snapshot_observed and change_signature: what a POST would tell *)
Snapshot ==
    [structure |-> [machine |-> machineIdentity, panes |-> known.open, attentions |-> Attentions,
                    claude |-> {p \in known.open : IsClaude(p)},
                    session |-> nameToWire("session"),
                    titles  |-> [p \in known.open |-> nameToWire(known.title[p])]],
     content   |-> [fingerprints |-> [p \in known.open |-> Scrollback(p)],
                    active |-> \E p \in known.open : IsClaude(p) /\ Fresh(p)]]
-----------------------------------------------------------------------------
LongAgo == -(StaleTicks + OnsetDebounce)   \* long before the plugin was loaded

TypeOK ==
    /\ world \in [screen : [Panes -> Screen], title : [Panes -> Titles], open : SUBSET Panes, attached : BOOLEAN]
    /\ known \in [title : [Panes -> Titles], open : SUBSET Panes, attached : BOOLEAN]
    /\ seen \in [Panes -> [screen : [look : Looks \cup {"gone", "unseen"}, version : {0, 1}], changed : 0..wall]]
    /\ raw \in Raws
    /\ cache \subseteq Panes /\ reports \subseteq Panes
    /\ {told, heard} \subseteq Log
    /\ {sample.structure, gate.last.structure} \subseteq Structure
    /\ events \in 0..MaxEvents /\ touched \in [Panes \cup {None} -> {LongAgo} \cup 0..wall]

Init ==
    /\ world \in [screen : [Panes -> {[look |-> "shell", version |-> 0]}], title : [Panes -> {"plain", "spinner"}],
                  open : {Panes}, attached : {TRUE}]
    /\ known = [title |-> world.title, open |-> Panes, attached |-> TRUE]
    /\ seen = [p \in Panes |-> [screen |-> Unseen, changed |-> 0]]
    /\ raw \in Raws
    /\ cache = {} /\ reports = {} /\ told = NewLog /\ heard = NewLog
    /\ events = 0 /\ touched = [p \in Panes \cup {None} |-> IF p = None THEN 0 ELSE LongAgo]
    /\ wall = 0 /\ since = 0
    /\ sample = Empty
    /\ gate = [sent |-> FALSE, last |-> sample, at |-> 0, watched |-> FALSE, force |-> FALSE,
               heartbeat |-> HeartbeatDefault]

Event == events < MaxEvents /\ events' = events + 1
Touch(what) == touched' = [touched EXCEPT ![what] = wall]

(* around the plugin: a pane prints, and Zellij reports the render of it *)
Writes(p, look) ==
    /\ p \in world.open /\ Event /\ Touch(p)
    /\ world' = [world EXCEPT !.screen[p] = [look |-> look, version |-> 1 - @.version]]
    /\ reports' = IF Config.output THEN reports \cup {p} ELSE reports
    /\ UNCHANGED <<gateVars, known, seen, raw, cache, told, heard>>
Retitles(p, title) ==
    /\ p \in world.open /\ world.title[p] # title /\ Event
    /\ world' = [world EXCEPT !.title[p] = title]
    /\ UNCHANGED <<gateVars, known, seen, raw, cache, reports, told, heard, touched>>
Closes(p) ==
    /\ p \in world.open /\ Event /\ Touch(p)
    /\ world' = [world EXCEPT !.open = @ \ {p}]
    /\ UNCHANGED <<gateVars, known, seen, raw, cache, reports, told, heard>>
Attaches ==
    /\ Event
    /\ world' = [world EXCEPT !.attached = ~@]
    /\ UNCHANGED <<gateVars, known, seen, raw, cache, reports, told, heard, touched>>

(* Event::SessionUpdate *)
SessionUpdate ==
    /\ known # [title |-> world.title, open |-> world.open, attached |-> world.attached]
    /\ known' = [title |-> world.title, open |-> world.open, attached |-> world.attached]
    /\ cache' = cache \cap world.open
    /\ Touch(None)
    /\ UNCHANGED <<gateVars, world, seen, raw, reports, told, heard, events>>

(* Event::PaneRenderReportWithAnsi, maybe after the plugin unsubscribed *)
Recorded(p) == IF Config.output THEN {p} ELSE {}
PaneRenderReport(p) ==
    /\ p \in reports
    /\ reports' = reports \ {p}
    /\ cache' = cache \cup Recorded(p)
    /\ UNCHANGED <<gateVars, world, known, seen, raw, told, heard, events, touched>>

(* sync_output_subscription: what is left of the cache *)
Shares(new) == IF switchedOn(new.output) THEN cache ELSE {}

(* Event::PluginConfigurationChanged *)
PluginConfigurationChanged(new) ==
    /\ new # raw /\ Event /\ Touch(None)
    /\ raw' = new
    /\ cache' = Shares(new)
    /\ UNCHANGED <<gateVars, world, known, seen, reports, told, heard>>

(* DebugState::tick_lines: what it remembers, and the lines about what has    *)
(* changed: attentions, Claude panes seen, fresh or gone, and the machine     *)
Picture ==
    LET claude == {p \in known.open : IsClaude(p)} IN
    [attentions |-> Attentions,
     claude |-> [p \in claude |-> Fresh(p)],
     machine |-> IF claude = {} THEN None ELSE IF \E p \in claude : Fresh(p) THEN "active" ELSE "idle"]
attentionLines(now) ==
    {<<"onset", a>> : a \in now.attentions \ told.attentions}
    \cup {<<"cleared", a>> : a \in told.attentions \ now.attentions}
claudeLines(now) ==
    LET was == DOMAIN told.claude is == DOMAIN now.claude IN
    {<<"seen", p, now.claude[p]>> : p \in {q \in is : q \in was => told.claude[q] # now.claude[q]}}
    \cup {<<"gone", p>> : p \in was \ is}
machineLine(now) == {<<"machine", m>> : m \in {now.machine} \ {told.machine}}
tickLines(now) == attentionLines(now) \cup claudeLines(now) \cup machineLine(now)

(* what the log amounts to for its reader *)
Replayed(lines) ==
    LET named(what) == {l[2] : l \in {k \in lines : k[1] = what}}
        seenNow == {l \in lines : l[1] = "seen"}
    IN
    [attentions |-> (heard.attentions \ named("cleared")) \cup named("onset"),
     claude |-> [p \in (DOMAIN heard.claude \ named("gone")) \cup named("seen") |->
                   IF p \in named("seen") THEN (CHOOSE l \in seenNow : l[2] = p)[3] ELSE heard.claude[p]],
     machine |-> IF named("machine") = {} THEN heard.machine ELSE CHOOSE m \in named("machine") : TRUE]

(* telemetry_tick *)
TelemetryTick ==
    /\ Tick(Snapshot)
    /\ seen' = Observed
    /\ IF Config.debug
       THEN told' = Picture /\ heard' = Replayed(tickLines(Picture))
       ELSE UNCHANGED <<told, heard>>
    /\ UNCHANGED <<world, known, raw, cache, reports, events, touched>>

(* a control response *)
ControlResponse(watched, secs, refresh) ==
    /\ Event /\ Hurry(watched, secs, refresh)
    /\ UNCHANGED <<world, known, seen, raw, cache, reports, told, heard, touched>>

Next ==
    \/ \E p \in Panes :
         \/ \E look \in Looks : Writes(p, look)
         \/ \E title \in Titles : Retitles(p, title)
         \/ Closes(p) \/ PaneRenderReport(p)
    \/ Attaches \/ SessionUpdate
    \/ \E new \in Raws : PluginConfigurationChanged(new)
    \/ TelemetryTick
    \/ \E watched, refresh \in BOOLEAN, secs \in Prices : ControlResponse(watched, secs, refresh)

Spec == Init /\ [][Next]_vars
-----------------------------------------------------------------------------
Tells(attention) == gate.sent /\ attention \in gate.last.structure.attentions

(* A finished turn is not told as thinking for long: what the backend heard  *)
(* last calls a pane thinking only if that pane printed, or closed, in the   *)
(* last few ticks, whatever frozen spinner its title still shows and however late     *)
(* Zellij tells it, and never because the plugin has just begun to look.     *)
ThinkingFades ==
    \A p \in Panes : Tells(<<"thinking", p>>) => wall - touched[p] < StaleTicks + OnsetDebounce

(* A question reaches the backend: once a known Claude pane has shown it for *)
(* longer than the debounce, the last snapshot sent asks for input, even if  *)
(* the pane was busy a moment before.                                        *)
QuestionHeard ==
    \A p \in known.open \cap world.open :
        (/\ gate.sent
         /\ hasClaudeMarker(known.title[p]) /\ lastLineIsPrompt(world.screen[p])
         /\ wall - touched[p] >= OnsetDebounce /\ wall - touched[None] >= OnsetDebounce)
            => Tells(<<"needs-input", p>>)

(* What the user wrote, read without the parser: a name may leave only if    *)
(* its key says so, or the key is absent and the baseline allows everything. *)
Allows(value, open) == value = open \/ (value = None /\ raw.full \in {None, "on"})
HiddenSoon ==
    gate.sent /\ wall - touched[None] >= OnsetDebounce =>
        /\ gate.last.structure.session # None => Allows(raw.names, "send")
        /\ \A p \in DOMAIN gate.last.structure.titles :
              gate.last.structure.titles[p] # None => Allows(raw.names, "send")
        /\ gate.last.structure.machine = "hostname" => Allows(raw.machine, "real") /\ raw.hostname = "on"

(* While sharing is off no coloured render is kept, even if Zellij delivers  *)
(* a report that it queued before the plugin unsubscribed.                   *)
NothingKept == raw.output # "on" => cache = {}

(* The debug log is complete: whoever replays its lines knows the attentions *)
(* of the last tick, which panes were Claude's, and whether any of them was   *)
(* at work, although logging pauses and resumes.                              *)
LogReplays ==
    Config.debug /\ wall > touched[None] =>
        /\ heard.attentions = sample.structure.attentions
        /\ DOMAIN heard.claude = sample.structure.claude
        /\ (heard.machine = "active") <=> sample.content.active
        /\ (\E p \in DOMAIN heard.claude : heard.claude[p]) <=> sample.content.active
=============================================================================
