-------------------------------- MODULE Rows --------------------------------
(***************************************************************************)
(* The section of a machine on the dashboard: its sessions, tabs and panes, *)
(* the badges they carry, and how long ago each pane changed, which one    *)
(* shared timer keeps up to date (useNow.ts) when nothing else renders.    *)
(***************************************************************************)
EXTENDS Naturals, FiniteSets

CONSTANTS
    RowPanes,   \* panes, as <<session, number>>: a number is used in every session
    ClaudeOnes, \* those whose title says that they are Claude's
    FreshFor,   \* FRESH_SECONDS
    MaxTime, MaxEdits \* bounds the clock, and what machine and user do

VARIABLES
    session, \* of each session: "live", "resurrectable" or "gone"
    pane,    \* of each pane: "none", "running" or "exited"
    changed, \* when it was last seen to change, by the backend's clock, or Unseen
    alerts,  \* its active attentions, as [type, at]; at is a pane or <<session>>
    only,    \* the Claude-only filter
    mounted, \* is the page open?
    time,    \* the browser's clock
    ahead,   \* by how much the backend's is ahead of it
    timer,   \* is the interval of the shared clock running?
    due,     \* has it yet to fire, this second?
    nows,    \* what useNow last gave each of the components that use it
    edits

rowsVars == <<session, pane, changed, alerts, only, mounted, time, ahead, timer, due, nows, edits>>
-----------------------------------------------------------------------------
Unseen == MaxTime + 10
SessionsOf == {p[1] : p \in RowPanes}
InSession(s) == {p \in RowPanes : p[1] = s}

(* filterSessionsToClaude, or the sessions as they are *)
Kept(p) == pane[p] # "none" /\ (only => p \in ClaudeOnes)
RowsOf(s) == {p \in InSession(s) : Kept(p)}
Cards == {s \in SessionsOf : session[s] = "live" /\ (only => RowsOf(s) # {})}
Leaves == {s \in SessionsOf : session[s] = "resurrectable" /\ ~only}
OnPage == UNION {RowsOf(s) : s \in Cards}

(* what is said in place of an empty section *)
Message ==
    IF Cards \cup Leaves # {} THEN "none"
    ELSE IF only /\ \E s \in SessionsOf : session[s] # "gone" THEN "no Claude" ELSE "no sessions"

(* countsOf, by the backend, for the machine's card *)
countsOf == [sessions |-> Cardinality({s \in SessionsOf : session[s] # "gone"}),
             panes |-> Cardinality({p \in RowPanes : pane[p] # "none"})]

(* AttentionIndex *)
paneNeedsAttention(p) == \E a \in alerts : a.at = p /\ a.type = "needs-input"
paneThinking(p) == \E a \in alerts : a.at = p /\ a.type = "thinking"
sessionAttentions(s) == Cardinality({a \in alerts : a.at[1] = s /\ a.type # "thinking"})
sessionThinking(s) == \E a \in alerts : a.at[1] = s /\ a.type = "thinking"
-----------------------------------------------------------------------------
(* relativeAgo, in seconds *)
Ago(stamp, now) == IF now > stamp THEN now - stamp ELSE 0

(* paneActivity: what the last column of a row shows *)
paneActivity(p) ==
    LET ago == IF changed[p] = Unseen THEN Unseen ELSE Ago(changed[p], nows[p])
        as(kind) == [kind |-> kind, ago |-> ago]
    IN  IF pane[p] = "exited" THEN as("plain")
        ELSE IF paneThinking(p) THEN as("thinking")
        ELSE IF paneNeedsAttention(p) THEN as("quiet")
        ELSE IF ago = Unseen THEN as("unknown")
        ELSE IF ago <= FreshFor THEN as("fresh") ELSE as("plain")
-----------------------------------------------------------------------------
(* Clock.subscribe and its undoing, as the components come and go: the card *)
(* (<<0>>), the head of the section (<<0, 0>>), and the rows.                 *)
Renders ==
    LET users == IF mounted' THEN {<<0>>, <<0, 0>>} \cup OnPage' ELSE {}
        stay == users \cap DOMAIN nows
    IN
    /\ nows' = [u \in users |-> IF u \in stay THEN nows[u] ELSE time]
    /\ timer' = (users # {})
    /\ due' = (due /\ stay # {})

Edit == edits < MaxEdits /\ edits' = edits + 1

(* A report of the machine, of pane p: it is there or not, and has changed, which *)
(* shows only in a pane that was there before (deriveActivity)                *)
Report(p, as, moved) ==
    /\ Edit /\ session[p[1]] = "live" /\ (as # pane[p] \/ moved)
    /\ moved => pane[p] # "none" /\ as # "none"
    /\ pane' = [pane EXCEPT ![p] = as]
    /\ changed' = [changed EXCEPT ![p] = IF as = "none" THEN Unseen ELSE IF moved THEN time + ahead ELSE @]
    /\ UNCHANGED <<session, alerts, only, mounted, time, ahead>>
    /\ Renders

(* A session is killed, resurrected, or has aged out of the snapshots         *)
Becomes(s, what) ==
    /\ Edit /\ session[s] # what
    /\ session' = [session EXCEPT ![s] = what]
    /\ pane' = [p \in RowPanes |-> IF p[1] = s THEN "none" ELSE pane[p]]
    /\ changed' = [p \in RowPanes |-> IF p[1] = s THEN Unseen ELSE changed[p]]
    /\ UNCHANGED <<alerts, only, mounted, time, ahead>>
    /\ Renders

(* attention.update: the attentions are read apart from the snapshot           *)
Alert(a) ==
    /\ Edit /\ alerts' = IF a \in alerts THEN alerts \ {a} ELSE alerts \cup {a}
    /\ UNCHANGED <<session, pane, changed, only, mounted, time, ahead>>
    /\ Renders

Filter ==
    /\ Edit /\ only' = ~only
    /\ UNCHANGED <<session, pane, changed, alerts, mounted, time, ahead>>
    /\ Renders

Visit ==
    /\ Edit /\ mounted' = ~mounted
    /\ UNCHANGED <<session, pane, changed, alerts, only, time, ahead>>
    /\ Renders

(* setInterval: every subscriber reads the time *)
Fires ==
    /\ timer /\ due /\ due' = FALSE
    /\ nows' = [u \in DOMAIN nows |-> time]
    /\ UNCHANGED <<session, pane, changed, alerts, only, mounted, time, ahead, timer, edits>>

Second ==
    /\ ~due /\ time < MaxTime /\ time' = time + 1 /\ due' = timer
    /\ UNCHANGED <<session, pane, changed, alerts, only, mounted, ahead, timer, nows, edits>>

RowsInit ==
    /\ session = [s \in SessionsOf |-> "live"] /\ pane = [p \in RowPanes |-> "running"]
    /\ changed = [p \in RowPanes |-> Unseen] /\ alerts = {} /\ only = FALSE
    /\ mounted = FALSE /\ time = 0 /\ ahead \in 0..1 /\ timer = FALSE /\ due = FALSE
    /\ nows = [u \in {} |-> 0] /\ edits = 0

Alerts == [type : {"needs-input", "thinking"}, at : RowPanes] \cup [type : {"detached"}, at : {<<s>> : s \in SessionsOf}]
RowsNext ==
    \/ \E p \in RowPanes, as \in {"none", "running", "exited"}, moved \in BOOLEAN : Report(p, as, moved)
    \/ \E s \in SessionsOf, what \in {"live", "resurrectable", "gone"} : Becomes(s, what)
    \/ \E a \in Alerts : Alert(a)
    \/ Filter \/ Visit \/ Fires \/ Second
-----------------------------------------------------------------------------
(* The card counts what the section lists, and says why it lists nothing; a   *)
(* session's badges cover those of its panes; and what a row says of its      *)
(* pane's age is true to the second the timer takes and to the skew of the    *)
(* clocks, with the timer running exactly while somebody needs it.            *)
RowsHonest ==
    /\ ~only => /\ countsOf.sessions = Cardinality(Cards) + Cardinality(Leaves)
                /\ countsOf.panes = Cardinality(OnPage)
    /\ Message = "none" => Cards \cup Leaves # {}
    /\ \A s \in Cards :
         /\ Cardinality({p \in RowsOf(s) : paneNeedsAttention(p)}) <= sessionAttentions(s)
         /\ (\E p \in RowsOf(s) : paneThinking(p)) => sessionThinking(s)
    /\ timer = (DOMAIN nows # {}) /\ (mounted => OnPage \subseteq DOMAIN nows)
    /\ mounted => \A p \in OnPage :
         LET says == paneActivity(p)
             age == Ago(changed[p], time + ahead)
         IN  /\ (says.kind = "unknown") => changed[p] = Unseen
             /\ says.ago # Unseen => says.ago <= age /\ age <= says.ago + 1 + ahead
             /\ says.kind = "fresh" => age <= FreshFor + 1 + ahead
=============================================================================
