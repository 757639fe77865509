-------------------------------- MODULE Views --------------------------------
(***************************************************************************)
(* What the dashboard makes of its answers: the panes that count as Claude *)
(* (machineView.ts, against the roster of Spotlight, which is made by the  *)
(* backend), the badges of sessions (attn.ts, against the counts the       *)
(* backend puts on the cards) and the order of the cards.                  *)
(***************************************************************************)
EXTENDS Integers, FiniteSets, SequencesExt

CONSTANTS
    Sids,      \* the sessions of a machine
    Machines,  \* the machines of the account; ids are numbers, ordered
    Names,     \* their names, in order; 0 is a hidden one
    Bucket,    \* RECENT_BUCKET_MS, in ticks
    MaxClock,  \* bounds the clock
    MaxSent    \* bounds the deliveries of a notification


VARIABLES
    pane,   \* a pane of the machine's report
    attn,   \* its active attentions
    mode,   \* the order that is chosen
    seen,   \* the machines as the backend lists them, the last seen first
    active, \* the last change of a Claude pane of each: machineLastActiveMs
    name,   \* displayName
    needs,  \* attentionCount and thinkingCount of each, as one number
    cards,  \* the cards, as they are laid out
    clock,
    sent    \* the deliveries of a notification, as [channel, status]

viewsVars == <<pane, attn, mode, seen, active, name, needs, cards, clock, sent>>
-----------------------------------------------------------------------------
(* A pane as the plugin sees it, and as it reports it: an old plugin sends  *)
(* no verdict of its own, and a hidden name hides the command with it.      *)
Titles == {"sparkle", "spinner", "plain"}
Commands == {"null", "claude", "other"}
Verdicts == {"none", "claude", "other"}

hasClaudeMarker(title) == title \in {"sparkle", "spinner"}
Reported(title, command, footer, hidden, old) ==
    [name |-> IF hidden THEN "null" ELSE title,
     command |-> IF hidden THEN "null" ELSE command,
     claude |-> IF old THEN "none"
                ELSE IF hasClaudeMarker(title) \/ command = "claude" \/ footer THEN "claude" ELSE "other",
     exited |-> FALSE, state |-> "live"]

(* a session that can be resurrected has no panes *)
Dead == [name |-> "null", command |-> "null", claude |-> "none", exited |-> FALSE, state |-> "resurrectable"]

Report(title, command, footer, hidden, old, exited) ==
    /\ pane' = [Reported(title, command, footer, hidden, old) EXCEPT !.exited = exited]
    /\ UNCHANGED <<attn, mode, seen, active, name, needs, cards, clock, sent>>

Dies == pane' = Dead /\ pane # Dead /\ UNCHANGED <<attn, mode, seen, active, name, needs, cards, clock, sent>>

(* the roster's test: the verdict, or else the name and the command *)
isClaudePane(p) ==
    IF p.claude # "none" THEN p.claude = "claude" ELSE hasClaudeMarker(p.name) \/ p.command = "claude"
InRoster(p) == p.state = "live" /\ ~p.exited /\ isClaudePane(p)

(* the dashboard's, of filterSessionsToClaude *)
KeptByFilter(p) == p.state = "live" /\ (hasClaudeMarker(p.name) \/ p.command = "claude")
-----------------------------------------------------------------------------
(* Attentions: of a pane, of a session, or of the machine.                  *)
Machine == 0
Attentions ==
    [type : {"claude.needs-input", "claude.thinking", "session.detached", "session.stopped"}, sid : Sids]
    \cup [type : {"claude.idle", "machine.offline"}, sid : {Machine}]

Attend(a) ==
    /\ attn' = IF a \in attn THEN attn \ {a} ELSE attn \cup {a}
    /\ UNCHANGED <<pane, mode, seen, active, name, needs, cards, clock, sent>>

(* listMachines, getMachine: what the card says *)
Needing(a) == a.type \notin {"claude.thinking", "machine.offline"}
attentionCount == Cardinality({a \in attn : Needing(a)})

(* AttentionIndex: what the sessions' badges say *)
OfSession(s) == {a \in attn : a.sid = s /\ a.type \notin {"claude.idle", "claude.thinking"}}
sessionAttentions(s) == Cardinality(OfSession(s))
machineIdle == \E a \in attn : a.type = "claude.idle"
-----------------------------------------------------------------------------
Index(m, order) == CHOOSE i \in DOMAIN order : order[i] = m

(* the comparisons of sortMachines; equal machines keep the order they come in *)
Compared(md, m, k, act) ==
    CASE md = "name" -> name[m] # 0 /\ (name[k] = 0 \/ name[m] < name[k])
      [] md = "attention" -> needs'[m] > needs'[k]
      [] md = "recent" -> act[m] \div Bucket > act[k] \div Bucket

(* mutated form: a tie is broken by who was seen last *)
SeenLast(m, k) == FALSE
ById(m, k) == m < k
Before(md, m, k, act) ==
    \/ Compared(md, m, k, act)
    \/ ~Compared(md, k, m, act) /\ md = "recent" /\ ById(m, k)
Outranks(md, m, k, act, order) ==
    Before(md, m, k, act) \/ (~Before(md, k, m, act) /\ Index(m, order) < Index(k, order))
(* the machines, each once, in the order of the pairs R                      *)
InTurn(o, R) == \A i, j \in 1..Cardinality(Machines) : i < j => o[i] # o[j] /\ <<o[i], o[j]>> \in R
LaidOut(R) == CHOOSE o \in [1..Cardinality(Machines) -> Machines] : InTurn(o, R)
sortMachines(md, act, order) ==
    LaidOut({p \in Machines \X Machines : Outranks(md, p[1], p[2], act, order)})

(* The detail of a known machine is fetched again: t is when the last of its *)
(* Claude panes changed, which is now, or when it was before, or earlier when *)
(* that pane has gone. The list, with its order and its counts, stays.       *)
Hear(m, t) ==
    /\ active' = [active EXCEPT ![m] = t]
    /\ needs' = needs
    /\ cards' = sortMachines(mode, active', seen)
    /\ UNCHANGED <<pane, attn, mode, seen, name, clock, sent>>

(* The list is fetched again, while the page polls or for a machine it does  *)
(* not know: by now any of them may have been seen last, and need anything.  *)
Orders == {o \in [1..Cardinality(Machines) -> Machines] : ToSet(o) = Machines}
Relist ==
    /\ seen' \in Orders
    /\ needs' \in [Machines -> 0..1]
    /\ cards' = sortMachines(mode, active, seen')
    /\ UNCHANGED <<pane, attn, mode, active, name, clock, sent>>

Choose(md) ==
    /\ mode' = md /\ md # mode
    /\ needs' = needs
    /\ cards' = sortMachines(md, active, seen)
    /\ UNCHANGED <<pane, attn, seen, active, name, clock, sent>>

ViewsTick == clock < MaxClock /\ clock' = clock + 1
    /\ UNCHANGED <<pane, attn, mode, seen, active, name, needs, cards, sent>>

ViewsInit ==
    /\ pane = Dead /\ attn = {} /\ mode = "recent" /\ clock = 0 /\ sent = <<>>
    /\ seen = LaidOut({p \in Machines \X Machines : p[1] < p[2]})
    /\ active = [m \in Machines |-> 0] /\ needs = [m \in Machines |-> 0]
    /\ name \in [Machines -> Names]
    /\ cards = seen

(* A notification goes to every device and every linked account; its panel   *)
(* has one badge per channel, of the best of what became of its deliveries.  *)
Channels == {"webpush", "discord"}
Rank(st) == CASE st = "delivered" -> 3 [] st = "pending" -> 2 [] st = "failed" -> 1 [] st = "expired" -> 0 [] OTHER -> -1
betterStatus(prev, next) == IF Rank(next) > Rank(prev) THEN next ELSE prev
listRecentNotifications(c) ==
    LET best[i \in 0..Len(sent)] ==
          IF i = 0 THEN "none"
          ELSE LET prev == best[i - 1] IN
               IF sent[i].channel = c THEN betterStatus(prev, sent[i].status) ELSE prev
    IN  best[Len(sent)]

(* the panel's line of it: a badge per channel, or "not sent"                *)
ChannelBadge(c) == [channel |-> c, status |-> listRecentNotifications(c)]
SentNotifications ==
    LET badges == {b \in {ChannelBadge(c) : c \in Channels} : b.status # "none"}
    IN  [badges |-> badges, notSent |-> badges = {}]

Fan(c) ==
    /\ Len(sent) < MaxSent /\ sent' = Append(sent, [channel |-> c, status |-> "pending"])
    /\ UNCHANGED <<pane, attn, mode, seen, active, name, needs, cards, clock>>
Becomes(i, st) ==
    /\ sent[i].status = "pending" /\ sent' = [sent EXCEPT ![i].status = st]
    /\ UNCHANGED <<pane, attn, mode, seen, active, name, needs, cards, clock>>

SentNext ==
    \/ \E c \in Channels : Fan(c)
    \/ \E i \in DOMAIN sent, st \in {"delivered", "failed", "expired"} : Becomes(i, st)
ReportNext ==
    \/ \E title \in Titles, command \in Commands, footer, hidden, old, exited \in BOOLEAN :
         Report(title, command, footer, hidden, old, exited)
    \/ Dies
AttendNext == \E a \in Attentions : Attend(a)
CardsNext ==
    \/ \E m \in Machines, t \in 0..clock : Hear(m, t)
    \/ Relist
    \/ \E md \in {"recent", "name", "attention"} : Choose(md)
    \/ ViewsTick

ViewsTypeOK ==
    /\ pane \in [name : Titles \cup {"null"}, command : Commands, claude : Verdicts, exited : BOOLEAN,
                 state : {"live", "resurrectable"}]
    /\ attn \subseteq Attentions /\ mode \in {"recent", "name", "attention"}
    /\ sent \in Seq([channel : Channels, status : {"pending", "delivered", "failed", "expired"}])
    /\ {seen, cards} \subseteq Orders
    /\ active \in [Machines -> 0..MaxClock] /\ needs \in [Machines -> 0..1] /\ clock \in 0..MaxClock
-----------------------------------------------------------------------------
(* the badges of the sessions, each as many marks as its number              *)
Marks == {p \in Sids \X (1..Cardinality(attn)) : p[2] <= sessionAttentions(p[1])}

(* The two readings of a report agree where they can: a pane that the        *)
(* dashboard keeps as Claude's is in the roster of Spotlight unless it has    *)
(* exited, and the badges of a machine's sessions, with the one for silence,  *)
(* add up to the number on its card; a channel's badge says delivered if any  *)
(* of its deliveries was, and gives none up while one may still be.           *)
ReadingsAgree ==
    /\ KeptByFilter(pane) => pane.exited \/ InRoster(pane)
    /\ attentionCount = Cardinality(Marks) + (IF machineIdle THEN 1 ELSE 0)
    /\ SentNotifications.notSent = (sent = <<>>)
    /\ \A c \in Channels :
         LET of == {d.status : d \in {x \in ToSet(sent) : x.channel = c}}
             says == {b.status : b \in {x \in SentNotifications.badges : x.channel = c}}
         IN  /\ "delivered" \in of <=> says = {"delivered"}
             /\ "pending" \in of => says \subseteq {"delivered", "pending"}

(* Machines that only report do not change places: in the order of last use   *)
(* two cards swap only if a Claude pane of one of them has changed since.     *)
PlacesKept ==
    mode = "recent" /\ mode' = "recent" =>
       \A m, k \in Machines : (active'[m] = active[m] /\ active'[k] = active[k])
          => (Index(m, cards) < Index(k, cards) <=> Index(m, cards') < Index(k, cards'))
NoJitter == [][PlacesKept]_viewsVars
=============================================================================
