------------------------------- MODULE Stream -------------------------------
(***************************************************************************)
(* What the pages of the website read, and how they learn that it changed  *)
(* (ADR-0008, ADR-0026): an account's machines in the backend, the event   *)
(* stream with its cap and its losses, the polling that stands in for it,  *)
(* and requests whose answers may arrive in another order.                 *)
(***************************************************************************)
EXTENDS Integers, Sequences, FiniteSets

CONSTANTS
    N,          \* machines, each with one Claude pane
    MaxStreams, \* MAX_SSE_PER_ACCOUNT
    MaxWire,    \* bounds the events in transit
    MaxFetches, \* bounds the requests of a kind in flight
    MaxEvents   \* bounds what the backend and the network do

ASSUME StreamAssumption ==
    /\ N \in Nat \ {0} /\ MaxStreams \in Nat \ {0} /\ MaxWire \in Nat \ {0}
    /\ MaxFetches \in Nat \ {0} /\ MaxEvents \in Nat

Machines == 1..N
Off == 0
Active == 1
Thinking == 2

VARIABLES
    page,     \* the page that is open, which does not change: dashboard or album
    rev,      \* how often each machine's data changed, 0 while it is not there
    there,    \* the machines of the account
    pane,     \* whether the machine's Claude pane is on the roster, and thinking
    attn,     \* how often the attentions changed
    others,   \* streams of the account's other tabs
    stream,   \* this page's EventSource
    wire,     \* events on their way to it
    fallback, \* whether the polling interval runs
    tried,    \* whether the first attempt to connect is over (history)
    fetches,  \* requests in flight
    status,   \* of the page: before /auth/me has answered, loading, anon, not-pro, ready
    excused,  \* what the page cannot be up to date with (history): machines, and 0 for the attentions
    events

serverVars == <<rev, there, pane, attn, others>>
streamVars == <<stream, wire, fallback, tried>>
pageVars == <<status, excused>>
sharedVars == <<page, serverVars, streamVars, pageVars, fetches, events>>

Snapshots == [Machines -> 0..(MaxEvents + 1)]
Fetch == [kind : {"me", "list", "detail", "attn", "roster"}, m : 0..N, n : 1..MaxFetches,
          done : BOOLEAN, at : 0..MaxEvents, answer : Snapshots]
StreamTypeOK ==
    /\ page \in {"dashboard", "album"}
    /\ rev \in Snapshots /\ there \subseteq Machines /\ attn \in 0..MaxEvents
    /\ pane \in [Machines -> {Off, Active, Thinking}]
    /\ others \in 0..MaxStreams /\ events \in 0..MaxEvents
    /\ stream \in {"off", "connecting", "subscribed", "open", "closed"}
    /\ wire \in Seq([event : {"machine.update", "attention.update"}, m : Machines])
    /\ Len(wire) <= MaxWire /\ fallback \in BOOLEAN /\ tried \in BOOLEAN /\ fetches \subseteq Fetch
    /\ status \in {"me", "loading", "anon", "not-pro", "ready"} /\ excused \subseteq 0..N

NoAnswer == [m \in Machines |-> 0]
CanSend(kind, m) == Cardinality({f \in fetches : f.kind = kind /\ f.m = m}) < MaxFetches
Sent(kind, m, n) ==
    [kind |-> kind, m |-> m, n |-> n, done |-> FALSE, at |-> 0, answer |-> NoAnswer]
New(kind, m) ==
    Sent(kind, m, CHOOSE n \in 1..MaxFetches : \A f \in fetches : f.kind = kind /\ f.m = m => f.n # n)
SendAll(rest, whats) == rest \cup {New(w[1], w[2]) : w \in whats}
MaySend(whats) == \A w \in whats : CanSend(w[1], w[2])

(* the first machine is there already *)
StreamInit ==
    /\ page \in {"dashboard", "album"}
    /\ rev = [m \in Machines |-> 0] /\ there = {1} /\ attn = 0
    /\ pane = [m \in Machines |-> IF m = 1 THEN Active ELSE Off]
    /\ others \in {0, MaxStreams}
    /\ stream = "off" /\ wire = <<>> /\ fallback = FALSE /\ tried = FALSE /\ events = 0
    /\ status = "me" /\ excused = 0..N /\ fetches = {Sent("me", 0, 1)}

Event == events < MaxEvents /\ events' = events + 1
Subscribed == stream \in {"subscribed", "open"}
-----------------------------------------------------------------------------
(* publish: to the listeners there are, nothing is kept for later; what was  *)
(* not announced to this page cannot be shown by it                          *)
Publish(e) == IF Subscribed THEN Append(wire, e) ELSE wire
Room == Len(wire) < MaxWire
Announce(e, what) ==
    /\ wire' = Publish(e)
    /\ excused' = IF Subscribed THEN excused \ what ELSE excused \cup what

Ingest(m, p) ==
    /\ Room /\ Event
    /\ rev' = [rev EXCEPT ![m] = @ + 1]
    /\ there' = there \cup {m}
    /\ pane' = [pane EXCEPT ![m] = p]
    /\ Announce([event |-> "machine.update", m |-> m], {m})
    /\ UNCHANGED <<attn, others, stream, fallback, tried, status, fetches>>

AttentionChanges(m) ==
    /\ m \in there /\ Room /\ Event
    /\ attn' = attn + 1
    /\ Announce([event |-> "attention.update", m |-> m], {0})
    /\ UNCHANGED <<rev, there, pane, others, stream, fallback, tried, status, fetches>>

(* forgetMachine, in another tab: it publishes nothing *)
Forget(m) ==
    /\ m \in there /\ Event
    /\ there' = there \ {m}
    /\ pane' = [pane EXCEPT ![m] = Off]
    /\ excused' = excused \cup {m}
    /\ UNCHANGED <<rev, attn, others, streamVars, status, fetches>>

OtherCloses ==
    /\ others > 0 /\ Event /\ others' = others - 1
    /\ UNCHANGED <<rev, there, pane, attn, streamVars, pageVars, fetches>>
-----------------------------------------------------------------------------
(* what the page does in onError *)
Error == TRUE

(* GET /stream: under the cap it subscribes, else 429, after which an *)
(* EventSource does not try again                                     *)
Connect ==
    /\ stream = "connecting"
    /\ IF others < MaxStreams
       THEN stream' = "subscribed" /\ UNCHANGED <<fallback, tried>>
       ELSE stream' = "closed" /\ fallback' = Error /\ tried' = TRUE
    /\ UNCHANGED <<serverVars, wire, pageVars, fetches, events>>

(* onOpen *)
Opened == FALSE
Open ==
    /\ stream = "subscribed"
    /\ stream' = "open" /\ fallback' = Opened /\ tried' = TRUE
    /\ UNCHANGED <<serverVars, wire, pageVars, fetches, events>>

(* onError: the connection is lost with what is on it, or cannot be made.  *)
(* The backend may take a while to see it.                                 *)
Lose(lingers) ==
    /\ stream \in {"connecting", "subscribed", "open"} /\ Event
    /\ lingers => Subscribed /\ others < MaxStreams
    /\ others' = IF lingers THEN others + 1 ELSE others
    /\ stream' = "connecting" /\ wire' = <<>> /\ fallback' = Error /\ tried' = TRUE
    /\ excused' = excused \cup {wire[i].m : i \in 1..Len(wire)} \cup
                    {0 : i \in {j \in 1..Len(wire) : wire[j].event = "attention.update"}}
    /\ UNCHANGED <<rev, there, pane, attn, status, fetches>>
-----------------------------------------------------------------------------
Of(m) == IF m \in there THEN rev[m] + 1 ELSE 0

(* the backend answers: machines with what is known of them, or the roster *)
Handle(f) ==
    /\ ~f.done
    /\ fetches' = (fetches \ {f}) \cup {[f EXCEPT !.done = TRUE,
         !.at = IF f.kind = "roster" THEN events ELSE 0, !.answer = [m \in Machines |->
         CASE f.kind = "list" -> Of(m)
           [] f.kind = "detail" -> IF m = f.m THEN Of(m) ELSE 0
           [] f.kind = "attn" -> attn
           [] f.kind = "roster" -> pane[m]
           [] OTHER -> 0]]}
    /\ UNCHANGED <<serverVars, streamVars, pageVars, events>>

ServerNext(panes) ==
    \/ \E m \in Machines :
         \/ \E p \in panes : Ingest(m, p)
         \/ AttentionChanges(m) \/ Forget(m)
    \/ OtherCloses \/ Connect \/ Open
    \/ \E lingers \in BOOLEAN : Lose(lingers)
-----------------------------------------------------------------------------
(* Once the first attempt to connect is over, a page polls exactly while its *)
(* stream is not open: it is neither cut off, nor loads everything twice,    *)
(* even when the cap turns it away for good.                                 *)
NeverBlind == tried => (fallback <=> stream # "open")
=============================================================================
