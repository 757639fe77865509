----------------------------- MODULE Dashboard -----------------------------
(***************************************************************************)
(* The dashboard page: the initial load, the details of each machine, and  *)
(* what an event or a tick of the polling interval fetches again.  Answers *)
(* are applied in the order in which they arrive.                          *)
(***************************************************************************)
EXTENDS Stream

VARIABLES
    cards,   \* the machines of the list, as the list knew them
    details, \* the detail of each machine
    feed     \* the attentions

dashVars == <<cards, details, feed>>

DashTypeOK ==
    /\ StreamTypeOK
    /\ cards \in Snapshots /\ details \in Snapshots /\ feed \in 0..MaxEvents

DashInit ==
    cards = NoAnswer /\ details = NoAnswer /\ feed = 0

Known == {m \in Machines : cards[m] # 0}

(* the first load is over when all its requests are *)
Settled(rest) == status = "loading" /\ rest = {}
Settle(rest) ==
    /\ status' = IF Settled(rest) THEN "ready" ELSE status
    /\ stream' = IF Settled(rest) THEN "connecting" ELSE stream
    /\ UNCHANGED <<wire, fallback, tried>>

MeArrives(f, ok) ==
    /\ f.kind = "me" /\ f.done
    /\ IF ok THEN status' = "loading" /\ fetches' = {New("list", 0)} /\ UNCHANGED stream
       ELSE status' \in {"anon", "ready"} /\ fetches' = {}
            /\ stream' = IF status' = "ready" THEN "connecting" ELSE stream
    /\ UNCHANGED <<serverVars, wire, fallback, tried, cards, details, feed, excused, events>>

(* loadList: the list replaces the old one, and everything is fetched again *)
ListArrives(f) ==
    LET whats == {<<"detail", m>> : m \in {k \in Machines : f.answer[k] # 0}} \cup {<<"attn", 0>>} IN
    /\ f.kind = "list" /\ f.done /\ MaySend(whats)
    /\ cards' = f.answer
    /\ excused' = excused \cup {m \in Machines : f.answer[m] = 0 /\ (cards[m] # 0 \/ details[m] # 0)}
    /\ fetches' = SendAll(fetches \ {f}, whats)
    /\ UNCHANGED <<serverVars, streamVars, status, details, feed, events>>

(* loadMachine: a 404 leaves what is shown *)
DetailArrives(f) ==
    /\ f.kind = "detail" /\ f.done
    /\ details' = IF f.answer[f.m] = 0 THEN details ELSE [details EXCEPT ![f.m] = f.answer[f.m]]
    /\ excused' = IF f.answer[f.m] < details[f.m] \/ f.answer[f.m] = 0 THEN excused \cup {f.m}
                  ELSE IF f.answer[f.m] = Of(f.m) /\ f.m \in Known THEN excused \ {f.m} ELSE excused
    /\ fetches' = fetches \ {f}
    /\ Settle(fetches \ {f})
    /\ UNCHANGED <<serverVars, cards, feed, events>>

AttentionsArrive(f) ==
    /\ f.kind = "attn" /\ f.done
    /\ feed' = f.answer[1]
    /\ excused' = IF f.answer[1] < feed THEN excused \cup {0}
                  ELSE IF f.answer[1] = attn THEN excused \ {0} ELSE excused
    /\ fetches' = fetches \ {f}
    /\ Settle(fetches \ {f})
    /\ UNCHANGED <<serverVars, cards, details, events>>

(* a request that fails is dropped; a later event or tick asks again *)
FetchFails(f) ==
    /\ f.kind # "me" /\ Event
    /\ fetches' = fetches \ {f}
    /\ excused' = excused \cup (CASE f.kind = "detail" -> {f.m} [] f.kind = "attn" -> {0} [] OTHER -> 0..N)
    /\ IF status = "loading" /\ f.kind = "list"
       THEN status' = "ready" /\ stream' = "connecting" /\ UNCHANGED <<wire, fallback, tried>>
       ELSE Settle(fetches \ {f})
    /\ UNCHANGED <<serverVars, cards, details, feed>>

(* what an event makes the page fetch *)
Wants(e) ==
    IF e.event = "attention.update" THEN {<<"attn", 0>>, <<"detail", e.m>>}
    ELSE IF e.m \in Known THEN {<<"detail", e.m>>} ELSE {<<"list", 0>>}

Receive ==
    /\ status = "ready" /\ stream = "open" /\ wire # <<>> /\ MaySend(Wants(wire[1]))
    /\ fetches' = SendAll(fetches, Wants(wire[1]))
    /\ wire' = Tail(wire)
    /\ UNCHANGED <<serverVars, stream, fallback, tried, pageVars, dashVars, events>>

Poll ==
    /\ status = "ready" /\ fallback /\ CanSend("list", 0) /\ Event
    /\ fetches' = SendAll(fetches, {<<"list", 0>>})
    /\ UNCHANGED <<serverVars, streamVars, pageVars, dashVars>>

DashNext ==
    \/ ServerNext({Active}) /\ UNCHANGED dashVars
    \/ Receive \/ Poll
    \/ \E f \in fetches :
         \/ Handle(f) /\ UNCHANGED dashVars
         \/ \E ok \in BOOLEAN : MeArrives(f, ok)
         \/ ListArrives(f) \/ DetailArrives(f) \/ AttentionsArrive(f) \/ FetchFails(f)
-----------------------------------------------------------------------------
(* A page whose stream is open, that has handled every event and has every   *)
(* answer, shows each machine of the account with its latest data, and the   *)
(* latest attentions: apart from what happened while it was cut off, what it *)
(* failed to fetch, and what a late answer put back, no change is missed.    *)
CaughtUp ==
    (page = "dashboard" /\ status = "ready" /\ stream = "open" /\ wire = <<>> /\ fetches = {}) =>
        /\ \A m \in there \ excused : m \in Known /\ details[m] = Of(m)
        /\ 0 \notin excused => feed = attn

=============================================================================
