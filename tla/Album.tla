-------------------------------- MODULE Album --------------------------------
(***************************************************************************)
(* The Spotlight page (ADR-0016): the album of Claude sessions that every  *)
(* roster is merged into, the pings of the stream that are throttled to    *)
(* one fetch a second, and the photo of the album that is on view.         *)
(***************************************************************************)
EXTENDS Stream

VARIABLES
    album,       \* the entries, in the order in which they are laid out
    index,       \* which of the visible ones is on view, from 0
    runningOnly,
    throttle,    \* whether the timer of the last fetch still runs
    queued,      \* whether a ping came meanwhile
    shownAt      \* how old the last roster was (history)

albumVars == <<album, index, runningOnly, throttle, queued, shownAt>>

Entry == [m : Machines, completed : BOOLEAN, thinking : BOOLEAN, lastFrame : BOOLEAN]
AlbumTypeOK ==
    /\ StreamTypeOK
    /\ album \in Seq(Entry) /\ Len(album) <= N
    /\ index \in Nat /\ runningOnly \in BOOLEAN
    /\ throttle \in BOOLEAN /\ queued \in BOOLEAN /\ shownAt \in 0..MaxEvents

AlbumInit ==
    /\ album = <<>> /\ index = 0 /\ runningOnly \in BOOLEAN
    /\ throttle = FALSE /\ queued = FALSE /\ shownAt = 0
-----------------------------------------------------------------------------
(* the elements of s at the positions P, in their order: what filter returns *)
InOrder(P) ==
    CHOOSE f \in [1..Cardinality(P) -> P] : \A i, j \in 1..Cardinality(P) : i < j => f[i] < f[j]
At(s, P) == [k \in 1..Cardinality(P) |-> s[InOrder(P)[k]]]

Fresh(m, roster) == [m |-> m, completed |-> FALSE, thinking |-> roster[m] = Thinking, lastFrame |-> FALSE]
Refreshed(e, roster) ==
    IF roster[e.m] = Off THEN [e EXCEPT !.completed = TRUE]
    ELSE [e EXCEPT !.completed = FALSE, !.thinking = roster[e.m] = Thinking]

(* the panes of the roster that the album lacks, in the order given *)
Appended(prev, roster, order) ==
    LET lacks(m) == roster[m] # Off /\ \A i \in 1..Len(prev) : prev[i].m # m
        new == At(order, {i \in Machines : lacks(order[i])})
    IN  [i \in 1..Len(new) |-> Fresh(new[i], roster)]

reconcileAlbum(prev, roster, order) ==
    [i \in 1..Len(prev) |-> Refreshed(prev[i], roster)] \o Appended(prev, roster, order)

Running(entries) == {i \in 1..Len(entries) : entries[i].thinking /\ ~entries[i].completed}
filterRunning(entries) == At(entries, Running(entries))
clearCompleted(entries) == At(entries, {i \in 1..Len(entries) : ~entries[i].completed})
Visible(entries, only) == IF only THEN filterRunning(entries) ELSE entries

(* the effect that keeps the index valid when the visible album shrinks *)
(* mutated form: there is none *)
NotClamped(i, n) == i
Clamped(i, n) == IF i >= n THEN (IF n = 0 THEN 0 ELSE n - 1) ELSE i
Show(entries, only) ==
    /\ album' = entries /\ runningOnly' = only
    /\ index' = Clamped(index, Len(Visible(entries, only)))
-----------------------------------------------------------------------------
AlbumMe(f, ok) ==
    /\ f.kind = "me" /\ f.done
    /\ status' \in (IF ok THEN {"loading"} ELSE {"anon", "ready"})
    /\ fetches' = IF ok THEN {New("roster", 0)} ELSE {}
    /\ stream' = IF status' = "ready" THEN "connecting" ELSE stream
    /\ UNCHANGED <<serverVars, wire, fallback, tried, excused, albumVars, events>>

Orders == {o \in [Machines -> Machines] : \A m \in Machines : \E i \in Machines : o[i] = m}

(* The first roster is laid out most recent first, the later ones by their  *)
(* keys.  An account that is not PRO gets the upgrade screen.               *)
RosterArrives(f, pro) ==
    /\ f.kind = "roster" /\ f.done
    /\ fetches' = fetches \ {f}
    /\ IF status = "loading" /\ ~pro
       THEN status' = "not-pro" /\ UNCHANGED <<streamVars, excused, albumVars>>
       ELSE /\ \E order \in Orders :
                 /\ status = "ready" => \A i \in Machines : order[i] = i
                 /\ Show(reconcileAlbum(album, f.answer, order), runningOnly)
            /\ shownAt' = f.at
            /\ excused' = CASE f.at < shownAt -> excused \cup Machines
                            [] f.at = events -> excused \ Machines
                            [] OTHER -> excused
            /\ status' = "ready"
            /\ stream' = IF status = "loading" THEN "connecting" ELSE stream
            /\ UNCHANGED <<wire, fallback, tried, throttle, queued>>
    /\ UNCHANGED <<serverVars, events>>

RosterFails(f) ==
    /\ f.kind = "roster" /\ Event
    /\ fetches' = fetches \ {f}
    /\ excused' = excused \cup Machines
    /\ status' = "ready"
    /\ stream' = IF status = "loading" THEN "connecting" ELSE stream
    /\ UNCHANGED <<serverVars, wire, fallback, tried, albumVars>>

(* fire *)
Queues == TRUE
Fire ==
    IF throttle THEN queued' = Queues /\ UNCHANGED <<fetches, throttle>>
    ELSE /\ CanSend("roster", 0)
         /\ fetches' = SendAll(fetches, {<<"roster", 0>>})
         /\ throttle' = TRUE /\ UNCHANGED queued

Ping ==
    /\ status = "ready" /\ stream = "open" /\ wire # <<>>
    /\ wire' = Tail(wire) /\ Fire
    /\ UNCHANGED <<serverVars, stream, fallback, tried, pageVars, album, index, runningOnly, shownAt, events>>

ThrottleEnds ==
    /\ throttle
    /\ IF queued THEN /\ CanSend("roster", 0)
                      /\ fetches' = SendAll(fetches, {<<"roster", 0>>})
                      /\ queued' = FALSE /\ UNCHANGED throttle
       ELSE throttle' = FALSE /\ UNCHANGED <<queued, fetches>>
    /\ UNCHANGED <<serverVars, streamVars, pageVars, album, index, runningOnly, shownAt, events>>

AlbumPoll ==
    /\ status = "ready" /\ fallback /\ CanSend("roster", 0) /\ Event
    /\ fetches' = SendAll(fetches, {<<"roster", 0>>})
    /\ UNCHANGED <<serverVars, streamVars, pageVars, albumVars>>

(* the user: the arrows, the keys and the dots, the filter, the button *)
Flip ==
    /\ status = "ready"
    /\ \E i \in 0..(Len(Visible(album, runningOnly)) - 1) : index' = i
    /\ UNCHANGED <<sharedVars, album, runningOnly, throttle, queued, shownAt>>

ToggleRunning ==
    /\ status = "ready" /\ Show(album, ~runningOnly)
    /\ UNCHANGED <<sharedVars, throttle, queued, shownAt>>

ClearCompleted ==
    /\ status = "ready" /\ \E i \in 1..Len(album) : album[i].completed
    /\ Show(clearCompleted(album), runningOnly)
    /\ UNCHANGED <<sharedVars, throttle, queued, shownAt>>

(* onFrame: output of the photo on view *)
onFrame ==
    LET shown == Visible(album, runningOnly) IN
    /\ index < Len(shown) /\ ~shown[index + 1].completed /\ ~shown[index + 1].lastFrame
    /\ album' = [i \in 1..Len(album) |->
         IF album[i].m = shown[index + 1].m THEN [album[i] EXCEPT !.lastFrame = TRUE] ELSE album[i]]
    /\ UNCHANGED <<sharedVars, index, runningOnly, throttle, queued, shownAt>>

AlbumNext ==
    \/ ServerNext({Off, Active, Thinking}) /\ UNCHANGED albumVars
    \/ Ping \/ ThrottleEnds \/ AlbumPoll \/ Flip \/ ToggleRunning \/ ClearCompleted \/ onFrame
    \/ \E f \in fetches :
         \/ Handle(f) /\ UNCHANGED albumVars
         \/ RosterFails(f)
         \/ \E yes \in BOOLEAN : AlbumMe(f, yes) \/ RosterArrives(f, yes)
-----------------------------------------------------------------------------
(* An album whose stream is open, with no ping, timer or roster outstanding, *)
(* shows exactly the sessions that run, thinking or not, and the rest as     *)
(* completed: the throttle loses no ping, apart from what happened while the *)
(* page was cut off and what a late roster put back.                         *)
AlbumCaughtUp ==
    (page = "album" /\ status = "ready" /\ stream = "open" /\ wire = <<>> /\ fetches = {} /\ ~queued) =>
        \A m \in Machines \ excused :
            /\ pane[m] # Off => \E i \in 1..Len(album) : album[i].m = m
            /\ \A i \in 1..Len(album) : album[i].m = m =>
                 /\ album[i].completed <=> pane[m] = Off
                 /\ pane[m] # Off => (album[i].thinking <=> pane[m] = Thinking)

(* The photo on view is one of those that are visible.                       *)
OnView == Len(Visible(album, runningOnly)) > 0 => index < Len(Visible(album, runningOnly))

(* Photos never move, and keep the last frame they showed; one leaves the    *)
(* album only when it has completed and the user clears it.                  *)
PhotosKept ==
    LET stays(e) == \E i \in 1..Len(album') : album'[i].m = e.m
        kept == At(album, {i \in 1..Len(album) : stays(album[i])})
    IN  /\ \A i \in 1..Len(kept) :
             album'[i].m = kept[i].m /\ (kept[i].lastFrame => album'[i].lastFrame)
        /\ \A i \in 1..Len(album) : ~stays(album[i]) => album[i].completed /\ fetches' = fetches
PhotosStay == [][PhotosKept]_album
=============================================================================
