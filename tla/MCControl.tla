----------------------------- MODULE MCControl -----------------------------
(* The control channel of one plugin, or the pane output that it carries:    *)
(* one of the two at a time, as they share nothing but whether an output     *)
(* request is pending, which Control leaves open.                            *)
EXTENDS Control, TLC

CONSTANTS p1, p2, tree, x, v1, v2, d1,
          Viewers, Slots, Pro, TTL, Window, Retention, MaxTime, MaxLosses

ASSUME OutputAssumption ==
    /\ IsFiniteSet(Viewers) /\ Pro \in BOOLEAN
    /\ {TTL, Window, Retention, MaxTime, MaxLosses} \subseteq Nat

VARIABLES clock, machine, rows, held, start, viewer, told, delivery, purging,
          gesture, stored, crossed, bounces, forgets,
          part

P == INSTANCE PaneOutput WITH restarts <- bounces
output == <<clock, machine, rows, held, start, viewer, told, delivery, purging,
            gesture, stored, crossed, bounces, forgets>>

Symmetry == Permutations(Polls) \cup Permutations(Viewers)

MCInit ==
    /\ part \in {"control", "output"} /\ Init /\ P!Init
    /\ part = "output" => long /\ lastSeen = 0
MCNext ==
    /\ UNCHANGED part
    /\ \/ part = "control" /\ Next /\ UNCHANGED output
       \/ part = "output" /\ P!Next /\ UNCHANGED vars
MCSpec == MCInit /\ [][MCNext]_<<vars, output, part>>
-----------------------------------------------------------------------------
(* The request table does not grow, and memory holds one capture at most.    *)
RowsBounded == P!TypeOK /\ P!RowsBounded

(* A fulfilled request has its frame until the frame's retention is over.    *)
FulfilledHasFrame == P!FulfilledHasFrame

(* No automatic request of a free account is let through later than Window   *)
(* after a human gesture.                                                    *)
AutoWithinWindow == P!AutoWithinWindow
=============================================================================
