---------------------------- MODULE MCTelemetry ----------------------------
(* Two sessions with one Claude pane each: one known by its title, one by    *)
(* its content only.  A unit of time is 60 s: stale after one, idle after    *)
(* one (the paid tier's threshold), dropped from the sweep after three.      *)
(* Either POSTs overtake each other, with two events besides; or there is    *)
(* one at a time, with three.                                                *)
EXTENDS Telemetry
CONSTANTS s1, s2, p1, p2
MCSessions == {s1, s2}
MCPanes == {p1, p2}
MCSidOf == [p \in {p1, p2} |-> IF p = p1 THEN s1 ELSE s2]
MCMarked == {p1}
MCVerdict == {p1, p2}

VARIABLE overtaking
MCInit == TelemetryInit /\ overtaking \in BOOLEAN
MCNext ==
    /\ TelemetryNext /\ UNCHANGED overtaking
    /\ IF overtaking
       THEN spent'["change"] + spent'["lifecycle"] + spent'["forget"] + spent'["loss"] < MaxEvents
       ELSE Cardinality(posts') <= 1
MCSpec == MCInit /\ [][MCNext]_<<telemetryVars, overtaking>> /\ Fairness
=============================================================================
