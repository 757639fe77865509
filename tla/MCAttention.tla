---------------------------- MODULE MCAttention ----------------------------
(* Small instances of Attention: sessions s1 and s2 with one pane each, and  *)
(* the machine scope; one clock unit is the pro threshold of needs-input.    *)
(* Either the handlers in flight are always of disjoint scopes, or they all  *)
(* may overlap, on one session, with crashes and forgets.                    *)
EXTENDS Attention, TLC
CONSTANTS h1, h2, s1, s2, machine, none, p1, p2, idle, off

MCKeys == {p1, p2, idle, off}
MCSidOf == [k \in Keys |-> CASE k = p1 -> s1 [] k = p2 -> s2 [] OTHER -> machine]
MCThreshold == [k \in Keys |-> [tier \in Tiers |->
    IF k \in {idle, off} THEN 0 ELSE IF tier = "pro" THEN 1 ELSE 2]]
MCCooldown == [k \in Keys |-> IF k \in {idle, off} THEN 9 ELSE 1]
(* both panes in the first session *)
TwoPanes == [k \in Keys |-> IF k \in {p1, p2} THEN s1 ELSE machine]
OneScope == {{s1}}
(* each instance reports its own session; that of s1 may list s2 as dead *)
TwoScopes == {{s1}, {s2}, {s1, s2}}
Symmetry == Permutations(Handlers)

VARIABLE apart  \* is a report reconciled before the next of its session, a sweep before the next?

Admitted ==
    \/ /\ apart /\ Disjoint'
       /\ crashes' = 0 /\ forgets' = 0
       /\ \A h \in Handlers : job'[h].pc # "idle" => job'[h].tier = "pro"
    \/ /\ ~apart /\ crashes' + forgets' <= 1
       /\ \A h \in Handlers : s2 \notin job'[h].sids
MCInit == Init /\ apart \in BOOLEAN
MCNext == Next /\ Admitted /\ UNCHANGED apart
MCSpec == MCInit /\ [][MCNext]_<<vars, apart>>
-----------------------------------------------------------------------------
(* Handlers of disjoint scopes leave exactly what was reported, and every    *)
(* fire stamped in the table has its notification, however they interleave.  *)
ReconciledApart == apart => Reconciled /\ FiredIsEnqueued

(* Handlers of disjoint scopes keep the anti-spam window: a target fires at  *)
(* most once per cooldown of its episode, judged when the fire is stamped.   *)
OncePerWindow == [][apart => FiresInWindow]_vars
=============================================================================
