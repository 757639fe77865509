--------------------------- MODULE ControlProofs ---------------------------
(***************************************************************************)
(* Theorems about the send gate and the control channel, for every number  *)
(* of poll slots and every choice of the intervals: the gate is never      *)
(* silent and sends onsets promptly, the plugin's part of the channel      *)
(* implements it, a long poll is never re-issued early, a machine whose    *)
(* polls arrive never looks stale, and a click on the refresh button is    *)
(* answered in time.  About the pane output: the request table stays       *)
(* small, a fulfilled request has its frame, and the window of a free      *)
(* account is enforced.                                                    *)
(***************************************************************************)
EXTENDS MCControl, FiniteSetTheorems, TLAPS

(* set_heartbeat_secs stays within the clamp, whatever a backend asks for. *)
LEMMA ClampedInRange ==
    ASSUME NEW secs \in Nat
    PROVE  Clamped(secs) \in HeartbeatMin..HeartbeatMax
BY GateAssumption DEF Clamped

LEMMA HurriedIsGate ==
    ASSUME gate \in Gate, NEW watched \in BOOLEAN, NEW secs \in Prices, NEW refresh \in BOOLEAN
    PROVE  Hurried(gate, watched, secs, refresh) \in Gate
<1>1. secs # Unpriced => Clamped(secs) \in HeartbeatMin..HeartbeatMax
  BY ClampedInRange, GateAssumption DEF Prices
<1>2. (gate.force \/ (watched /\ ~gate.watched) \/ refresh) \in BOOLEAN
  OBVIOUS
<1> QED BY <1>1, <1>2 DEF Hurried, Gate

LEMMA InitType == GateInit => GateTypeOK
BY GateAssumption DEF GateInit, GateTypeOK, Gate, Signature

LEMMA TickType ==
    ASSUME GateTypeOK, NEW sig \in Signature, Tick(sig)
    PROVE  GateTypeOK'
<1>1. wall \in Nat /\ wall < MaxWall /\ wall' = wall + 1 /\ since \in 0..MaxWall
  BY GateAssumption DEF GateTypeOK, Tick
<1>2. wall' \in 0..MaxWall /\ since' \in 0..MaxWall
  BY <1>1, GateAssumption DEF Tick
<1>3. gate' \in Gate
  <2>1. CASE Decide(sig)
    <3>1. gate' = Sent(sig) /\ wall' \in Nat
      BY <2>1, <1>1 DEF Tick
    <3> QED BY <3>1 DEF Sent, Gate, GateTypeOK
  <2>2. CASE ~Decide(sig)
    BY <2>2 DEF Tick, GateTypeOK
  <2> QED BY <2>1, <2>2
<1> QED BY <1>2, <1>3 DEF GateTypeOK, Tick

LEMMA NextType ==
    ASSUME GateTypeOK, [GateNext]_gateVars
    PROVE  GateTypeOK'
<1>1. ASSUME NEW sig \in Signature, Tick(sig) PROVE GateTypeOK'
  BY <1>1, TickType
<1>2. ASSUME NEW watched \in BOOLEAN, NEW refresh \in BOOLEAN, NEW secs \in Prices,
             Hurry(watched, secs, refresh)
      PROVE  GateTypeOK'
  <2>1. gate' \in Gate
    BY <1>2, HurriedIsGate, GateAssumption DEF Hurry, GateTypeOK
  <2> QED BY <1>2, <2>1 DEF Hurry, GateTypeOK
<1>3. CASE UNCHANGED gateVars
  BY <1>3 DEF GateTypeOK, gateVars
<1> QED BY <1>1, <1>2, <1>3 DEF GateNext

(* Type correctness; in particular the heartbeat in force never leaves the   *)
(* clamp's range.                                                            *)
THEOREM GateTypeCorrect == GateSpec => []GateTypeOK
<1>1. GateInit => GateTypeOK
  BY InitType
<1>2. GateTypeOK /\ [GateNext]_gateVars => GateTypeOK'
  BY NextType
<1> QED BY <1>1, <1>2, PTL DEF GateSpec

(* The heartbeat in force may be lowered at any time, so silence is bounded  *)
(* by the clamp and not by the heartbeat in force: that is inductive.        *)
LEMMA SilenceStep ==
    ASSUME GateTypeOK, SilenceBounded, [GateNext]_gateVars
    PROVE  SilenceBounded'
<1>1. wall \in Nat /\ gate.at \in Nat /\ gate.sent \in BOOLEAN
      /\ gate.heartbeat \in HeartbeatMin..HeartbeatMax /\ HeartbeatMax \in Nat \ {0}
      /\ HeartbeatMin \in Nat
  BY GateAssumption DEF GateTypeOK, Gate
<1>2. ASSUME NEW sig \in Signature, Tick(sig) PROVE SilenceBounded'
  <2>1. CASE Decide(sig)
    <3>1. gate' = Sent(sig) /\ wall' = wall + 1
      BY <1>2, <2>1 DEF Tick
    <3>2. gate'.at = wall'
      BY <3>1 DEF Sent, GateTypeOK, Gate
    <3> QED BY <3>1, <3>2, <1>1 DEF SilenceBounded
  <2>2. CASE ~Decide(sig)
    <3>1. gate' = gate /\ wall' = wall + 1 /\ ~(wall' - gate.at >= gate.heartbeat)
      BY <1>2, <2>2 DEF Tick, Decide, Heartbeat, Elapsed
    <3> QED BY <3>1, <1>1 DEF SilenceBounded
  <2> QED BY <2>1, <2>2
<1>3. ASSUME NEW watched \in BOOLEAN, NEW refresh \in BOOLEAN, NEW secs \in Prices,
             Hurry(watched, secs, refresh)
      PROVE  SilenceBounded'
  <2>1. gate'.at = gate.at /\ gate'.sent = gate.sent /\ wall' = wall
    BY <1>3 DEF Hurry, Hurried, GateTypeOK, Gate
  <2> QED BY <2>1 DEF SilenceBounded
<1>4. CASE UNCHANGED gateVars
  BY <1>4 DEF SilenceBounded, gateVars
<1> QED BY <1>2, <1>3, <1>4 DEF GateNext

(* Once it has sent, the plugin is never silent for HeartbeatMax ticks       *)
(* (ADR-0051), however and whenever a backend changes the interval.          *)
THEOREM NeverSilent == GateSpec => []SilenceBounded
<1>1. GateInit => SilenceBounded
  BY DEF GateInit, SilenceBounded
<1>2. GateTypeOK /\ SilenceBounded /\ [GateNext]_gateVars => SilenceBounded'
  BY SilenceStep
<1> QED BY <1>1, <1>2, GateTypeCorrect, PTL DEF GateSpec

(* OnsetPrompt is not inductive: that the unsent structure appeared after    *)
(* the last send has to be carried along.                                    *)
Unsent == gate.sent /\ gate.last.structure # sample.structure
OnsetInv ==
    /\ gate.at <= wall
    /\ Unsent => gate.at < since /\ wall - gate.at < OnsetDebounce

LEMMA OnsetStep ==
    ASSUME GateTypeOK, OnsetInv, [GateNext]_gateVars
    PROVE  OnsetInv'
<1>1. wall \in Nat /\ gate.at \in Nat /\ gate.sent \in BOOLEAN /\ since \in Nat
      /\ OnsetDebounce \in Nat /\ sample \in Signature /\ gate.last \in Signature
  BY GateAssumption DEF GateTypeOK, Gate
<1>2. ASSUME NEW sig \in Signature, Tick(sig) PROVE OnsetInv'
  <2>1. CASE Decide(sig)
    <3>1. gate' = Sent(sig) /\ sample' = sig /\ wall' = wall + 1
      BY <1>2, <2>1 DEF Tick
    <3>2. gate'.last = sig /\ gate'.at = wall'
      BY <3>1 DEF Sent, GateTypeOK, Gate
    <3> QED BY <3>1, <3>2, <1>1 DEF OnsetInv, Unsent
  <2>2. CASE ~Decide(sig)
    <3>1. gate' = gate /\ wall' = wall + 1 /\ sample' = sig /\ gate.sent
          /\ ~(gate.last.structure # sig.structure /\ wall' - gate.at >= OnsetDebounce)
      BY <1>2, <2>2 DEF Tick, Decide, First, Notable, Elapsed
    <3>0. gate'.at <= wall'
      BY <3>1, <1>1 DEF OnsetInv
    <3> SUFFICES ASSUME gate.last.structure # sig.structure
                 PROVE  gate.at < since' /\ wall' - gate.at < OnsetDebounce
      BY <3>0, <3>1 DEF OnsetInv, Unsent
    <3>2. wall' - gate.at < OnsetDebounce
      BY <3>1, <1>1
    <3>3. CASE sig.structure = sample.structure
      BY <3>1, <3>2, <3>3, <1>2 DEF OnsetInv, Unsent, Tick
    <3>4. CASE sig.structure # sample.structure
      <4>1. since' = wall + 1
        BY <3>4, <1>2 DEF Tick
      <4>2. gate.at <= wall
        BY DEF OnsetInv
      <4> QED BY <4>1, <4>2, <3>2, <1>1
    <3> QED BY <3>3, <3>4
  <2> QED BY <2>1, <2>2
<1>3. ASSUME NEW watched \in BOOLEAN, NEW refresh \in BOOLEAN, NEW secs \in Prices,
             Hurry(watched, secs, refresh)
      PROVE  OnsetInv'
  <2>1. gate'.at = gate.at /\ gate'.sent = gate.sent /\ gate'.last = gate.last
    BY <1>3 DEF Hurry, Hurried, GateTypeOK, Gate
  <2> QED BY <2>1, <1>3 DEF OnsetInv, Unsent, Hurry
<1>4. CASE UNCHANGED gateVars
  BY <1>4 DEF OnsetInv, Unsent, gateVars
<1> QED BY <1>2, <1>3, <1>4 DEF GateNext

(* An attention that starts or ends is on the wire within the debounce,      *)
(* whatever was sent just before, and however often the tree changes back.   *)
THEOREM OnsetsPrompt == GateSpec => []OnsetPrompt
<1>1. GateInit => OnsetInv
  BY DEF GateInit, OnsetInv, Unsent
<1>2. GateTypeOK /\ OnsetInv /\ [GateNext]_gateVars => OnsetInv'
  BY OnsetStep
<1>3. GateTypeOK /\ OnsetInv => OnsetPrompt
  <2> SUFFICES ASSUME GateTypeOK, OnsetInv, gate.sent, gate.last.structure # sample.structure
               PROVE  wall - since < OnsetDebounce - 1
    BY DEF OnsetPrompt
  <2>1. wall \in Nat /\ gate.at \in Nat /\ since \in Nat /\ OnsetDebounce \in Nat
    BY GateAssumption DEF GateTypeOK, Gate
  <2> QED BY <2>1 DEF OnsetInv, Unsent
<1> QED BY <1>1, <1>2, <1>3, GateTypeCorrect, PTL DEF GateSpec
-----------------------------------------------------------------------------

(* A poll the backend has taken up, and an answer, carry a real interval. *)
Priced == \A p \in Polls : poll[p].pc \in {"compute", "read", "parked"} \/ poll[p].ok =>
                              poll[p].secs \in Intervals

(* How long after it was issued the current leg of a poll may have begun. *)
Slack(q) == CASE q.pc = "parked" -> Lag
              [] q.pc # "parked" /\ (q.pc = "back" \/ q.again) -> Lag + Hold
              [] OTHER -> 0

Timed(q) == /\ wall - q.from <= (IF q.pc = "parked" THEN Hold ELSE Lag)
            /\ q.from - issued <= Slack(q)

Lone == long => \A p \in Outstanding :
            inflight /\ Timed(poll[p]) /\ \A o \in Outstanding : o = p

TypeInv == TypeOK /\ refreshSeq <= clicks /\ missed <= faults
-----------------------------------------------------------------------------
LEMMA Numbers ==
    ASSUME TypeOK
    PROVE  /\ wall \in Nat /\ issued \in Nat /\ Lag \in Nat /\ Hold \in Nat /\ Watchdog \in Nat
           /\ \A p \in Polls : poll[p] \in Poll /\ poll[p].from \in Nat
           /\ Hold + 2 * Lag < Watchdog
<1>1. \A p \in Polls : poll[p] \in Poll /\ poll[p].from \in Nat
  BY GateAssumption DEF TypeOK, Poll
<1> QED BY <1>1, ControlAssumption, GateAssumption DEF TypeOK, GateTypeOK

LEMMA NoPollType == NoPoll \in Poll
BY GateAssumption, ControlAssumption DEF NoPoll, Poll

LEMMA ReleaseType ==
    ASSUME TypeOK, NEW ps \in SUBSET Polls
    PROVE  Release(ps) \in [Polls -> Poll]
<1> SUFFICES ASSUME NEW p \in Polls
             PROVE  (IF p \in ps /\ At(p, "parked")
                     THEN [poll[p] EXCEPT !.pc = "compute", !.again = TRUE, !.from = wall]
                     ELSE poll[p]) \in Poll
  BY DEF Release
<1>1. poll[p] \in Poll /\ wall \in 0..MaxWall
  BY DEF TypeOK, GateTypeOK
<1> QED BY <1>1 DEF Poll

LEMMA SetType ==
    ASSUME TypeOK, NEW p \in Polls, NEW q \in Poll, Set(p, q)
    PROVE  poll' \in [Polls -> Poll]
BY DEF TypeOK, Set

(* The gate's part of a step: a tick, a control response, or nothing. *)
LEMMA GateStep ==
    ASSUME TypeOK, Priced, [Next]_vars
    PROVE  [GateNext]_gateVars
<1>1. CASE Timer
  BY <1>1 DEF Timer, GateNext
<1>2. ASSUME NEW p \in Polls, Handle(p) PROVE [GateNext]_gateVars
  <2>1. CASE poll[p].ok
    <3>1. poll[p].watched \in BOOLEAN /\ poll[p].secs \in Intervals
      BY <2>1 DEF TypeOK, Poll, Priced
    <3>a. poll[p].secs \in Prices
      BY <3>1 DEF Prices
    <3>2. Hurry(poll[p].watched, poll[p].secs, News(poll[p].seq))
      BY <1>2, <2>1 DEF Handle
    <3>3. News(poll[p].seq) \in BOOLEAN
      BY DEF News
    <3> QED BY <3>1, <3>a, <3>2, <3>3 DEF GateNext
  <2>2. CASE ~poll[p].ok
    BY <1>2, <2>2 DEF Handle
  <2> QED BY <2>1, <2>2
<1>3. CASE UNCHANGED vars
  BY <1>3 DEF vars
<1>4. CASE Refresh \/ RequestOutput \/ SettleOutput \/ Presence \/ Restart
  BY <1>4 DEF Refresh, RequestOutput, SettleOutput, Presence, Restart
<1>5. ASSUME NEW p \in Polls,
             Touch(p) \/ Refuse(p) \/ ReadPending(p) \/ Answer(p) \/ TimeOut(p) \/ Lose(p) \/ Fail(p)
      PROVE  [GateNext]_gateVars
  BY <1>5 DEF Touch, Refuse, ReadPending, Answer, TimeOut, Lose, Fail
<1> QED BY <1>1, <1>2, <1>3, <1>4, <1>5 DEF Next
-----------------------------------------------------------------------------
LEMMA InitInv == Init => TypeInv /\ Priced /\ Lone
<1> SUFFICES ASSUME Init PROVE TypeInv /\ Priced /\ Lone
  OBVIOUS
<1>1. GateTypeOK
  BY InitType DEF Init
<1>2. poll \in [Polls -> Poll] /\ lastSeen \in 0..MaxWall \cup {Never}
  BY NoPollType, GateAssumption DEF Init
<1>4. {0} \subseteq 0..MaxClicks /\ {0} \subseteq 0..MaxFaults /\ {0} \subseteq 0..MaxRestarts
      /\ {0} \subseteq 0..MaxWall
  BY ControlAssumption, GateAssumption
<1>5. /\ long \in BOOLEAN /\ inflight = FALSE /\ issued = 0 /\ lastSeq = 0
      /\ refreshSeq = 0 /\ watching = FALSE /\ pending = FALSE
      /\ clicked = Never /\ missed = 0 /\ clicks = 0 /\ faults = 0 /\ restarts = 0
  BY DEF Init
<1>6. TypeOK
  BY <1>1, <1>2, <1>4, <1>5 DEF TypeOK
<1>7. TypeInv
  BY <1>5, <1>6 DEF TypeInv
<1>3. Priced /\ Lone
  BY DEF Init, Priced, Lone, Outstanding, At, NoPoll
<1> QED BY <1>3, <1>7

LEMMA TypeStep ==
    ASSUME TypeInv, Priced, [Next]_vars
    PROVE  TypeInv'
<1>1. TypeOK /\ wall \in 0..MaxWall /\ refreshSeq \in 0..MaxClicks /\ clicks \in Nat /\ missed \in Nat
      /\ faults \in Nat /\ MaxWall \in Nat /\ MaxClicks \in Nat /\ MaxFaults \in Nat
  BY GateAssumption, ControlAssumption DEF TypeInv, TypeOK, GateTypeOK
<1>2. [GateNext]_gateVars
  BY <1>1, GateStep
<1>3. GateTypeOK'
  BY <1>1, <1>2, NextType DEF TypeOK
<1>4. wall' \in 0..MaxWall
  BY <1>3 DEF GateTypeOK
<1>5. CASE Timer
  <2>1. poll' \in [Polls -> Poll] /\ inflight' \in BOOLEAN /\ issued' \in 0..MaxWall
    <3>1. CASE Due(wall')
      <4>1. PICK p \in Polls : Set(p, [NoPoll EXCEPT !.pc = "out", !.from = wall'])
        BY <1>5, <3>1 DEF Timer, Issue
      <4>2. [NoPoll EXCEPT !.pc = "out", !.from = wall'] \in Poll
        BY <1>4, NoPollType DEF Poll
      <4> QED BY <1>1, <1>4, <1>5, <3>1, <4>1, <4>2, SetType DEF Timer, Issue
    <3>2. CASE ~Due(wall')
      BY <1>1, <1>5, <3>2 DEF Timer, Issue, TypeOK
    <3> QED BY <3>1, <3>2
  <2> QED BY <1>1, <1>3, <1>4, <1>5, <2>1 DEF Timer, TypeInv, TypeOK, presence, counters
<1>6. ASSUME NEW p \in Polls, Touch(p) PROVE TypeInv'
  <2>1. PICK secs \in Intervals : Set(p, [poll[p] EXCEPT !.pc = "compute", !.secs = secs])
    BY <1>6 DEF Touch
  <2>2. [poll[p] EXCEPT !.pc = "compute", !.secs = secs] \in Poll
    BY <1>1 DEF TypeOK, Poll
  <2>3. poll' \in [Polls -> Poll]
    BY <1>1, <2>1, <2>2, SetType
  <2> QED BY <1>1, <1>3, <1>6, <2>3 DEF Touch, TypeInv, TypeOK, plugin, presence, counters
<1>7. ASSUME NEW p \in Polls, Refuse(p) \/ ReadPending(p) PROVE TypeInv'
  <2>1. [poll[p] EXCEPT !.pc = "back"] \in Poll /\ [poll[p] EXCEPT !.pc = "read", !.found = pending] \in Poll
    BY <1>1 DEF TypeOK, Poll
  <2>2. poll' \in [Polls -> Poll]
    BY <1>1, <1>7, <2>1, SetType DEF Refuse, ReadPending
  <2> QED BY <1>1, <1>3, <1>7, <2>2
          DEF Refuse, ReadPending, TypeInv, TypeOK, plugin, presence, history, counters
<1>8. ASSUME NEW p \in Polls, Answer(p) PROVE TypeInv'
  <2> DEFINE q == [poll[p] EXCEPT !.watched = watching, !.seq = refreshSeq]
  <2>1. q \in Poll
    BY <1>1 DEF TypeOK, Poll
  <2>2. [q EXCEPT !.pc = "parked", !.from = wall] \in Poll /\ [q EXCEPT !.pc = "back", !.ok = TRUE] \in Poll
    BY <1>1, <2>1 DEF Poll
  <2>3. Set(p, [q EXCEPT !.pc = "parked", !.from = wall]) \/ Set(p, [q EXCEPT !.pc = "back", !.ok = TRUE])
    BY <1>8 DEF Answer
  <2> HIDE DEF q
  <2>4. poll' \in [Polls -> Poll]
    BY <1>1, <2>2, <2>3, SetType
  <2> QED BY <1>1, <1>3, <1>8, <2>4
          DEF Answer, TypeInv, TypeOK, plugin, presence, history, counters
<1>9. ASSUME NEW p \in Polls, TimeOut(p) PROVE TypeInv'
  <2>1. poll' \in [Polls -> Poll]
    BY <1>1, <1>9, ReleaseType DEF TimeOut
  <2> QED BY <1>1, <1>3, <1>9, <2>1
          DEF TimeOut, TypeInv, TypeOK, plugin, presence, history, counters
<1>10. CASE Refresh \/ RequestOutput
  <2>1. poll' \in [Polls -> Poll]
    BY <1>1, <1>10, ReleaseType DEF Refresh, RequestOutput, WakeAll
  <2>2. CASE Refresh
    BY <1>1, <1>3, <2>1, <2>2 DEF Refresh, TypeInv, TypeOK, plugin, presence, history, counters
  <2>3. CASE RequestOutput
    BY <1>1, <1>3, <2>1, <2>3 DEF RequestOutput, TypeInv, TypeOK, plugin, presence, history, counters
  <2> QED BY <1>10, <2>2, <2>3
<1>11. CASE SettleOutput \/ Presence
  BY <1>1, <1>3, <1>11 DEF SettleOutput, Presence, TypeInv, TypeOK, plugin, presence, history, counters
<1>12. ASSUME NEW p \in Polls, Handle(p) PROVE TypeInv'
  <2>1. poll' \in [Polls -> Poll]
    BY <1>1, <1>12, NoPollType, SetType DEF Handle
  <2>2. lastSeq' \in 0..MaxClicks
    BY <1>1, <1>12 DEF Handle, TypeOK, Poll
  <2> QED BY <1>1, <1>3, <1>12, <2>1, <2>2
          DEF Handle, TypeInv, TypeOK, presence, history, counters
<1>13. ASSUME NEW p \in Polls, Lose(p) PROVE TypeInv'
  <2>1. WakeAll \in [Polls -> Poll] /\ poll \in [Polls -> Poll]
    BY <1>1, ReleaseType DEF WakeAll, TypeOK
  <2>2. poll' \in [Polls -> Poll]
    BY <1>13, <2>1, NoPollType DEF Lose
  <2>3. faults' \in 0..MaxFaults /\ missed' \in 0..MaxFaults /\ missed' <= faults'
    BY <1>1, <1>13 DEF Lose, TypeInv, TypeOK
  <2> QED BY <1>1, <1>3, <1>13, <2>2, <2>3 DEF Lose, TypeInv, TypeOK, plugin, presence
<1>14. ASSUME NEW p \in Polls, Fail(p) PROVE TypeInv'
  <2>1. [poll[p] EXCEPT !.pc = "back", !.ok = FALSE] \in Poll
    BY <1>1 DEF TypeOK, Poll
  <2>2. poll' \in [Polls -> Poll]
    BY <1>1, <1>14, <2>1, SetType DEF Fail
  <2>3. faults' \in 0..MaxFaults /\ missed' \in 0..MaxFaults /\ missed' <= faults'
    BY <1>1, <1>14 DEF Fail, TypeInv, TypeOK
  <2> QED BY <1>1, <1>3, <1>14, <2>2, <2>3 DEF Fail, TypeInv, TypeOK, plugin, presence
<1>15. CASE Restart
  <2>1. \A p \in Polls : [NoPoll EXCEPT !.pc = "back",
              !.from = IF At(p, "parked") THEN wall ELSE poll[p].from] \in Poll
    BY <1>1, NoPollType DEF TypeOK, Poll
  <2>2. \A p \in Polls : poll[p] \in Poll
    BY <1>1 DEF TypeOK
  <2>3. poll' \in [Polls -> Poll]
    BY <1>15, <2>1, <2>2 DEF Restart
  <2>4. restarts < MaxRestarts /\ restarts' = restarts + 1 /\ refreshSeq' = 0
    BY <1>15 DEF Restart
  <2>5. clicked' = Never /\ watching' = FALSE
        /\ UNCHANGED <<plugin, lastSeen, pending, missed, clicks, faults>>
    BY <1>15 DEF Restart
  <2>6. UNCHANGED <<long, inflight, issued, lastSeq>>
    BY <2>5 DEF plugin
  <2>7. restarts \in 0..MaxRestarts /\ MaxRestarts \in Nat
    BY <1>1, ControlAssumption DEF TypeOK
  <2>8. restarts' \in 0..MaxRestarts /\ refreshSeq' \in 0..MaxClicks /\ refreshSeq' <= clicks
    BY <1>1, <2>4, <2>7
  <2>9. TypeOK'
    BY <1>1, <1>3, <2>3, <2>5, <2>6, <2>8 DEF TypeOK
  <2> QED BY <2>5, <2>8, <2>9 DEF TypeInv
<1>16. CASE UNCHANGED vars
  BY <1>1, <1>3, <1>16
     DEF vars, TypeInv, TypeOK, plugin, presence, history, counters
<1> QED BY <1>5, <1>6, <1>7, <1>8, <1>9, <1>10, <1>11, <1>12, <1>13, <1>14, <1>15, <1>16 DEF Next
-----------------------------------------------------------------------------
(* One poll p changes to q; the others, and what Lone reads, stay. *)
LEMMA LoneOfSet ==
    ASSUME TypeOK, Lone, NEW p \in Polls, NEW q \in Poll, Set(p, q), p \in Outstanding,
           UNCHANGED <<long, inflight, issued, wall>>, Timed(poll[p]) => Timed(q)
    PROVE  Lone'
<1> SUFFICES ASSUME long, NEW r \in Outstanding'
             PROVE  inflight /\ Timed(poll[r])' /\ \A o \in Outstanding' : o = r
  BY DEF Lone
<1>1. inflight /\ Timed(poll[p]) /\ \A o \in Outstanding : o = p
  BY DEF Lone
<1>2. poll'[p] = q /\ \A o \in Polls : o # p => poll'[o] = poll[o]
  BY DEF Set, TypeOK
<1>3. \A o \in Outstanding' : o = p
  BY <1>1, <1>2 DEF Outstanding, At
<1>4. Timed(q)' <=> Timed(q)
  BY DEF Timed, Slack
<1>5. Timed(poll[p])'
  BY <1>1, <1>2, <1>4 DEF Timed, Slack
<1> QED BY <1>1, <1>3, <1>5

(* The poll p is gone: with it, when long polling, every poll is. *)
LEMMA LoneOfFree ==
    ASSUME Lone, NEW p \in Outstanding, UNCHANGED long, At(p, "free")',
           \A o \in Polls : At(o, "free") => At(o, "free")'
    PROVE  Lone'
BY DEF Lone, Outstanding

(* Held polls are released: their new leg starts within the hold. *)
LEMMA LoneOfRelease ==
    ASSUME TypeOK, Lone, NEW ps \in SUBSET Polls, poll' = Release(ps),
           UNCHANGED <<long, inflight, issued, wall>>
    PROVE  Lone'
<1> SUFFICES ASSUME long, NEW r \in Outstanding'
             PROVE  inflight /\ Timed(poll[r])' /\ \A o \in Outstanding' : o = r
  BY DEF Lone
<1>1. /\ wall \in Nat /\ issued \in Nat /\ Lag \in Nat /\ Hold \in Nat
      /\ \A o \in Polls : poll[o] \in Poll /\ poll[o].from \in Nat
  BY Numbers
<1>2. \A o \in Polls : At(o, "free") => At(o, "free")'
  BY DEF Release, At
<1>3. r \in Polls /\ r \in Outstanding /\ \A o \in Outstanding' : o \in Outstanding
  BY <1>2 DEF Outstanding
<1>4. inflight /\ Timed(poll[r]) /\ \A o \in Outstanding : o = r
  BY <1>3 DEF Lone
<1>5. CASE r \in ps /\ At(r, "parked")
  <2>1. poll'[r] = [poll[r] EXCEPT !.pc = "compute", !.again = TRUE, !.from = wall]
    BY <1>3, <1>5 DEF Release
  <2>2. poll'[r].pc = "compute" /\ poll'[r].again = TRUE /\ poll'[r].from = wall
    BY <1>1, <1>3, <2>1 DEF Poll
  <2>3. wall - poll[r].from <= Hold /\ poll[r].from - issued <= Lag
    BY <1>4, <1>5 DEF Timed, Slack, At
  <2>4. wall - issued <= Lag + Hold
    BY <1>1, <1>3, <2>3
  <2>5. Timed(poll[r])'
    BY <1>1, <2>2, <2>4 DEF Timed, Slack
  <2> QED BY <1>3, <1>4, <2>5
<1>6. CASE ~(r \in ps /\ At(r, "parked"))
  <2>1. poll'[r] = poll[r]
    BY <1>3, <1>6 DEF Release
  <2>2. Timed(poll[r])'
    BY <1>4, <2>1 DEF Timed, Slack
  <2> QED BY <1>3, <1>4, <2>2
<1> QED BY <1>5, <1>6

(* The tick: what is out is timely, so its watchdog has not expired. *)
LEMMA LoneOfTimer ==
    ASSUME TypeOK, Lone, Timer
    PROVE  Lone'
<1> SUFFICES ASSUME long', NEW r \in Outstanding'
             PROVE  inflight' /\ Timed(poll[r])' /\ \A o \in Outstanding' : o = r
  BY DEF Lone
<1>1. /\ wall \in Nat /\ issued \in Nat /\ Lag \in Nat /\ Hold \in Nat /\ Watchdog \in Nat
      /\ \A o \in Polls : poll[o] \in Poll /\ poll[o].from \in Nat
      /\ Hold + 2 * Lag < Watchdog
  BY Numbers
<1>2. long /\ wall' = wall + 1 /\ Timely /\ Issue
  BY DEF Timer, Tick
<1>3. CASE Outstanding = {}
  <2>1. CASE Due(wall')
    <3>1. PICK p \in Polls : Set(p, [NoPoll EXCEPT !.pc = "out", !.from = wall'])
      BY <1>2, <2>1 DEF Issue
    <3>2. poll'[p] = [NoPoll EXCEPT !.pc = "out", !.from = wall']
          /\ \A o \in Polls : o # p => poll'[o] = poll[o]
      BY <3>1 DEF Set, TypeOK
    <3>3. \A o \in Outstanding' : o = p
      BY <1>3, <3>2 DEF Outstanding, At
    <3>4. poll'[p].pc = "out" /\ poll'[p].from = wall' /\ poll'[p].again = FALSE
      BY <3>2 DEF NoPoll
    <3>5. inflight' /\ issued' = wall'
      BY <1>2, <2>1 DEF Issue
    <3>6. Timed(poll[p])'
      BY <1>1, <1>2, <3>4, <3>5 DEF Timed, Slack
    <3> QED BY <3>3, <3>5, <3>6
  <2>2. CASE ~Due(wall')
    BY <1>2, <1>3, <2>2 DEF Issue, Outstanding, At
  <2> QED BY <2>1, <2>2
<1>4. CASE Outstanding # {}
  <2>1. PICK p \in Outstanding : inflight /\ Timed(poll[p]) /\ \A o \in Outstanding : o = p
    BY <1>2, <1>4 DEF Lone
  <2>2. wall - poll[p].from < (IF poll[p].pc = "parked" THEN Hold ELSE Lag) /\ p \in Polls
    BY <1>2, <2>1 DEF Timely, At, Outstanding
  <2>3. wall' - issued <= Hold + 2 * Lag
    <3>1. CASE poll[p].pc = "parked"
      <4>1. wall - poll[p].from < Hold /\ poll[p].from - issued <= Lag
        BY <2>1, <2>2, <3>1 DEF Timed, Slack
      <4> QED BY <1>1, <1>2, <2>2, <4>1
    <3>2. CASE poll[p].pc # "parked"
      <4>1. wall - poll[p].from < Lag /\ poll[p].from - issued <= Lag + Hold
        BY <1>1, <2>1, <2>2, <3>2 DEF Timed, Slack
      <4> QED BY <1>1, <1>2, <2>2, <4>1
    <3> QED BY <3>1, <3>2
  <2>4. ~Due(wall')
    BY <1>1, <1>2, <2>1, <2>3 DEF Due
  <2>5. UNCHANGED <<poll, inflight, issued>>
    BY <1>2, <2>4 DEF Issue
  <2>6. Timed(poll[p])'
    BY <1>1, <1>2, <2>1, <2>2, <2>5 DEF Timed, Slack
  <2> QED BY <2>1, <2>5, <2>6 DEF Outstanding, At
<1> QED BY <1>3, <1>4

LEMMA LoneStep ==
    ASSUME TypeOK, Lone, [Next]_vars
    PROVE  Lone'
<1>1. /\ wall \in Nat /\ issued \in Nat /\ Lag \in Nat /\ Hold \in Nat
      /\ \A o \in Polls : poll[o] \in Poll /\ poll[o].from \in Nat
      /\ wall \in 0..MaxWall
  BY Numbers DEF TypeOK, GateTypeOK
<1>2. CASE Timer
  BY <1>2, LoneOfTimer
<1>3. ASSUME NEW p \in Polls, Touch(p) PROVE Lone'
  <2>1. PICK secs \in Intervals : Set(p, [poll[p] EXCEPT !.pc = "compute", !.secs = secs])
    BY <1>3 DEF Touch
  <2>2. [poll[p] EXCEPT !.pc = "compute", !.secs = secs] \in Poll
    BY <1>1 DEF Poll
  <2>3. Timed(poll[p]) => Timed([poll[p] EXCEPT !.pc = "compute", !.secs = secs])
    BY <1>1, <1>3 DEF Touch, At, Timed, Slack, Poll
  <2>4. p \in Outstanding /\ UNCHANGED <<long, inflight, issued, wall>>
    BY <1>3 DEF Touch, At, Outstanding, plugin, gateVars
  <2> QED BY <2>1, <2>2, <2>3, <2>4, LoneOfSet
<1>4. ASSUME NEW p \in Polls, Refuse(p) PROVE Lone'
  <2>1. Set(p, [poll[p] EXCEPT !.pc = "back"]) /\ [poll[p] EXCEPT !.pc = "back"] \in Poll
    BY <1>1, <1>4 DEF Refuse, Poll
  <2>2. Timed(poll[p]) => Timed([poll[p] EXCEPT !.pc = "back"])
    BY <1>1, <1>4 DEF Refuse, At, Timed, Slack, Poll
  <2>3. p \in Outstanding /\ UNCHANGED <<long, inflight, issued, wall>>
    BY <1>4 DEF Refuse, At, Outstanding, plugin, gateVars
  <2> QED BY <2>1, <2>2, <2>3, LoneOfSet
<1>5. ASSUME NEW p \in Polls, ReadPending(p) PROVE Lone'
  <2>1. Set(p, [poll[p] EXCEPT !.pc = "read", !.found = pending])
        /\ [poll[p] EXCEPT !.pc = "read", !.found = pending] \in Poll
    BY <1>1, <1>5 DEF ReadPending, Poll, TypeOK
  <2>2. Timed(poll[p]) => Timed([poll[p] EXCEPT !.pc = "read", !.found = pending])
    BY <1>1, <1>5 DEF ReadPending, At, Timed, Slack, Poll
  <2>3. p \in Outstanding /\ UNCHANGED <<long, inflight, issued, wall>>
    BY <1>5 DEF ReadPending, At, Outstanding, plugin, gateVars
  <2> QED BY <2>1, <2>2, <2>3, LoneOfSet
<1>6. ASSUME NEW p \in Polls, Answer(p) PROVE Lone'
  <2> DEFINE q == [poll[p] EXCEPT !.watched = watching, !.seq = refreshSeq]
  <2>1. q \in Poll /\ q.from = poll[p].from /\ q.again = poll[p].again /\ q.pc = "read"
    BY <1>1, <1>6 DEF TypeOK, Poll, Answer, At
  <2>2. IF Holds(q) THEN Set(p, [q EXCEPT !.pc = "parked", !.from = wall])
                    ELSE Set(p, [q EXCEPT !.pc = "back", !.ok = TRUE])
    BY <1>6 DEF Answer
  <2>3. At(p, "read") /\ p \in Outstanding /\ UNCHANGED <<long, inflight, issued, wall>>
    BY <1>6 DEF Answer, At, Outstanding, plugin, gateVars
  <2> HIDE DEF q
  <2>4. CASE Holds(q)
    <3>1. [q EXCEPT !.pc = "parked", !.from = wall] \in Poll
      BY <1>1, <2>1 DEF Poll
    <3>2. poll[p].again = FALSE
      BY <1>1, <2>1, <2>4 DEF Holds, Poll
    <3>3. Timed(poll[p]) => wall - poll[p].from <= Lag /\ poll[p].from - issued <= 0
      BY <2>3, <3>2 DEF Timed, Slack, At
    <3>4. Timed(poll[p]) => Timed([q EXCEPT !.pc = "parked", !.from = wall])
      BY <1>1, <2>1, <3>3 DEF Timed, Slack, Poll
    <3> QED BY <2>2, <2>3, <2>4, <3>1, <3>4, LoneOfSet
  <2>5. CASE ~Holds(q)
    <3>1. [q EXCEPT !.pc = "back", !.ok = TRUE] \in Poll
      BY <1>1, <2>1 DEF Poll
    <3>2. Timed(poll[p]) => wall - poll[p].from <= Lag /\ poll[p].from - issued <= Lag + Hold
      BY <1>1, <2>3 DEF Timed, Slack, At
    <3>3. Timed(poll[p]) => Timed([q EXCEPT !.pc = "back", !.ok = TRUE])
      BY <1>1, <2>1, <3>2 DEF Timed, Slack, Poll
    <3> QED BY <2>2, <2>3, <2>5, <3>1, <3>3, LoneOfSet
  <2> QED BY <2>4, <2>5
<1>7. ASSUME NEW p \in Polls, TimeOut(p) PROVE Lone'
  BY <1>7, LoneOfRelease DEF TimeOut, plugin, gateVars
<1>8. CASE Refresh \/ RequestOutput
  <2>1. poll' = Release(Polls) /\ UNCHANGED <<long, inflight, issued, wall>>
    BY <1>8 DEF Refresh, RequestOutput, WakeAll, plugin, gateVars
  <2> QED BY <2>1, LoneOfRelease
<1>9. CASE SettleOutput \/ Presence \/ UNCHANGED vars
  <2>1. UNCHANGED <<poll, long, inflight, issued, wall>>
    BY <1>9 DEF SettleOutput, Presence, vars, plugin, gateVars
  <2> QED BY <2>1 DEF Lone, Outstanding, At, Timed, Slack
<1>10. ASSUME NEW p \in Polls, Handle(p) PROVE Lone'
  <2>1. p \in Outstanding /\ UNCHANGED long /\ Set(p, NoPoll)
    BY <1>10 DEF Handle, At, Outstanding
  <2>2. At(p, "free")' /\ \A o \in Polls : At(o, "free") => At(o, "free")'
    BY <2>1 DEF Set, At, NoPoll, TypeOK
  <2> QED BY <2>1, <2>2, LoneOfFree
<1>11. ASSUME NEW p \in Polls, Lose(p) PROVE Lone'
  <2>1. p \in Outstanding /\ UNCHANGED long
    BY <1>11 DEF Lose, At, Outstanding, plugin
  <2>2. \A o \in Polls : At(o, "free") => WakeAll[o].pc = "free"
    BY DEF WakeAll, Release, At
  <2>3. poll' = [(IF At(p, "parked") THEN WakeAll ELSE poll) EXCEPT ![p] = NoPoll]
    BY <1>11 DEF Lose
  <2>4. DOMAIN WakeAll = Polls /\ DOMAIN poll = Polls
    BY DEF WakeAll, Release, TypeOK
  <2>5. At(p, "free")' /\ \A o \in Polls : At(o, "free") => At(o, "free")'
    BY <2>2, <2>3, <2>4 DEF At, NoPoll
  <2> QED BY <2>1, <2>5, LoneOfFree
<1>12. ASSUME NEW p \in Polls, Fail(p) PROVE Lone'
  <2>1. Set(p, [poll[p] EXCEPT !.pc = "back", !.ok = FALSE])
        /\ [poll[p] EXCEPT !.pc = "back", !.ok = FALSE] \in Poll
    BY <1>1, <1>12 DEF Fail, Poll
  <2>2. Timed(poll[p]) => Timed([poll[p] EXCEPT !.pc = "back", !.ok = FALSE])
    BY <1>1, <1>12 DEF Fail, At, Timed, Slack, Poll
  <2>3. p \in Outstanding /\ UNCHANGED <<long, inflight, issued, wall>>
    BY <1>12 DEF Fail, At, Outstanding, plugin, gateVars
  <2> QED BY <2>1, <2>2, <2>3, LoneOfSet
<1>13. CASE Restart
  <2> SUFFICES ASSUME long, NEW r \in Outstanding'
               PROVE  inflight /\ Timed(poll[r])' /\ \A o \in Outstanding' : o = r
    BY <1>13 DEF Restart, plugin, Lone
  <2>1. UNCHANGED <<long, inflight, issued, wall>>
    BY <1>13 DEF Restart, plugin, gateVars
  <2>2. \A o \in Polls : poll'[o] = IF poll[o].pc \in {"compute", "read", "parked"}
              THEN [NoPoll EXCEPT !.pc = "back", !.from = IF At(o, "parked") THEN wall ELSE poll[o].from]
              ELSE poll[o]
    BY <1>13 DEF Restart
  <2>3. \A o \in Polls : At(o, "free") => At(o, "free")'
    BY <2>2 DEF At
  <2>4. r \in Polls /\ r \in Outstanding /\ \A o \in Outstanding' : o \in Outstanding
    BY <2>3 DEF Outstanding
  <2>5. inflight /\ Timed(poll[r]) /\ \A o \in Outstanding : o = r
    BY <2>1, <2>4 DEF Lone
  <2>6. CASE poll[r].pc \in {"compute", "read"}
    <3>1. poll'[r].pc = "back" /\ poll'[r].from = poll[r].from
      BY <2>2, <2>4, <2>6 DEF NoPoll, At
    <3>2. wall - poll[r].from <= Lag /\ poll[r].from - issued <= Lag + Hold
      BY <1>1, <2>4, <2>5, <2>6 DEF Timed, Slack
    <3>3. Timed(poll[r])'
      BY <2>1, <3>1, <3>2 DEF Timed, Slack
    <3> QED BY <2>4, <2>5, <3>3
  <2>7. CASE poll[r].pc = "parked"
    <3>1. poll'[r].pc = "back" /\ poll'[r].from = wall
      BY <2>2, <2>4, <2>7 DEF NoPoll, At
    <3>2. wall - poll[r].from <= Hold /\ poll[r].from - issued <= Lag
      BY <2>5, <2>7 DEF Timed, Slack
    <3>3. wall - issued <= Lag + Hold
      BY <1>1, <2>4, <3>2
    <3>4. Timed(poll[r])'
      BY <1>1, <2>1, <3>1, <3>3 DEF Timed, Slack
    <3> QED BY <2>4, <2>5, <3>4
  <2>8. CASE poll[r].pc \notin {"compute", "read", "parked"}
    <3>1. poll'[r] = poll[r]
      BY <2>2, <2>4, <2>8
    <3> QED BY <2>1, <2>4, <2>5, <3>1 DEF Timed, Slack
  <2> QED BY <2>6, <2>7, <2>8
<1> QED BY <1>2, <1>3, <1>4, <1>5, <1>6, <1>7, <1>8, <1>9, <1>10, <1>11, <1>12, <1>13 DEF Next

LEMMA PricedStep ==
    ASSUME TypeOK, Priced, [Next]_vars
    PROVE  Priced'
<1>1. \A p \in Polls : poll[p] \in Poll
  BY DEF TypeOK
<1>2. CASE Timer
  <2>1. CASE Due(wall')
    <3>1. PICK p \in Polls : Set(p, [NoPoll EXCEPT !.pc = "out", !.from = wall'])
      BY <1>2, <2>1 DEF Timer, Issue
    <3> QED BY <3>1 DEF Set, Priced, NoPoll, TypeOK
  <2>2. CASE ~Due(wall')
    BY <1>2, <2>2 DEF Timer, Issue, Priced
  <2> QED BY <2>1, <2>2
<1>3. ASSUME NEW p \in Polls, Touch(p) PROVE Priced'
  <2>1. PICK secs \in Intervals : Set(p, [poll[p] EXCEPT !.pc = "compute", !.secs = secs])
    BY <1>3 DEF Touch
  <2>2. [poll[p] EXCEPT !.pc = "compute", !.secs = secs].secs = secs
    BY <1>1 DEF Poll
  <2>3. poll'[p].secs = secs /\ \A o \in Polls : o # p => poll'[o] = poll[o]
    BY <2>1, <2>2 DEF Set, TypeOK
  <2> QED BY <2>1, <2>3 DEF Priced
<1>4. ASSUME NEW p \in Polls, Refuse(p) \/ ReadPending(p) \/ Fail(p) PROVE Priced'
  <2>1. /\ \A o \in Polls : o # p => poll'[o] = poll[o]
        /\ \/ poll'[p] = [poll[p] EXCEPT !.pc = "back"]
           \/ At(p, "compute") /\ poll'[p] = [poll[p] EXCEPT !.pc = "read", !.found = pending]
           \/ poll'[p] = [poll[p] EXCEPT !.pc = "back", !.ok = FALSE]
    BY <1>4 DEF Refuse, ReadPending, Fail, Set, TypeOK
  <2>2. /\ poll'[p].secs = poll[p].secs
        /\ poll'[p].ok => poll[p].ok
        /\ poll'[p].pc = "back" \/ poll[p].pc = "compute"
    BY <1>1, <2>1 DEF At, Poll
  <2> QED BY <2>1, <2>2 DEF Priced
<1>5. ASSUME NEW p \in Polls, Answer(p) PROVE Priced'
  <2> DEFINE q == [poll[p] EXCEPT !.watched = watching, !.seq = refreshSeq]
  <2>1. poll[p].secs \in Intervals
    BY <1>5 DEF Answer, At, Priced
  <2>2. \/ Set(p, [q EXCEPT !.pc = "parked", !.from = wall])
        \/ Set(p, [q EXCEPT !.pc = "back", !.ok = TRUE])
    BY <1>5 DEF Answer
  <2>3. [q EXCEPT !.pc = "parked", !.from = wall].secs = poll[p].secs
        /\ [q EXCEPT !.pc = "back", !.ok = TRUE].secs = poll[p].secs
    BY <1>1 DEF Poll
  <2> HIDE DEF q
  <2>4. poll'[p].secs = poll[p].secs /\ \A o \in Polls : o # p => poll'[o] = poll[o]
    BY <2>2, <2>3 DEF Set, TypeOK
  <2> QED BY <2>1, <2>4 DEF Priced
<1>6. ASSUME NEW ps \in SUBSET Polls
      PROVE  \A p \in Polls : Release(ps)[p].secs = poll[p].secs /\ Release(ps)[p].ok = poll[p].ok
                /\ (Release(ps)[p].pc # poll[p].pc => poll[p].pc = "parked")
  BY <1>1 DEF Release, At, Poll
<1>7. ASSUME NEW p \in Polls, TimeOut(p) PROVE Priced'
  <2>1. poll' = Release({p})
    BY <1>7 DEF TimeOut
  <2> QED BY <1>6, <2>1 DEF Priced
<1>8. CASE Refresh \/ RequestOutput
  <2>1. poll' = Release(Polls)
    BY <1>8 DEF Refresh, RequestOutput, WakeAll
  <2> QED BY <1>6, <2>1 DEF Priced
<1>9. CASE SettleOutput \/ Presence \/ UNCHANGED vars
  <2>1. UNCHANGED poll
    BY <1>9 DEF SettleOutput, Presence, vars
  <2> QED BY <2>1 DEF Priced
<1>10. ASSUME NEW p \in Polls, Handle(p) PROVE Priced'
  BY <1>10 DEF Handle, Set, Priced, NoPoll, TypeOK
<1>11. ASSUME NEW p \in Polls, Lose(p) PROVE Priced'
  <2>1. poll' = [(IF At(p, "parked") THEN Release(Polls) ELSE poll) EXCEPT ![p] = NoPoll]
    BY <1>11 DEF Lose, WakeAll
  <2>2. DOMAIN Release(Polls) = Polls /\ DOMAIN poll = Polls
    BY DEF Release, TypeOK
  <2>3. \A o \in Polls : o # p => poll'[o] = poll[o] \/ poll'[o] = Release(Polls)[o]
    BY <2>1, <2>2
  <2>4. poll'[p] = NoPoll
    BY <2>1, <2>2
  <2> QED BY <1>6, <2>3, <2>4 DEF Priced, NoPoll
<1>12. CASE Restart
  BY <1>12 DEF Restart, Priced, NoPoll
<1> QED BY <1>2, <1>3, <1>4, <1>5, <1>7, <1>8, <1>9, <1>10, <1>11, <1>12 DEF Next
-----------------------------------------------------------------------------
IInv == TypeInv /\ Priced /\ Lone

LEMMA Inductive == Spec => []IInv
<1>1. Init => IInv
  BY InitInv DEF IInv
<1>2. IInv /\ [Next]_vars => IInv'
  <2> SUFFICES ASSUME IInv, [Next]_vars PROVE IInv'
    OBVIOUS
  <2>1. TypeOK /\ TypeInv /\ Priced /\ Lone
    BY DEF IInv, TypeInv
  <2> QED BY <2>1, TypeStep, PricedStep, LoneStep DEF IInv
<1> QED BY <1>1, <1>2, PTL DEF Spec

(* Type correctness of the channel and of the gate in it. *)
THEOREM ControlTypeCorrect == Spec => []TypeOK
<1>1. IInv => TypeOK
  BY DEF IInv, TypeInv
<1> QED BY <1>1, Inductive, PTL

(* "A normally-returning long-poll is never re-issued early": for every hold *)
(* and watchdog that leave room for the messages' way there and back.        *)
THEOREM NeverReissuedEarly == Spec => []OneOutstanding
<1>1. IInv => OneOutstanding
  BY DEF IInv, Lone, OneOutstanding
<1> QED BY <1>1, Inductive, PTL

(* What the plugin does under a lossy, restarting backend are behaviours of  *)
(* the send gate.                                                            *)
THEOREM ImplementsGate == Spec => GateSpec
<1>1. Init => GateInit
  BY DEF Init
<1>2. IInv /\ [Next]_vars => [GateNext]_gateVars
  <2> SUFFICES ASSUME IInv, [Next]_vars PROVE [GateNext]_gateVars
    OBVIOUS
  <2>1. TypeOK /\ Priced
    BY DEF IInv, TypeInv
  <2> QED BY <2>1, GateStep
<1> QED BY <1>1, <1>2, Inductive, PTL DEF Spec, GateSpec

(* Hence the gate's promises hold with the whole channel around it.          *)
THEOREM ChannelKeepsGate == Spec => []SilenceBounded /\ []OnsetPrompt
BY ImplementsGate, NeverSilent, OnsetsPrompt, PTL
-----------------------------------------------------------------------------
(***************************************************************************)
(* The liveness touch.                                                     *)
(***************************************************************************)
Period == IF long THEN Watchdog ELSE PollEvery
Out == {p \in Polls : At(p, "out")}
OutSince(n) == {p \in Out : poll[p].from >= n}

(* A poll goes out in every period; since the touch as many have as are      *)
(* missed or are still out, and these went out a period apart.               *)
Contact ==
    /\ issued <= wall /\ wall - issued < Period
    /\ \A p \in Out : poll[p].from <= issued /\ wall - poll[p].from <= Lag
    /\ lastSeen # Never => issued - lastSeen <= Period * (missed + Cardinality(Out))
    /\ ~long => issued % PollEvery = 0
    /\ ~long => \A n \in Nat : n <= issued =>
                    Cardinality(OutSince(n)) * PollEvery <= issued - n + PollEvery

LEMMA NextMultiple ==
    ASSUME NEW n \in Nat \ {0}, NEW a \in Nat, a % n = 0, NEW d \in 1..n
    PROVE  (a + d) % n = 0 <=> d = n
<1> DEFINE q == a \div n
<1>1. q \in Nat /\ a = q * n
  OBVIOUS
<1> HIDE DEF q
<1>2. \A b \in Nat, e \in Nat : e < n => (n * b + e) % n = e
  OBVIOUS
<1>3. CASE d = n
  <2>1. a + d = n * (q + 1) + 0
    BY <1>1, <1>3
  <2> QED BY <1>1, <1>2, <1>3, <2>1
<1>4. CASE d # n
  <2>1. a + d = n * q + d /\ d < n
    BY <1>1, <1>4
  <2> QED BY <1>1, <1>2, <1>4, <2>1
<1> QED BY <1>3, <1>4

LEMMA Counting ==
    /\ \A S \in SUBSET Polls : /\ IsFiniteSet(S) /\ Cardinality(S) \in Nat
                               /\ \A T \in SUBSET S : Cardinality(T) <= Cardinality(S)
    /\ \A S \in SUBSET Polls : \A p \in S : Cardinality(S \ {p}) = Cardinality(S) - 1
    /\ \A S \in SUBSET Polls : \A p \in Polls \ S : Cardinality(S \cup {p}) = Cardinality(S) + 1
    /\ \A p \in Polls : Cardinality({p}) = 1
    /\ Cardinality({}) = 0
<1>1. \A S \in SUBSET Polls : IsFiniteSet(S) /\ Cardinality(S) \in Nat
  BY FS_Subset, FS_CardinalityType, ControlAssumption
<1>2. \A S \in SUBSET Polls : \A T \in SUBSET S : Cardinality(T) <= Cardinality(S)
  BY <1>1, FS_Subset
<1>3. \A S \in SUBSET Polls : \A p \in S : Cardinality(S \ {p}) = Cardinality(S) - 1
  BY <1>1, FS_RemoveElement
<1>4. \A S \in SUBSET Polls : \A p \in Polls \ S : Cardinality(S \cup {p}) = Cardinality(S) + 1
  BY <1>1, FS_AddElement
<1>5. Cardinality({}) = 0 /\ \A p \in Polls : Cardinality({p}) = 1
  BY FS_EmptySet, FS_Singleton
<1> QED BY <1>1, <1>2, <1>3, <1>4, <1>5

LEMMA ContactNumbers ==
    ASSUME TypeInv
    PROVE  /\ wall \in Nat /\ issued \in Nat /\ missed \in Nat /\ long \in BOOLEAN
           /\ lastSeen \in Nat \cup {Never} /\ Period \in Nat \ {0} /\ PollEvery \in Nat \ {0} /\ Lag \in Nat
           /\ \A p \in Polls : poll[p].from \in Nat
<1>1. TypeOK
  BY DEF TypeInv
<1>2. missed \in Nat /\ lastSeen \in Nat \cup {Never} /\ long \in BOOLEAN
  BY <1>1, ControlAssumption, GateAssumption DEF TypeOK
<1> QED BY <1>1, <1>2, Numbers, ControlAssumption DEF Period

(* No poll goes out, and none is forgotten. *)
LEMMA ContactQuiet ==
    ASSUME TypeInv, TypeInv', Contact, UNCHANGED <<wall, issued, long>>,
           Out' \subseteq Out, \A p \in Out' : poll'[p].from = poll[p].from,
           \/ lastSeen' = wall \/ lastSeen' = Never
           \/ lastSeen' = lastSeen /\ missed + Cardinality(Out) <= missed' + Cardinality(Out')
    PROVE  Contact'
<1>0. /\ wall \in Nat /\ issued \in Nat /\ missed \in Nat /\ long \in BOOLEAN
      /\ lastSeen \in Nat \cup {Never} /\ Period \in Nat \ {0} /\ PollEvery \in Nat \ {0} /\ Lag \in Nat
      /\ \A p \in Polls : poll[p].from \in Nat
  BY ContactNumbers
<1>1. missed' \in Nat
  BY ControlAssumption DEF TypeInv, TypeOK
<1>2. Period' = Period
  BY DEF Period
<1>3. /\ Out \in SUBSET Polls /\ Out' \in SUBSET Polls
      /\ Cardinality(Out) \in Nat /\ Cardinality(Out') \in Nat
  BY Counting DEF Out
<1>4. lastSeen' # Never => issued' - lastSeen' <= Period' * (missed' + Cardinality(Out'))
  <2> SUFFICES ASSUME lastSeen' # Never PROVE issued - lastSeen' <= Period * (missed' + Cardinality(Out'))
    BY <1>2
  <2>1. PICK k \in Nat : k = missed' + Cardinality(Out')
    BY <1>1, <1>3
  <2>2. Period * k >= 0
    BY <1>0, <2>1
  <2>3. CASE lastSeen' = wall
    BY <1>0, <2>1, <2>2, <2>3 DEF Contact
  <2>4. CASE lastSeen' = lastSeen /\ missed + Cardinality(Out) <= missed' + Cardinality(Out')
    <3>1. PICK m \in Nat : m = missed + Cardinality(Out)
      BY <1>0, <1>3
    <3>2. m <= k
      BY <2>1, <2>4, <3>1
    <3>3. Period * m <= Period * k
      BY <1>0, <3>2
    <3>4. issued - lastSeen <= Period * m
      BY <2>4, <3>1 DEF Contact
    <3> QED BY <1>0, <2>1, <2>4, <3>3, <3>4
  <2> QED BY <2>3, <2>4
<1>5. ASSUME ~long', NEW n \in Nat, n <= issued'
      PROVE  Cardinality((OutSince(n))') * PollEvery <= issued' - n + PollEvery
  <2>1. (OutSince(n))' \in SUBSET OutSince(n) /\ OutSince(n) \in SUBSET Polls
    BY <1>3 DEF OutSince
  <2>2. PICK c \in Nat, k \in Nat : c = Cardinality((OutSince(n))') /\ k = Cardinality(OutSince(n)) /\ c <= k
    BY <2>1, Counting
  <2>3. k * PollEvery <= issued - n + PollEvery
    BY <1>5, <2>2 DEF Contact
  <2>4. c * PollEvery <= k * PollEvery
    BY <1>0, <2>2
  <2> QED BY <1>0, <2>2, <2>3, <2>4
<1>6. \A p \in Out' : poll'[p].from <= issued' /\ wall' - poll'[p].from <= Lag
  BY DEF Contact
<1> QED BY <1>2, <1>4, <1>5, <1>6 DEF Contact

(* A tick at which no poll is due. *)
LEMMA ContactIdle ==
    ASSUME TypeInv, TypeInv', Contact, Timer, ~Due(wall')
    PROVE  Contact'
<1>0. /\ wall \in Nat /\ issued \in Nat /\ missed \in Nat /\ long \in BOOLEAN
      /\ lastSeen \in Nat \cup {Never} /\ Period \in Nat \ {0} /\ PollEvery \in Nat \ {0} /\ Lag \in Nat
      /\ \A p \in Polls : poll[p].from \in Nat
  BY ContactNumbers
<1>1. wall' = wall + 1 /\ Timely /\ UNCHANGED <<long, poll, inflight, issued>>
  BY DEF Timer, Tick, Issue
<1>2. Out' = Out /\ Period' = Period /\ \A n : (OutSince(n))' = OutSince(n)
  BY <1>1 DEF Out, Period, OutSince, At
<1>3. wall' - issued < Period
  <2>1. CASE long
    BY <1>0, <1>1, <2>1 DEF Due, Period
  <2>2. CASE ~long
    <3>1. PICK d \in Nat : wall' = issued + d /\ d > 0 /\ d <= PollEvery
      <4>0. issued <= wall /\ wall - issued < Period /\ Period = PollEvery
        BY <2>2 DEF Contact, Period
      <4>1. wall' - issued \in Nat /\ wall' - issued > 0 /\ wall' - issued <= PollEvery
        BY <1>0, <1>1, <4>0
      <4> QED BY <1>0, <1>1, <4>1
    <3>2. (issued + d) % PollEvery # 0 /\ issued % PollEvery = 0
      BY <2>2, <3>1 DEF Due, Contact
    <3>3. d # PollEvery
      <4>1. d \in 1..PollEvery
        BY <1>0, <3>1
      <4> QED BY <1>0, <3>2, <4>1, NextMultiple
    <3> QED BY <1>0, <2>2, <3>1, <3>3 DEF Period
  <2> QED BY <2>1, <2>2
<1>4. \A p \in Out : poll[p].from <= issued /\ wall' - poll[p].from <= Lag
  <2>1. \A p \in Out : wall - poll[p].from < Lag /\ p \in Polls
    BY <1>1 DEF Timely, Out, Outstanding, At
  <2> QED BY <1>0, <1>1, <2>1 DEF Contact
<1>5. lastSeen' # Never => issued' - lastSeen' <= Period' * (missed' + Cardinality(Out'))
  <2>1. CASE lastSeen' = wall' /\ missed' = 0
    <3>1. PICK c \in Nat : c = Cardinality(Out)
      BY Counting DEF Out
    <3>2. issued - wall' <= 0 /\ Period * (0 + c) >= 0
      BY <1>0, <1>1 DEF Contact
    <3> QED BY <1>0, <1>1, <1>2, <2>1, <3>1, <3>2
  <2>2. CASE lastSeen' = lastSeen /\ missed' = missed
    BY <1>1, <1>2, <2>2 DEF Contact
  <2> QED BY <2>1, <2>2 DEF Timer
<1> QED BY <1>0, <1>1, <1>2, <1>3, <1>4, <1>5 DEF Contact

(* A tick at which one is: the previous went out a period ago. *)
LEMMA ContactIssue ==
    ASSUME TypeInv, TypeInv', Contact, Timer, Due(wall')
    PROVE  Contact'
<1>0. /\ wall \in Nat /\ issued \in Nat /\ missed \in Nat /\ long \in BOOLEAN
      /\ lastSeen \in Nat \cup {Never} /\ Period \in Nat \ {0} /\ PollEvery \in Nat \ {0} /\ Lag \in Nat
      /\ \A p \in Polls : poll[p].from \in Nat
  BY ContactNumbers
<1>1. wall' = wall + 1 /\ wall' \in Nat /\ Timely /\ long' = long /\ issued' = wall'
  BY <1>0 DEF Timer, Tick, Issue
<1>2. PICK p \in Polls \ Outstanding : Set(p, [NoPoll EXCEPT !.pc = "out", !.from = wall'])
  BY DEF Timer, Issue
<1>3. /\ poll'[p].pc = "out" /\ poll'[p].from = wall' /\ \A o \in Polls \ {p} : poll'[o] = poll[o]
      /\ p \notin Out
  <2>1. poll'[p] = [NoPoll EXCEPT !.pc = "out", !.from = wall'] /\ \A o \in Polls \ {p} : poll'[o] = poll[o]
    BY <1>2 DEF Set, TypeInv, TypeOK
  <2>2. [NoPoll EXCEPT !.pc = "out", !.from = wall'].pc = "out"
        /\ [NoPoll EXCEPT !.pc = "out", !.from = wall'].from = wall'
    BY DEF NoPoll
  <2> QED BY <1>2, <2>1, <2>2 DEF Out, Outstanding, At
<1>4. /\ Out' = Out \cup {p} /\ Out \in SUBSET Polls /\ p \in Polls \ Out /\ Period' = Period
  BY <1>1, <1>3 DEF Out, At, Period
<1>5. PICK c \in Nat : Cardinality(Out) = c /\ Cardinality(Out') = c + 1
  BY <1>4, Counting
<1>6. \A o \in Out' : poll'[o].from <= issued' /\ wall' - poll'[o].from <= Lag
  <2>1. \A o \in Out : o \in Polls /\ wall - poll[o].from < Lag
    BY <1>1 DEF Timely, Out, Outstanding, At
  <2> QED BY <1>0, <1>1, <1>3, <1>4, <2>1 DEF Contact
<1>7. lastSeen' # Never => issued' - lastSeen' <= Period' * (missed' + Cardinality(Out'))
  <2>1. CASE lastSeen' = wall' /\ missed' = 0
    <3>1. Period * (0 + (c + 1)) >= 0
      BY <1>0
    <3> QED BY <1>0, <1>1, <1>4, <1>5, <2>1, <3>1
  <2>2. CASE lastSeen' = lastSeen /\ missed' = missed /\ lastSeen # Never
    <3>1. issued - lastSeen <= Period * (missed + c) /\ issued' - issued <= Period
      BY <1>0, <1>1, <1>5, <2>2 DEF Contact
    <3>2. Period * (missed + (c + 1)) = Period * (missed + c) + Period
      BY <1>0
    <3>3. issued' - lastSeen <= Period * (missed + (c + 1))
      BY <1>0, <1>1, <2>2, <3>1, <3>2
    <3> QED BY <1>4, <1>5, <2>2, <3>3
  <2> QED BY <2>1, <2>2 DEF Timer
<1>8. ASSUME ~long
      PROVE  /\ issued' % PollEvery = 0
             /\ \A n \in Nat : n <= issued' =>
                    Cardinality((OutSince(n))') * PollEvery <= issued' - n + PollEvery
  <2>1. wall' % PollEvery = 0 /\ issued % PollEvery = 0
    BY <1>8 DEF Due, Contact
  <2>2. PICK d \in Nat : wall' = issued + d /\ d > 0 /\ d <= PollEvery
    <3>1. wall' - issued \in Nat /\ wall' - issued > 0 /\ wall' - issued <= PollEvery
      BY <1>0, <1>1, <1>8 DEF Contact, Period
    <3> QED BY <1>0, <1>1, <3>1
  <2>3. issued' = issued + PollEvery
    <3>1. (issued + d) % PollEvery = 0
      BY <2>1, <2>2
    <3>2. d = PollEvery
      <4>1. d \in 1..PollEvery
        BY <1>0, <2>2
      <4> QED BY <1>0, <2>1, <3>1, <4>1, NextMultiple
    <3> QED BY <1>1, <2>2, <3>2
  <2>4. ASSUME NEW n \in Nat, n <= issued'
        PROVE  Cardinality((OutSince(n))') * PollEvery <= issued' - n + PollEvery
    <3>1. (OutSince(n))' = OutSince(n) \cup {p} /\ OutSince(n) \in SUBSET Polls /\ p \notin OutSince(n)
      BY <1>1, <1>3, <1>4, <2>4 DEF OutSince, Out, At
    <3>2. PICK k \in Nat : Cardinality(OutSince(n)) = k /\ Cardinality((OutSince(n))') = k + 1
      BY <1>4, <3>1, Counting
    <3>3. (k + 1) * PollEvery = k * PollEvery + PollEvery
      BY <1>0
    <3>4. CASE n <= issued
      <4>1. k * PollEvery <= issued - n + PollEvery
        BY <1>8, <3>2, <3>4 DEF Contact
      <4> QED BY <1>0, <2>3, <3>2, <3>3, <4>1
    <3>5. CASE ~(n <= issued)
      <4>1. OutSince(n) = {}
        BY <1>0, <3>5, <1>4 DEF OutSince, Contact
      <4>2. k = 0
        BY <3>2, <4>1, Counting
      <4> QED BY <1>0, <2>3, <2>4, <3>2, <3>3, <4>2
    <3> QED BY <3>4, <3>5
  <2> QED BY <1>1, <2>1, <2>4
<1> QED BY <1>0, <1>1, <1>4, <1>6, <1>7, <1>8 DEF Contact

LEMMA ReleaseOut ==
    ASSUME TypeInv, NEW ps \in SUBSET Polls, poll' = Release(ps)
    PROVE  Out' = Out /\ \A o \in Out' : poll'[o].from = poll[o].from
<1>1. \A o \in Polls : poll'[o].pc = "out" <=> poll[o].pc = "out"
  BY DEF Release, At, TypeInv, TypeOK, Poll
<1>2. \A o \in Polls : poll[o].pc = "out" => poll'[o] = poll[o]
  BY DEF Release, At
<1> QED BY <1>1, <1>2 DEF Out, At

(* A poll that leaves its way out, arriving or not. *)
LEMMA OutLeaves ==
    ASSUME TypeInv, NEW p \in Polls, poll'[p].pc # "out", \A o \in Polls \ {p} : poll'[o].pc = "out" <=> poll[o].pc = "out"
    PROVE  /\ Out' = Out \ {p}
           /\ Cardinality(Out) \in Nat
           /\ p \in Out => Cardinality(Out') = Cardinality(Out) - 1
           /\ p \notin Out => Cardinality(Out') = Cardinality(Out)
<1>1. Out' = Out \ {p} /\ Out \in SUBSET Polls
  BY DEF Out, At
<1> QED BY <1>1, Counting

LEMMA ContactStep ==
    ASSUME TypeInv, TypeInv', Contact, [Next]_vars
    PROVE  Contact'
<1>0. \A p \in Polls : poll[p] \in Poll
  BY DEF TypeInv, TypeOK
<1>00. missed \in Nat /\ missed' \in Nat
  BY ControlAssumption DEF TypeInv, TypeOK
<1> USE DEF plugin, gateVars
<1>1. CASE Timer
  BY <1>1, ContactIdle, ContactIssue
<1>2. ASSUME UNCHANGED <<wall, issued, long, missed, lastSeen>>, Out' = Out,
             \A o \in Out' : poll'[o].from = poll[o].from
      PROVE  Contact'
  <2>1. Cardinality(Out) \in Nat
    BY Counting DEF Out
  <2> QED BY <1>00, <1>2, <2>1, ContactQuiet
<1>3. ASSUME NEW p \in Polls, Touch(p) PROVE Contact'
  <2>1. PICK secs \in Intervals : Set(p, [poll[p] EXCEPT !.pc = "compute", !.secs = secs])
    BY <1>3 DEF Touch
  <2>2. poll'[p].pc = "compute" /\ \A o \in Polls \ {p} : poll'[o] = poll[o]
    BY <1>0, <2>1 DEF Set, TypeInv, TypeOK, Poll
  <2>3. Out' = Out \ {p} /\ \A o \in Out' : poll'[o].from = poll[o].from
    BY <2>2 DEF Out, At
  <2> QED BY <1>3, <2>3, ContactQuiet DEF Touch
<1>4. ASSUME NEW p \in Polls, Refuse(p) PROVE Contact'
  <2>1. Set(p, [poll[p] EXCEPT !.pc = "back"])
    BY <1>4 DEF Refuse
  <2>2. poll'[p].pc = "back" /\ \A o \in Polls \ {p} : poll'[o] = poll[o]
    BY <1>0, <2>1 DEF Set, TypeInv, TypeOK, Poll
  <2>3. Out' = Out \ {p} /\ \A o \in Out' : poll'[o].from = poll[o].from
    BY <2>2 DEF Out, At
  <2> QED BY <1>4, <2>3, ContactQuiet DEF Refuse
<1>5. ASSUME NEW p \in Polls, poll[p].pc # "out", poll'[p].pc # "out", \A o \in Polls \ {p} : poll'[o] = poll[o],
             UNCHANGED <<wall, issued, long, missed, lastSeen>>
      PROVE  Contact'
  BY <1>2, <1>5 DEF Out, At
<1>6. ASSUME NEW p \in Polls, ReadPending(p) \/ Answer(p) \/ Handle(p) PROVE Contact'
  <2>1. PICK q : Set(p, q) /\ q.pc # "out"
    <3>1. ReadPending(p) => \E q : Set(p, q) /\ q.pc # "out"
      <4>1. [poll[p] EXCEPT !.pc = "read", !.found = pending].pc = "read"
        BY <1>0 DEF Poll
      <4> QED BY <4>1 DEF ReadPending
    <3>2. Handle(p) => \E q : Set(p, q) /\ q.pc # "out"
      BY DEF Handle, NoPoll
    <3>3. Answer(p) => \E q : Set(p, q) /\ q.pc # "out"
      <4> DEFINE q == [poll[p] EXCEPT !.watched = watching, !.seq = refreshSeq]
      <4>1. /\ [q EXCEPT !.pc = "parked", !.from = wall].pc = "parked"
            /\ [q EXCEPT !.pc = "back", !.ok = TRUE].pc = "back"
        BY <1>0 DEF Poll
      <4> QED BY <4>1 DEF Answer
    <3> QED BY <1>6, <3>1, <3>2, <3>3
  <2>2. poll'[p].pc # "out" /\ \A o \in Polls \ {p} : poll'[o] = poll[o]
    BY <2>1 DEF Set, TypeInv, TypeOK
  <2>3. poll[p].pc # "out" /\ UNCHANGED <<wall, issued, long, missed, lastSeen>>
    BY <1>6 DEF ReadPending, Answer, Handle, At, history, Hurry
  <2> QED BY <1>5, <2>2, <2>3
<1>7. ASSUME NEW ps \in SUBSET Polls, poll' = Release(ps), UNCHANGED <<wall, issued, long, missed, lastSeen>>
      PROVE  Contact'
  BY <1>2, <1>7, ReleaseOut
<1>8. ASSUME NEW p \in Polls, TimeOut(p) PROVE Contact'
  BY <1>7, <1>8 DEF TimeOut, history
<1>9. CASE Refresh \/ RequestOutput
  BY <1>7, <1>9 DEF Refresh, RequestOutput, WakeAll, history
<1>10. CASE SettleOutput \/ Presence \/ UNCHANGED vars
  BY <1>2, <1>10 DEF SettleOutput, Presence, vars, history, Out, At
<1>11. CASE Restart
  <2>1. \A o \in Polls : poll'[o] = IF poll[o].pc \in {"compute", "read", "parked"}
              THEN [NoPoll EXCEPT !.pc = "back", !.from = IF At(o, "parked") THEN wall ELSE poll[o].from]
              ELSE poll[o]
    BY <1>11 DEF Restart
  <2>2. \A o \in Polls : (poll'[o].pc = "out" <=> poll[o].pc = "out") /\ (poll[o].pc = "out" => poll'[o] = poll[o])
    BY <2>1 DEF NoPoll
  <2> QED BY <1>2, <1>11, <2>2 DEF Restart, Out, At
<1>12. ASSUME NEW p \in Polls, Fail(p) PROVE Contact'
  <2>1. Set(p, [poll[p] EXCEPT !.pc = "back", !.ok = FALSE])
    BY <1>12 DEF Fail
  <2>2. poll'[p].pc = "back" /\ (\A o \in Polls \ {p} : poll'[o] = poll[o]) /\ p \in Out
    BY <1>0, <1>12, <2>1 DEF Set, TypeInv, TypeOK, Poll, Fail, Out, At
  <2>3. /\ Out' = Out \ {p} /\ Cardinality(Out') = Cardinality(Out) - 1 /\ Cardinality(Out) \in Nat
        /\ \A o \in Out' : poll'[o].from = poll[o].from
    BY <2>2, OutLeaves DEF Out
  <2>4. missed' = missed + 1 /\ lastSeen' = lastSeen /\ UNCHANGED <<wall, issued, long>>
    BY <1>12 DEF Fail
  <2> QED BY <1>00, <2>3, <2>4, ContactQuiet
<1>13. ASSUME NEW p \in Polls, Lose(p) PROVE Contact'
  <2>1. poll' = [(IF At(p, "parked") THEN Release(Polls) ELSE poll) EXCEPT ![p] = NoPoll]
    BY <1>13 DEF Lose, WakeAll
  <2>2. DOMAIN Release(Polls) = Polls /\ DOMAIN poll = Polls
    BY DEF Release, TypeInv, TypeOK
  <2>3. poll'[p] = NoPoll /\ \A o \in Polls \ {p} : poll'[o] = poll[o] \/ poll'[o] = Release(Polls)[o]
    BY <2>1, <2>2
  <2>4. \A o \in Polls : (Release(Polls)[o].pc = "out" <=> poll[o].pc = "out")
                         /\ (poll[o].pc = "out" => Release(Polls)[o] = poll[o])
    BY <1>0 DEF Release, At, Poll
  <2>5. \A o \in Polls \ {p} : (poll'[o].pc = "out" <=> poll[o].pc = "out")
                               /\ (poll[o].pc = "out" => poll'[o] = poll[o])
    BY <2>3, <2>4
  <2>6. poll'[p].pc = "free"
    BY <2>3 DEF NoPoll
  <2>7. /\ Out' = Out \ {p} /\ Cardinality(Out) \in Nat
        /\ p \in Out => Cardinality(Out') = Cardinality(Out) - 1
        /\ p \notin Out => Cardinality(Out') = Cardinality(Out)
    BY <2>5, <2>6, OutLeaves
  <2>8. \A o \in Out' : poll'[o].from = poll[o].from
    BY <2>5, <2>7 DEF Out, At
  <2>9. missed' = (IF p \in Out THEN missed + 1 ELSE missed) /\ lastSeen' = lastSeen /\ UNCHANGED <<wall, issued, long>>
    BY <1>13 DEF Lose, Out, At
  <2> QED BY <1>00, <2>7, <2>8, <2>9, ContactQuiet
<1> QED BY <1>1, <1>3, <1>4, <1>6, <1>8, <1>9, <1>10, <1>11, <1>12, <1>13 DEF Next

LEMMA ContactInit == Init => Contact
<1> SUFFICES ASSUME Init PROVE Contact
  OBVIOUS
<1>1. Out = {} /\ \A n : OutSince(n) = {}
  BY DEF Init, Out, OutSince, At, NoPoll
<1>2. TypeInv
  BY InitInv
<1>3. wall = 0 /\ issued = 0 /\ missed = 0 /\ lastSeen \in {0, Never}
  BY DEF Init, GateInit
<1>4. Period \in Nat \ {0} /\ PollEvery \in Nat \ {0}
  BY <1>2, ContactNumbers
<1>5. 0 % PollEvery = 0 /\ Cardinality({}) = 0
  BY <1>4, Counting
<1>6. Cardinality(Out) = 0 /\ \A n : Cardinality(OutSince(n)) = 0
  BY <1>1, <1>5
<1>7. lastSeen # Never => issued - lastSeen <= Period * (missed + Cardinality(Out))
  BY <1>3, <1>4, <1>6
<1>8. \A n \in Nat : n <= issued => Cardinality(OutSince(n)) * PollEvery <= issued - n + PollEvery
  BY <1>3, <1>4, <1>6
<1> QED BY <1>1, <1>3, <1>4, <1>5, <1>7, <1>8 DEF Contact

(* The polls still out went out within Lag: they cost nothing more. *)
LEMMA ContactMeans == TypeInv /\ Lone /\ Contact => StaysFresh
<1> SUFFICES ASSUME TypeInv, Lone, Contact, lastSeen # Never PROVE wall - lastSeen <= Period * (missed + 1) + Lag
  BY DEF StaysFresh, Period
<1>0. /\ wall \in Nat /\ issued \in Nat /\ missed \in Nat /\ long \in BOOLEAN
      /\ lastSeen \in Nat \cup {Never} /\ Period \in Nat \ {0} /\ PollEvery \in Nat \ {0} /\ Lag \in Nat
      /\ \A p \in Polls : poll[p].from \in Nat
  BY ContactNumbers
<1>1. PICK c \in Nat : c = Cardinality(Out)
  BY Counting DEF Out
<1>2. issued - lastSeen <= Period * (missed + c) /\ wall - issued < Period
  BY <1>1 DEF Contact
<1>3. /\ Period * (missed + 1) = Period * missed + Period
      /\ Period * (missed + c) = Period * missed + Period * c
  BY <1>0
<1>4. CASE c = 0
  BY <1>0, <1>2, <1>3, <1>4
<1>5. CASE c # 0
  <2>1. PICK p \in Out : TRUE
    BY <1>1, <1>5, Counting
  <2>2. p \in Polls /\ poll[p].from <= issued /\ wall - poll[p].from <= Lag
    BY <2>1 DEF Contact, Out
  <2>3. CASE long
    <3>1. Out = {p}
      BY <2>1, <2>3 DEF Lone, Out, Outstanding, At
    <3>2. c = 1
      BY <1>1, <2>2, <3>1, Counting
    <3> QED BY <1>0, <1>2, <2>2, <3>2
  <2>4. CASE ~long
    <3>1. PICK n \in Nat : (wall <= Lag /\ n = 0) \/ (wall > Lag /\ n = wall - Lag)
      <4>1. CASE wall <= Lag
        BY <4>1
      <4>2. CASE ~(wall <= Lag)
        <5>1. wall - Lag \in Nat /\ wall > Lag
          BY <1>0, <4>2
        <5> QED BY <5>1
      <4> QED BY <4>1, <4>2
    <3>2. n <= issued /\ \A o \in Out : poll[o].from >= n
      <4>1. \A o \in Out : poll[o].from \in Nat /\ wall - poll[o].from <= Lag
        BY <1>0 DEF Contact, Out
      <4> QED BY <1>0, <2>2, <3>1, <4>1
    <3>3. OutSince(n) = Out
      BY <3>2 DEF OutSince
    <3>4. c * PollEvery <= issued - n + PollEvery
      BY <1>1, <2>4, <3>2, <3>3 DEF Contact
    <3>5. Period = PollEvery /\ Period * c = c * PollEvery
      BY <1>0, <2>4 DEF Period
    <3>6. wall - n <= Lag
      BY <1>0, <3>1
    <3> QED BY <1>0, <1>2, <1>3, <3>4, <3>5, <3>6
  <2> QED BY <1>0, <2>3, <2>4
<1> QED BY <1>4, <1>5

(* A live plugin's machine goes stale only by requests that do not arrive,  *)
(* each of which costs at most one watchdog period or one poll period.      *)
THEOREM NeverStale == Spec => []StaysFresh
<1>1. Init => Contact
  BY ContactInit
<1>2. IInv /\ IInv' /\ Contact /\ [Next]_vars => Contact'
  BY ContactStep DEF IInv
<1>3. IInv /\ Contact => StaysFresh
  BY ContactMeans DEF IInv
<1> QED BY <1>1, <1>2, <1>3, Inductive, PTL DEF Spec
-----------------------------------------------------------------------------
(***************************************************************************)
(* The refresh button.                                                     *)
(***************************************************************************)
(* The last tick, from the click, at which the promise is still kept. *)
Latest == Prompt - 1

(* A poll whose answer will carry, or carries, a refresh that is news. *)
Brings(q) == q.pc # "back" \/ (q.ok /\ q.seq > lastSeq)

(* How long after its leg began the news is here: by this long poll or, if   *)
(* it was answered too early, by the next one.                               *)
Still(q) ==
    IF q.pc = "parked" THEN Hold + Lag
    ELSE IF ~Brings(q) THEN Hold + 3 * Lag + 1
    ELSE IF q.pc = "back" \/ q.again THEN Lag ELSE Hold + 2 * Lag

OnItsWay ==
    /\ lastSeq < refreshSeq
    /\ long => /\ \A p \in Outstanding : poll[p].from + Still(poll[p]) <= clicked + Latest
               /\ Outstanding = {} => wall <= clicked + Lag
    /\ ~long => \/ issued <= clicked
                \/ \E p \in Outstanding : Brings(poll[p]) /\ poll[p].from + Lag <= clicked + Latest

Abreast ==
    /\ lastSeq <= refreshSeq
    /\ \A p \in Outstanding : poll[p].seq <= refreshSeq /\ poll[p].from <= wall
    /\ long => (inflight => Outstanding # {})
    /\ ~long => \A p \in Outstanding : poll[p].pc # "parked" /\ wall - poll[p].from <= Lag

Served ==
    clicked # Never =>
        /\ lastSeen # Never /\ clicked <= wall /\ wall <= clicked + Latest
        /\ ~gate.force => OnItsWay

Quiet == faults = 0 /\ restarts = 0
Fetched == Quiet => Abreast /\ Served

LEMMA FetchNumbers ==
    ASSUME TypeInv
    PROVE  /\ wall \in Nat /\ issued \in Nat /\ lastSeq \in Nat /\ refreshSeq \in Nat
           /\ Lag \in Nat /\ Hold \in Nat /\ PollEvery \in Nat /\ long \in BOOLEAN
           /\ clicked \in Nat \cup {Never}
           /\ gate.force \in BOOLEAN
           /\ \A p \in Polls : poll[p] \in Poll /\ poll[p].from \in Nat /\ poll[p].seq \in Nat
           /\ \A q \in Poll : q.from \in Nat /\ q.seq \in Nat
           /\ faults \in Nat /\ restarts \in Nat
<1>1. TypeOK
  BY DEF TypeInv
<1>2. \A q \in Poll : q.from \in Nat /\ q.seq \in Nat
  BY GateAssumption, ControlAssumption DEF Poll
<1>3. gate.force \in BOOLEAN
  BY <1>1 DEF TypeOK, GateTypeOK, Gate
<1> QED BY <1>1, <1>2, <1>3, ControlAssumption, GateAssumption DEF TypeOK, GateTypeOK

(* A tick takes a poll no further than its leg allows. *)
LEMMA StillBounds ==
    ASSUME TypeInv, NEW q \in Poll
    PROVE  /\ Still(q) \in Nat
           /\ long => Still(q) <= Latest
           /\ q.pc = "parked" => Still(q) = Hold + Lag
           /\ q.pc # "parked" => Still(q) >= Lag
           /\ long => Latest = Hold + 3 * Lag + 1
           /\ ~long => Latest = PollEvery + 3 * Lag + 1
           /\ Latest \in Nat
<1>1. Lag \in Nat /\ Hold \in Nat /\ PollEvery \in Nat /\ long \in BOOLEAN
  BY FetchNumbers
<1>2. Latest = (IF long THEN Hold ELSE PollEvery) + 3 * Lag + 1
  BY <1>1 DEF Latest, Prompt
<1>3. Still(q) \in {Hold + Lag, Hold + 3 * Lag + 1, Lag, Hold + 2 * Lag}
  BY DEF Still
<1> QED BY <1>1, <1>2, <1>3 DEF Still

(* What OnItsWay asks of the polls, for a step that leaves the rest alone:   *)
(* every one is as near to its news as it was.                               *)
LEMMA FetchedKept ==
    ASSUME TypeInv, TypeInv', Lone, Abreast, Served, Quiet,
           UNCHANGED <<wall, long, inflight, issued, lastSeq, refreshSeq, clicked, gate, faults, restarts>>,
           Outstanding' = Outstanding, lastSeen # Never => lastSeen' # Never,
           \A p \in Outstanding :
              /\ poll'[p].seq <= refreshSeq /\ poll'[p].from <= wall
              /\ ~long => poll'[p].pc # "parked" /\ poll'[p].from = poll[p].from
              /\ clicked # Never /\ OnItsWay =>
                    /\ long => (poll[p].from + Still(poll[p]))' <= poll[p].from + Still(poll[p])
                    /\ Brings(poll[p]) => Brings(poll[p])'
    PROVE  Fetched'
<1>1. Abreast'
  BY DEF Abreast
<1>2. Latest' = Latest
  BY DEF Latest, Prompt
<1>3. ASSUME clicked # Never, OnItsWay PROVE OnItsWay'
  <2>1. lastSeq' < refreshSeq'
    BY <1>3 DEF OnItsWay
  <2>2. ASSUME long, NEW p \in Outstanding
        PROVE  (poll[p].from + Still(poll[p]))' <= clicked + Latest
    <3>1. /\ poll[p].from + Still(poll[p]) <= clicked + Latest
          /\ (poll[p].from + Still(poll[p]))' <= poll[p].from + Still(poll[p])
      BY <1>3, <2>2 DEF OnItsWay
    <3>2. poll[p] \in Poll /\ poll'[p] \in Poll
      BY FetchNumbers DEF TypeInv, TypeOK, Outstanding
    <3>3. poll[p].from \in Nat /\ poll'[p].from \in Nat /\ Still(poll[p]) \in Nat /\ clicked \in Nat /\ Latest \in Nat
      BY <1>3, <3>2, FetchNumbers, StillBounds
    <3>4. (Still(poll[p]))' \in Nat
      BY FetchNumbers DEF Still
    <3> QED BY <3>1, <3>3, <3>4
  <2>3. ASSUME ~long, NEW p \in Outstanding, Brings(poll[p]), poll[p].from + Lag <= clicked + Latest
        PROVE  Brings(poll[p])' /\ poll'[p].from + Lag <= clicked + Latest
    BY <1>3, <2>3
  <2> QED BY <1>2, <1>3, <2>1, <2>2, <2>3 DEF OnItsWay
<1>4. Served'
  BY <1>2, <1>3 DEF Served
<1> QED BY <1>1, <1>4 DEF Fetched

(* One poll p changes to q. *)
LEMMA FetchedSet ==
    ASSUME TypeInv, TypeInv', Lone, Abreast, Served, Quiet,
           UNCHANGED <<wall, long, inflight, issued, lastSeq, refreshSeq, clicked, gate, faults, restarts>>,
           NEW p \in Outstanding, NEW q \in Poll, Set(p, q), q.pc # "free",
           lastSeen # Never => lastSeen' # Never,
           q.seq <= refreshSeq, q.from <= wall,
           ~long => q.pc # "parked" /\ q.from = poll[p].from,
           clicked # Never /\ OnItsWay =>
              /\ long => q.from + Still(q) <= poll[p].from + Still(poll[p])
              /\ Brings(poll[p]) => Brings(q)
    PROVE  Fetched'
<1>1. poll'[p] = q /\ \A o \in Polls : o # p => poll'[o] = poll[o]
  BY DEF Set, TypeInv, TypeOK, Outstanding
<1>2. Outstanding' = Outstanding
  BY <1>1 DEF Outstanding, At
<1>3. Brings(q)' = Brings(q) /\ \A o : Brings(poll[o])' = (poll'[o].pc # "back" \/ (poll'[o].ok /\ poll'[o].seq > lastSeq))
  BY DEF Brings
<1>4. \A o \in Outstanding \ {p} : /\ (poll[o].from + Still(poll[o]))' = poll[o].from + Still(poll[o])
                                   /\ Brings(poll[o])' = Brings(poll[o])
  BY <1>1, <1>2 DEF Outstanding, Still, Brings
<1>5. (poll[p].from + Still(poll[p]))' = q.from + Still(q) /\ Brings(poll[p])' = Brings(q)
  BY <1>1 DEF Still, Brings
<1>6. \A o \in Outstanding : (poll[o].from + Still(poll[o])) \in Int
  <2> TAKE o \in Outstanding
  <2>1. poll[o] \in Poll /\ poll[o].from \in Nat
    BY FetchNumbers DEF Outstanding
  <2>2. Still(poll[o]) \in Nat
    BY <2>1, StillBounds
  <2> QED BY <2>1, <2>2
<1>7. ASSUME NEW o \in Outstanding
      PROVE  /\ poll'[o].seq <= refreshSeq /\ poll'[o].from <= wall
             /\ ~long => poll'[o].pc # "parked" /\ poll'[o].from = poll[o].from
             /\ clicked # Never /\ OnItsWay =>
                   /\ long => (poll[o].from + Still(poll[o]))' <= poll[o].from + Still(poll[o])
                   /\ Brings(poll[o]) => Brings(poll[o])'
  <2>1. CASE o = p
    BY <1>1, <1>5, <2>1
  <2>2. CASE o # p
    <3>1. poll'[o] = poll[o]
      BY <1>1, <2>2 DEF Outstanding
    <3> QED BY <1>4, <1>6, <2>2, <3>1 DEF Abreast
  <2> QED BY <2>1, <2>2
<1> QED BY <1>2, <1>7, FetchedKept

(* Held polls are released: their news is nearer by what is left of the hold. *)
LEMMA FetchedRelease ==
    ASSUME TypeInv, Lone, Abreast, NEW ps \in SUBSET Polls, poll' = Release(ps), UNCHANGED <<wall, long, lastSeq>>
    PROVE  /\ Outstanding' = Outstanding
           /\ \A p \in Outstanding :
                 /\ poll'[p].seq <= refreshSeq /\ poll'[p].from <= wall
                 /\ ~long => poll'[p] = poll[p]
                 /\ long => (poll[p].from + Still(poll[p]))' <= poll[p].from + Still(poll[p])
                 /\ Brings(poll[p]) => Brings(poll[p])'
<1>0. /\ wall \in Nat /\ Lag \in Nat /\ Hold \in Nat /\ long \in BOOLEAN /\ refreshSeq \in Nat
      /\ \A o \in Polls : poll[o] \in Poll /\ poll[o].from \in Nat
  BY FetchNumbers
<1>1. \A p \in Polls : poll'[p] = IF p \in ps /\ At(p, "parked")
                     THEN [poll[p] EXCEPT !.pc = "compute", !.again = TRUE, !.from = wall]
                     ELSE poll[p]
  BY DEF Release
<1>2. Outstanding' = Outstanding
  BY <1>1 DEF Outstanding, At, TypeInv, TypeOK, Poll
<1>3. ASSUME NEW p \in Outstanding
      PROVE  /\ poll'[p].seq <= refreshSeq /\ poll'[p].from <= wall
             /\ ~long => poll'[p] = poll[p]
             /\ long => (poll[p].from + Still(poll[p]))' <= poll[p].from + Still(poll[p])
             /\ Brings(poll[p]) => Brings(poll[p])'
  <2>1. p \in Polls /\ poll[p].seq <= refreshSeq /\ poll[p].from <= wall
    BY DEF Outstanding, Abreast
  <2>2. CASE p \in ps /\ At(p, "parked")
    <3>1. /\ poll'[p].pc = "compute" /\ poll'[p].again /\ poll'[p].from = wall /\ poll'[p].seq = poll[p].seq
      BY <1>0, <1>1, <2>1, <2>2 DEF Poll
    <3>2. long
      BY <1>0, <2>2 DEF Abreast, At
    <3>3. wall - poll[p].from <= Hold
      BY <2>2, <3>2 DEF Lone, Timed, At
    <3>4. Still(poll[p]) = Hold + Lag /\ (Still(poll[p]))' = Lag /\ Brings(poll[p])'
      BY <2>2, <3>1 DEF Still, Brings, At
    <3> QED BY <1>0, <2>1, <3>1, <3>2, <3>3, <3>4
  <2>3. CASE ~(p \in ps /\ At(p, "parked"))
    <3>1. poll'[p] = poll[p]
      BY <1>1, <2>1, <2>3
    <3>2. (Still(poll[p]))' = Still(poll[p]) /\ Brings(poll[p])' = Brings(poll[p])
      BY <3>1 DEF Still, Brings
    <3>3. Still(poll[p]) \in Nat
      BY <1>0, <2>1, StillBounds
    <3> QED BY <1>0, <2>1, <3>1, <3>2, <3>3
  <2> QED BY <2>2, <2>3
<1> QED BY <1>2, <1>3

(* A tick: what the gate still has to send was not asked for by a click, and *)
(* what a click asked for is looked for by the poll that goes out.           *)
LEMMA FetchedTimer ==
    ASSUME TypeInv, TypeInv', Lone, Lone', Contact, Contact', Abreast, Served, Quiet, Timer
    PROVE  Fetched'
<1>0. /\ wall \in Nat /\ issued \in Nat /\ lastSeq \in Nat /\ refreshSeq \in Nat
      /\ Lag \in Nat /\ Hold \in Nat /\ PollEvery \in Nat /\ long \in BOOLEAN
      /\ clicked \in Nat \cup {Never} /\ gate.force \in BOOLEAN
      /\ \A p \in Polls : poll[p] \in Poll /\ poll[p].from \in Nat /\ poll[p].seq \in Nat
  BY FetchNumbers
<1>1. /\ wall' = wall + 1 /\ Timely /\ Issue /\ UNCHANGED <<long, lastSeq, refreshSeq>>
      /\ clicked' = IF gate'.at = wall' THEN Never ELSE clicked
  BY DEF Timer, Tick, presence
<1>2. lastSeen # Never => lastSeen' # Never
  BY <1>0, <1>1 DEF Timer, Never
<1>3. \A p \in Outstanding : p \in Polls /\ wall - poll[p].from < IF At(p, "parked") THEN Hold ELSE Lag
  BY <1>1 DEF Timely, Outstanding
<1>4. Latest' = Latest /\ Latest \in Nat /\ (long => Latest = Hold + 3 * Lag + 1) /\ (~long => Latest = PollEvery + 3 * Lag + 1)
  BY <1>1, StillBounds, NoPollType DEF Latest, Prompt
<1>5. clicked' # Never => ~gate.force /\ gate' = gate /\ clicked' = clicked
  <2> SUFFICES ASSUME clicked' # Never PROVE ~gate.force /\ gate' = gate
    BY <1>1
  <2>1. PICK sig \in Signature : Tick(sig)
    BY DEF Timer
  <2>2. CASE Decide(sig)
    <3>1. gate' = Sent(sig) /\ gate \in Gate
      BY <2>1, <2>2 DEF Tick, TypeInv, TypeOK, GateTypeOK
    <3>2. gate'.at = wall'
      BY <3>1 DEF Sent, Gate
    <3> QED BY <1>1, <3>2
  <2>3. CASE ~Decide(sig)
    BY <2>1, <2>3 DEF Tick, Decide
  <2> QED BY <2>2, <2>3
<1>6. CASE ~Due(wall')
  <2>1. UNCHANGED <<poll, inflight, issued>>
    BY <1>1, <1>6 DEF Issue
  <2>2. Outstanding' = Outstanding
    BY <2>1 DEF Outstanding, At
  <2>3. \A o : (Still(poll[o]))' = Still(poll[o]) /\ Brings(poll[o])' = Brings(poll[o])
    BY <1>1, <2>1 DEF Still, Brings
  <2>4. Abreast'
    <3>1. ~long => \A p \in Outstanding : wall' - poll[p].from <= Lag
      BY <1>0, <1>1, <1>3 DEF Abreast, At
    <3>2. \A p \in Outstanding : poll[p].from <= wall'
      BY <1>0, <1>1, <1>3 DEF Abreast
    <3> QED BY <1>1, <2>1, <2>2, <3>1, <3>2 DEF Abreast
  <2>5. ASSUME clicked' # Never
        PROVE  lastSeen' # Never /\ clicked' <= wall' /\ wall' <= clicked' + Latest' /\ OnItsWay'
    <3>1. clicked' = clicked /\ lastSeen # Never /\ clicked <= wall /\ OnItsWay /\ clicked \in Nat
      BY <1>0, <1>5, <2>5 DEF Served
    <3>2. long => Outstanding # {}
      BY <1>1, <1>6 DEF Due, Abreast
    <3>3. OnItsWay'
      BY <1>1, <1>4, <2>1, <2>2, <2>3, <3>1, <3>2 DEF OnItsWay
    <3>4. wall' <= clicked + Latest
      <4>1. CASE long
        <5>1. PICK p \in Outstanding : poll[p].from + Still(poll[p]) <= clicked + Latest
          BY <3>1, <3>2, <4>1 DEF OnItsWay
        <5>2. /\ poll[p].pc = "parked" => Still(poll[p]) = Hold + Lag
              /\ poll[p].pc # "parked" => Still(poll[p]) >= Lag
              /\ Still(poll[p]) \in Nat
          BY <1>0, <1>3, StillBounds
        <5> QED BY <1>0, <1>1, <1>3, <1>4, <3>1, <5>1, <5>2 DEF At
      <4>2. CASE ~long
        <5>1. CASE issued <= clicked
          <6>1. wall' - issued' < PollEvery
            BY <1>1, <4>2 DEF Contact, Period
          <6> QED BY <1>0, <1>1, <1>4, <2>1, <3>1, <4>2, <5>1, <6>1
        <5>2. CASE \E p \in Outstanding : poll[p].from + Lag <= clicked + Latest
          <6>1. PICK p \in Outstanding : poll[p].from + Lag <= clicked + Latest
            BY <5>2
          <6>2. wall - poll[p].from < Lag /\ poll[p].from \in Nat
            BY <1>0, <1>3, <4>2 DEF Abreast, At
          <6> QED BY <1>0, <1>1, <1>4, <3>1, <6>1, <6>2
        <5> QED BY <3>1, <4>2, <5>1, <5>2 DEF OnItsWay
      <4> QED BY <1>0, <4>1, <4>2
    <3> QED BY <1>0, <1>1, <1>2, <1>4, <3>1, <3>3, <3>4
  <2> QED BY <2>4, <2>5 DEF Fetched, Served
<1>7. CASE Due(wall')
  <2>1. PICK p \in Polls \ Outstanding : Set(p, [NoPoll EXCEPT !.pc = "out", !.from = wall'])
    BY <1>1, <1>7 DEF Issue
  <2>2. issued' = wall' /\ inflight'
    BY <1>1, <1>7 DEF Issue
  <2>3. /\ poll'[p] = [NoPoll EXCEPT !.pc = "out", !.from = wall'] /\ \A o \in Polls : o # p => poll'[o] = poll[o]
    BY <2>1 DEF Set, TypeInv, TypeOK
  <2>4. poll'[p].pc = "out" /\ poll'[p].from = wall' /\ poll'[p].seq = 0 /\ poll'[p].again = FALSE
    BY <2>3 DEF NoPoll
  <2>5. Outstanding' = Outstanding \cup {p}
    BY <2>1, <2>3, <2>4 DEF Outstanding, At
  <2>6. long => Outstanding' = {p}
    BY <1>1, <2>5 DEF Lone
  <2>7. Abreast'
    <3>1. ~long => \A o \in Outstanding : wall' - poll[o].from <= Lag
      BY <1>0, <1>1, <1>3 DEF Abreast, At
    <3>2. \A o \in Outstanding : poll[o].from <= wall' /\ poll'[o] = poll[o]
      BY <1>0, <1>1, <1>3, <2>1, <2>3 DEF Abreast
    <3> QED BY <1>0, <1>1, <2>4, <2>5, <3>1, <3>2 DEF Abreast
  <2>8. ASSUME clicked' # Never
        PROVE  lastSeen' # Never /\ clicked' <= wall' /\ wall' <= clicked' + Latest' /\ OnItsWay'
    <3>1. clicked' = clicked /\ lastSeen # Never /\ clicked <= wall /\ OnItsWay /\ clicked \in Nat
      BY <1>0, <1>5, <2>8 DEF Served
    <3>2. CASE long
      <4>1. Outstanding = {}
        BY <2>1, <2>5, <2>6, <3>2
      <4>2. wall <= clicked + Lag
        BY <3>1, <3>2, <4>1 DEF OnItsWay
      <4>3. (Still(poll[p]))' = Hold + 2 * Lag
        BY <2>4 DEF Still, Brings
      <4>4. wall' + (Hold + 2 * Lag) <= clicked + Latest
        BY <1>0, <1>1, <1>4, <3>1, <3>2, <4>2
      <4>5. \A o \in Outstanding' : (poll[o].from + Still(poll[o]))' <= clicked' + Latest'
        BY <1>4, <2>4, <2>6, <3>1, <3>2, <4>3, <4>4
      <4>6. OnItsWay'
        BY <1>1, <2>6, <3>1, <3>2, <4>5 DEF OnItsWay
      <4>7. wall' <= clicked + Latest
        BY <1>0, <1>1, <1>4, <3>1, <4>4
      <4> QED BY <1>0, <1>1, <1>2, <1>4, <3>1, <4>6, <4>7
    <3>3. CASE ~long
      <4>1. CASE issued <= clicked
        <5>1. wall - issued < PollEvery
          BY <3>3 DEF Contact, Period
        <5>2. wall' + Lag <= clicked + Latest
          BY <1>0, <1>1, <1>4, <3>1, <3>3, <4>1, <5>1
        <5>3. Brings(poll[p])'
          BY <2>4 DEF Brings
        <5>4. OnItsWay'
          BY <1>1, <1>4, <2>4, <2>5, <3>1, <3>3, <5>2, <5>3 DEF OnItsWay
        <5> QED BY <1>0, <1>1, <1>2, <1>4, <3>1, <5>2, <5>4
      <4>2. CASE \E o \in Outstanding : Brings(poll[o]) /\ poll[o].from + Lag <= clicked + Latest
        <5>1. PICK o \in Outstanding : Brings(poll[o]) /\ poll[o].from + Lag <= clicked + Latest
          BY <4>2
        <5>2. poll'[o] = poll[o] /\ o \in Outstanding'
          BY <1>3, <2>1, <2>3, <2>5
        <5>3. Brings(poll[o])'
          BY <1>1, <5>1, <5>2 DEF Brings
        <5>4. OnItsWay'
          BY <1>1, <1>4, <3>1, <3>3, <5>1, <5>2, <5>3 DEF OnItsWay
        <5>5. wall - poll[o].from < Lag /\ poll[o].from \in Nat
          BY <1>0, <1>3, <3>3 DEF Abreast, At
        <5> QED BY <1>0, <1>1, <1>2, <1>4, <3>1, <5>1, <5>4, <5>5
      <4> QED BY <3>1, <3>3, <4>1, <4>2 DEF OnItsWay
    <3> QED BY <1>0, <3>2, <3>3
  <2> QED BY <2>7, <2>8 DEF Fetched, Served
<1> QED BY <1>6, <1>7

(* An answer: it is the news, or the next poll will be issued in time.       *)
LEMMA FetchedHandle ==
    ASSUME TypeInv, TypeInv', Lone, Contact, Abreast, Served, Quiet, NEW p \in Polls, Handle(p)
    PROVE  Fetched'
<1>0. /\ wall \in Nat /\ issued \in Nat /\ lastSeq \in Nat /\ refreshSeq \in Nat
      /\ Lag \in Nat /\ Hold \in Nat /\ PollEvery \in Nat /\ long \in BOOLEAN
      /\ clicked \in Nat \cup {Never} /\ gate.force \in BOOLEAN
      /\ \A o \in Polls : poll[o] \in Poll /\ poll[o].from \in Nat /\ poll[o].seq \in Nat
  BY FetchNumbers
<1> DEFINE news == poll[p].ok /\ poll[p].seq > lastSeq
<1>1. /\ poll[p].pc = "back" /\ p \in Outstanding /\ inflight' = FALSE /\ Set(p, NoPoll)
      /\ UNCHANGED <<wall, long, issued, lastSeen, refreshSeq, clicked, faults, restarts>>
  <2>1. poll[p].ok => UNCHANGED <<wall, sample, since>>
    BY DEF Handle, Hurry
  <2>2. ~poll[p].ok => UNCHANGED <<wall, sample, since>>
    BY DEF Handle, gateVars
  <2> QED BY <2>1, <2>2 DEF Handle, At, Outstanding, presence, history, counters
<1>2. lastSeq' = IF news THEN poll[p].seq ELSE lastSeq
  BY <1>0 DEF Handle, News
<1>3. (gate.force => gate'.force) /\ (news => gate'.force)
  <2>1. CASE poll[p].ok
    <3>1. gate' = Hurried(gate, poll[p].watched, poll[p].secs, News(poll[p].seq)) /\ gate \in Gate
      BY <2>1 DEF Handle, Hurry, TypeInv, TypeOK, GateTypeOK
    <3>2. gate'.force = (gate.force \/ (poll[p].watched /\ ~gate.watched) \/ News(poll[p].seq))
      BY <3>1 DEF Hurried, Gate
    <3> QED BY <2>1, <3>2 DEF News
  <2>2. CASE ~poll[p].ok
    BY <2>2 DEF Handle, gateVars
  <2> QED BY <2>1, <2>2
<1>4. poll'[p] = NoPoll /\ \A o \in Polls : o # p => poll'[o] = poll[o]
  BY <1>1 DEF Set, TypeInv, TypeOK
<1>5. Outstanding' = Outstanding \ {p}
  BY <1>4 DEF Outstanding, At, NoPoll
<1>6. Latest' = Latest /\ Latest \in Nat /\ (long => Latest = Hold + 3 * Lag + 1) /\ (~long => Latest = PollEvery + 3 * Lag + 1)
  BY <1>1, StillBounds, NoPollType DEF Latest, Prompt
<1>7. lastSeq' <= refreshSeq'
  BY <1>1, <1>2 DEF Abreast
<1>8. Abreast'
  <2>1. \A o \in Outstanding' : o \in Outstanding /\ poll'[o] = poll[o]
    BY <1>4, <1>5 DEF Outstanding
  <2> QED BY <1>1, <1>7, <2>1 DEF Abreast
<1>9. ASSUME clicked # Never, ~gate'.force
      PROVE  OnItsWay'
  <2>1. OnItsWay /\ ~news /\ lastSeq' = lastSeq
    BY <1>2, <1>3, <1>9 DEF Served
  <2>2. ~Brings(poll[p])
    BY <1>1, <2>1 DEF Brings
  <2>3. CASE long
    <3>1. Outstanding' = {}
      BY <1>1, <1>5, <2>3 DEF Lone
    <3>2. poll[p].from + Still(poll[p]) <= clicked + Latest
      BY <1>1, <2>1, <2>3 DEF OnItsWay
    <3>3. Still(poll[p]) = Hold + 3 * Lag + 1
      BY <1>1, <2>2 DEF Still
    <3>4. wall - poll[p].from <= Lag
      BY <1>1, <2>3 DEF Lone, Timed
    <3>5. wall <= clicked + Lag
      BY <1>0, <1>6, <1>9, <2>3, <3>2, <3>3, <3>4
    <3> QED BY <1>1, <2>1, <2>3, <3>1, <3>5 DEF OnItsWay
  <2>4. CASE ~long
    <3>1. CASE issued <= clicked
      BY <1>1, <2>1, <2>4, <3>1 DEF OnItsWay
    <3>2. CASE \E o \in Outstanding : Brings(poll[o]) /\ poll[o].from + Lag <= clicked + Latest
      <4>1. PICK o \in Outstanding : Brings(poll[o]) /\ poll[o].from + Lag <= clicked + Latest
        BY <3>2
      <4>2. o # p /\ o \in Outstanding' /\ poll'[o] = poll[o]
        BY <1>4, <1>5, <2>2, <4>1 DEF Outstanding
      <4>3. Brings(poll[o])'
        BY <2>1, <4>1, <4>2 DEF Brings
      <4> QED BY <1>1, <1>6, <2>1, <2>4, <4>1, <4>2, <4>3 DEF OnItsWay
    <3> QED BY <2>1, <2>4, <3>1, <3>2 DEF OnItsWay
  <2> QED BY <1>0, <2>3, <2>4
<1>10. Served'
  BY <1>1, <1>6, <1>9 DEF Served
<1> QED BY <1>8, <1>10 DEF Fetched

(* A click: whatever the polls are doing, there is time for the next one.    *)
LEMMA FetchedRefresh ==
    ASSUME TypeInv, TypeInv', Lone, Contact, Abreast, Served, Quiet, Refresh
    PROVE  Fetched'
<1>0. /\ wall \in Nat /\ issued \in Nat /\ lastSeq \in Nat /\ refreshSeq \in Nat
      /\ Lag \in Nat /\ Hold \in Nat /\ PollEvery \in Nat /\ long \in BOOLEAN
      /\ clicked \in Nat \cup {Never}
      /\ \A o \in Polls : poll[o] \in Poll /\ poll[o].from \in Nat /\ poll[o].seq \in Nat
  BY FetchNumbers
<1>1. /\ refreshSeq' = refreshSeq + 1 /\ poll' = Release(Polls) /\ lastSeen # Never
      /\ clicked' = IF clicked = Never THEN wall ELSE clicked
      /\ UNCHANGED <<wall, long, inflight, issued, lastSeq, gate, lastSeen, faults, restarts>>
  BY DEF Refresh, WakeAll, gateVars, plugin
<1>2. /\ Outstanding' = Outstanding
      /\ \A p \in Outstanding :
            /\ poll'[p].seq <= refreshSeq /\ poll'[p].from <= wall
            /\ ~long => poll'[p] = poll[p]
            /\ long => (poll[p].from + Still(poll[p]))' <= poll[p].from + Still(poll[p])
            /\ Brings(poll[p]) => Brings(poll[p])'
  BY <1>1, FetchedRelease
<1>3. Latest' = Latest /\ Latest \in Nat
  BY <1>1, StillBounds, NoPollType DEF Latest, Prompt
<1>4. \A p \in Outstanding : p \in Polls /\ poll'[p].seq \in Nat /\ poll'[p] \in Poll
  BY <1>1, FetchNumbers DEF Outstanding, TypeInv, TypeOK
<1>5. Abreast'
  BY <1>0, <1>1, <1>2, <1>4 DEF Abreast
<1>6. ASSUME NEW p \in Outstanding, long
      PROVE  /\ (poll[p].from + Still(poll[p]))' \in Int
             /\ poll[p].from + Still(poll[p]) <= wall + Latest
  <2>1. p \in Polls /\ poll[p].from <= wall /\ Still(poll[p]) \in Nat /\ Still(poll[p]) <= Latest
    BY <1>0, <1>4, <1>6, StillBounds DEF Abreast
  <2>2. (Still(poll[p]))' \in Nat /\ poll'[p].from \in Nat
    BY <1>0, <1>4, FetchNumbers DEF Still
  <2> QED BY <1>0, <1>3, <2>1, <2>2
<1>7. ASSUME long, NEW p \in Outstanding
      PROVE  (poll[p].from + Still(poll[p]))' <= poll[p].from + Still(poll[p])
             /\ poll[p].from + Still(poll[p]) \in Int
  <2>1. Still(poll[p]) \in Nat /\ p \in Polls
    BY <1>0, <1>4, StillBounds
  <2> QED BY <1>0, <1>2, <1>7, <2>1
<1>8. lastSeq < refreshSeq'
  BY <1>0, <1>1 DEF Abreast
<1>9. CASE clicked = Never
  <2>1. clicked' = wall
    BY <1>1, <1>9
  <2>2. long => \A p \in Outstanding : (poll[p].from + Still(poll[p]))' <= wall + Latest
    <3> SUFFICES ASSUME long, NEW p \in Outstanding PROVE (poll[p].from + Still(poll[p]))' <= wall + Latest
      OBVIOUS
    <3>1. PICK a \in Int : a = (poll[p].from + Still(poll[p]))'
      BY <1>6
    <3>2. PICK b \in Int : b = poll[p].from + Still(poll[p])
      BY <1>7
    <3> QED BY <1>0, <1>3, <1>6, <1>7, <3>1, <3>2
  <2>3. issued <= wall
    BY DEF Contact
  <2>4. OnItsWay'
    BY <1>0, <1>1, <1>2, <1>3, <1>8, <2>1, <2>2, <2>3 DEF OnItsWay
  <2>5. Served'
    BY <1>0, <1>1, <1>3, <2>1, <2>4 DEF Served
  <2> QED BY <1>5, <2>5 DEF Fetched
<1>10. CASE clicked # Never
  <2>1. clicked' = clicked /\ clicked \in Nat
    BY <1>0, <1>1, <1>10
  <2>2. ASSUME OnItsWay PROVE OnItsWay'
    <3>1. long => \A p \in Outstanding : (poll[p].from + Still(poll[p]))' <= clicked + Latest
      <4> SUFFICES ASSUME long, NEW p \in Outstanding PROVE (poll[p].from + Still(poll[p]))' <= clicked + Latest
        OBVIOUS
      <4>1. PICK a \in Int : a = (poll[p].from + Still(poll[p]))'
        BY <1>6
      <4>2. PICK b \in Int : b = poll[p].from + Still(poll[p])
        BY <1>7
      <4>3. b <= clicked + Latest
        BY <2>2, <4>2 DEF OnItsWay
      <4> QED BY <1>3, <1>7, <2>1, <4>1, <4>2, <4>3
    <3>2. ASSUME ~long
          PROVE  issued <= clicked \/ \E p \in Outstanding : Brings(poll[p])' /\ poll'[p].from + Lag <= clicked + Latest
      BY <1>2, <2>2, <3>2 DEF OnItsWay
    <3> QED BY <1>1, <1>2, <1>3, <1>8, <2>1, <2>2, <3>1, <3>2 DEF OnItsWay
  <2>3. Served'
    BY <1>1, <1>3, <1>10, <2>1, <2>2 DEF Served
  <2> QED BY <1>5, <2>3 DEF Fetched
<1> QED BY <1>9, <1>10

LEMMA FetchedStep ==
    ASSUME TypeInv, TypeInv', Lone, Lone', Contact, Contact', Fetched, [Next]_vars
    PROVE  Fetched'
<1> USE DEF plugin, gateVars, presence, history, counters
<1>1. ASSUME NEW p \in Polls, Lose(p) \/ Fail(p) PROVE Fetched'
  <2>1. faults' = faults + 1 /\ faults \in Nat
    BY <1>1, FetchNumbers DEF Lose, Fail
  <2>2. ~Quiet'
    BY <2>1 DEF Quiet
  <2> QED BY <2>2 DEF Fetched
<1>2. CASE Restart
  <2>1. restarts' = restarts + 1 /\ restarts \in Nat
    BY <1>2, FetchNumbers DEF Restart
  <2>2. ~Quiet'
    BY <2>1 DEF Quiet
  <2> QED BY <2>2 DEF Fetched
<1>3. ASSUME UNCHANGED <<faults, restarts>>, ~Quiet PROVE Fetched'
  BY <1>3 DEF Fetched, Quiet
<1>4. ASSUME Quiet PROVE Abreast /\ Served
  BY <1>4 DEF Fetched
<1>5. \A p \in Polls : poll[p] \in Poll /\ poll[p].from \in Nat /\ poll[p].seq \in Nat
  BY FetchNumbers
<1>00. /\ wall \in Nat /\ Lag \in Nat /\ Hold \in Nat /\ long \in BOOLEAN /\ lastSeq \in Nat /\ refreshSeq \in Nat
       /\ wall \in 0..MaxWall /\ refreshSeq \in 0..MaxClicks /\ watching \in BOOLEAN /\ pending \in BOOLEAN
  BY FetchNumbers DEF TypeInv, TypeOK, GateTypeOK
<1>6. CASE Timer
  <2>1. UNCHANGED <<faults, restarts>>
    BY <1>6 DEF Timer
  <2> QED BY <1>3, <1>4, <1>6, <2>1, FetchedTimer
<1>7. CASE Refresh
  <2>1. UNCHANGED <<faults, restarts>>
    BY <1>7 DEF Refresh
  <2> QED BY <1>3, <1>4, <1>7, <2>1, FetchedRefresh
<1>8. ASSUME NEW p \in Polls, Handle(p) PROVE Fetched'
  <2>1. UNCHANGED <<faults, restarts>>
    BY <1>8 DEF Handle
  <2> QED BY <1>3, <1>4, <1>8, <2>1, FetchedHandle
<1>9. ASSUME NEW ps \in SUBSET Polls, poll' = Release(ps),
             UNCHANGED <<wall, long, inflight, issued, lastSeq, refreshSeq, clicked, gate, faults, restarts, lastSeen>>
      PROVE  Fetched'
  <2> SUFFICES ASSUME Quiet PROVE Fetched'
    BY <1>3, <1>9
  <2>1. Outstanding' = Outstanding
        /\ \A p \in Outstanding :
              /\ poll'[p].seq <= refreshSeq /\ poll'[p].from <= wall
              /\ ~long => poll'[p].pc # "parked" /\ poll'[p].from = poll[p].from
              /\ long => (poll[p].from + Still(poll[p]))' <= poll[p].from + Still(poll[p])
              /\ Brings(poll[p]) => Brings(poll[p])'
    BY <1>4, <1>9, FetchedRelease DEF Abreast
  <2> QED BY <1>4, <1>9, <2>1, FetchedKept
<1>10. CASE RequestOutput
  BY <1>9, <1>10 DEF RequestOutput, WakeAll
<1>11. ASSUME NEW p \in Polls, TimeOut(p) PROVE Fetched'
  BY <1>9, <1>11 DEF TimeOut
<1>12. CASE SettleOutput \/ Presence \/ UNCHANGED vars
  <2>0. UNCHANGED <<poll, wall, long, inflight, issued, lastSeq, refreshSeq, clicked, gate, faults, restarts, lastSeen>>
    BY <1>12 DEF SettleOutput, Presence, vars
  <2> SUFFICES ASSUME Quiet PROVE Fetched'
    BY <1>3, <2>0
  <2>1. Outstanding' = Outstanding
    BY <2>0 DEF Outstanding, At
  <2>2. Abreast'
    BY <1>4, <2>0, <2>1 DEF Abreast
  <2>3. OnItsWay' = OnItsWay
    BY <2>0, <2>1 DEF OnItsWay, Latest, Prompt, Still, Brings
  <2>4. Served'
    BY <1>4, <2>0, <2>3 DEF Served, Latest, Prompt
  <2> QED BY <2>2, <2>4 DEF Fetched
<1>13. ASSUME NEW p \in Polls, Touch(p) PROVE Fetched'
  <2>0. /\ poll[p].pc = "out" /\ p \in Outstanding /\ lastSeen' # Never
        /\ UNCHANGED <<wall, long, inflight, issued, lastSeq, refreshSeq, clicked, gate, faults, restarts>>
    BY <1>00, <1>13 DEF Touch, At, Outstanding, Never
  <2> SUFFICES ASSUME Quiet PROVE Fetched'
    BY <1>3, <2>0
  <2>1. PICK secs \in Intervals : Set(p, [poll[p] EXCEPT !.pc = "compute", !.secs = secs])
    BY <1>13 DEF Touch
  <2>2. PICK q \in Poll : q = [poll[p] EXCEPT !.pc = "compute", !.secs = secs]
    BY <1>5 DEF Poll
  <2>3. q.pc = "compute" /\ q.from = poll[p].from /\ q.seq = poll[p].seq /\ q.again = poll[p].again
    BY <1>5, <2>2 DEF Poll
  <2>4. Still(q) = Still(poll[p]) /\ (Brings(poll[p]) => Brings(q))
    BY <2>0, <2>3 DEF Still, Brings
  <2>5. Still(q) \in Nat
    BY StillBounds
  <2>6. q.from + Still(q) <= poll[p].from + Still(poll[p])
    BY <1>5, <2>3, <2>4, <2>5
  <2>7. Set(p, q) /\ q.pc # "free" /\ q.pc # "parked"
    BY <2>1, <2>2, <2>3
  <2>8. q.seq <= refreshSeq /\ q.from <= wall
    BY <1>4, <2>0, <2>3 DEF Abreast
  <2> QED BY <1>4, <2>0, <2>3, <2>4, <2>6, <2>7, <2>8, FetchedSet
<1>14. ASSUME NEW p \in Polls, Refuse(p) PROVE Fetched'
  <2>0. /\ poll[p].pc = "out" /\ p \in Outstanding /\ lastSeen = Never
        /\ UNCHANGED <<wall, long, inflight, issued, lastSeq, refreshSeq, clicked, gate, faults, restarts, lastSeen>>
    BY <1>14 DEF Refuse, At, Outstanding
  <2>1. PICK q \in Poll : q = [poll[p] EXCEPT !.pc = "back"]
    BY <1>5 DEF Poll
  <2>2. q.pc = "back" /\ q.from = poll[p].from /\ q.seq = poll[p].seq /\ Set(p, q)
    BY <1>5, <1>14, <2>1 DEF Poll, Refuse
  <2>3. Quiet => clicked = Never
    BY <1>4, <2>0 DEF Served
  <2> QED BY <1>3, <1>4, <2>0, <2>1, <2>2, <2>3, FetchedSet DEF Abreast
<1>15. ASSUME NEW p \in Polls, ReadPending(p) PROVE Fetched'
  <2>0. /\ poll[p].pc = "compute" /\ p \in Outstanding
        /\ UNCHANGED <<wall, long, inflight, issued, lastSeq, refreshSeq, clicked, gate, faults, restarts, lastSeen>>
    BY <1>15 DEF ReadPending, At, Outstanding
  <2> SUFFICES ASSUME Quiet PROVE Fetched'
    BY <1>3, <2>0
  <2>1. PICK q \in Poll : q = [poll[p] EXCEPT !.pc = "read", !.found = pending]
    BY <1>00, <1>5 DEF Poll
  <2>2. q.pc = "read" /\ q.from = poll[p].from /\ q.seq = poll[p].seq /\ q.again = poll[p].again /\ Set(p, q)
    BY <1>5, <1>15, <2>1 DEF Poll, ReadPending
  <2>3. Still(q) = Still(poll[p]) /\ (Brings(poll[p]) => Brings(q)) /\ Still(q) \in Nat
    BY <2>0, <2>2, StillBounds DEF Still, Brings
  <2>4. q.from + Still(q) <= poll[p].from + Still(poll[p])
    BY <1>5, <2>2, <2>3
  <2>5. q.seq <= refreshSeq /\ q.from <= wall
    BY <1>4, <2>0, <2>2 DEF Abreast
  <2>6. q.pc # "free" /\ q.pc # "parked"
    BY <2>2
  <2> QED BY <1>4, <2>0, <2>2, <2>3, <2>4, <2>5, <2>6, FetchedSet
<1>16. ASSUME NEW p \in Polls, Answer(p) PROVE Fetched'
  <2>0. /\ poll[p].pc = "read" /\ p \in Outstanding /\ p \in Polls
        /\ UNCHANGED <<wall, long, inflight, issued, lastSeq, refreshSeq, clicked, gate, faults, restarts, lastSeen>>
    BY <1>16 DEF Answer, At, Outstanding
  <2> SUFFICES ASSUME Quiet PROVE Fetched'
    BY <1>3, <2>0
  <2>1. PICK r \in Poll : r = [poll[p] EXCEPT !.watched = watching, !.seq = refreshSeq]
    BY <1>00, <1>5 DEF Poll
  <2>2. r.seq = refreshSeq /\ r.from = poll[p].from /\ r.again = poll[p].again
    BY <1>5, <2>1 DEF Poll
  <2>3. IF Holds(r) THEN Set(p, [r EXCEPT !.pc = "parked", !.from = wall])
                    ELSE Set(p, [r EXCEPT !.pc = "back", !.ok = TRUE])
    BY <1>16, <2>1 DEF Answer
  <2>4. CASE Holds(r)
    <3>1. PICK q \in Poll : q = [r EXCEPT !.pc = "parked", !.from = wall]
      BY <1>00 DEF Poll
    <3>2. q.pc = "parked" /\ q.from = wall /\ q.seq = refreshSeq /\ Set(p, q)
      BY <2>1, <2>2, <2>3, <2>4, <3>1 DEF Poll
    <3>3. long /\ ~poll[p].again
      BY <2>2, <2>4 DEF Holds
    <3>4. Still(q) = Hold + Lag /\ Still(poll[p]) = Hold + 2 * Lag /\ Brings(q)
      BY <2>0, <3>2, <3>3 DEF Still, Brings
    <3>5. wall - poll[p].from <= Lag
      BY <2>0, <3>3 DEF Lone, Timed
    <3>6. q.from + Still(q) <= poll[p].from + Still(poll[p])
      BY <1>00, <1>5, <2>0, <3>2, <3>4, <3>5
    <3>7. q.pc # "free" /\ q.seq <= refreshSeq /\ q.from <= wall
      BY <1>00, <3>2
    <3> QED BY <1>4, <2>0, <3>2, <3>3, <3>4, <3>6, <3>7, FetchedSet
  <2>5. CASE ~Holds(r)
    <3>1. PICK q \in Poll : q = [r EXCEPT !.pc = "back", !.ok = TRUE]
      BY DEF Poll
    <3>2. q.pc = "back" /\ q.from = poll[p].from /\ q.seq = refreshSeq /\ q.ok /\ Set(p, q)
      BY <2>1, <2>2, <2>3, <2>5, <3>1 DEF Poll
    <3>3. lastSeq < refreshSeq => Brings(q)
      BY <1>00, <3>2 DEF Brings
    <3>4. lastSeq < refreshSeq => Still(q) = Lag /\ Still(poll[p]) >= Lag /\ Still(poll[p]) \in Nat
      BY <1>00, <2>0, <3>2, <3>3 DEF Still, Brings
    <3>5. clicked # Never /\ OnItsWay =>
              /\ long => q.from + Still(q) <= poll[p].from + Still(poll[p])
              /\ Brings(poll[p]) => Brings(q)
      BY <1>00, <1>5, <2>0, <3>2, <3>3, <3>4 DEF OnItsWay
    <3>6. q.pc # "free" /\ q.pc # "parked" /\ q.seq <= refreshSeq /\ q.from <= wall
      BY <1>00, <1>4, <2>0, <3>2 DEF Abreast
    <3> QED BY <1>4, <2>0, <3>2, <3>5, <3>6, FetchedSet
  <2> QED BY <2>4, <2>5
<1> QED BY <1>1, <1>2, <1>6, <1>7, <1>8, <1>10, <1>11, <1>12, <1>13, <1>14, <1>15, <1>16 DEF Next

(* The refresh button works within one hold (or poll period) and the time    *)
(* of the messages: for all holds, watchdogs and lags that leave room, with  *)
(* any number of polls on their way, as long as nothing is lost.             *)
THEOREM ButtonInTime == Spec => []RefreshInTime
<1>1. Init => Fetched
  <2> SUFFICES ASSUME Init PROVE Fetched
    OBVIOUS
  <2>1. Outstanding = {}
    BY DEF Init, Outstanding, At, NoPoll
  <2>2. lastSeq = 0 /\ refreshSeq = 0 /\ inflight = FALSE /\ clicked = Never
    BY DEF Init
  <2> QED BY <2>1, <2>2 DEF Fetched, Abreast, Served
<1>2. IInv /\ IInv' /\ Contact /\ Contact' /\ Fetched /\ [Next]_vars => Fetched'
  BY FetchedStep DEF IInv
<1>3. IInv /\ Fetched => RefreshInTime
  <2> SUFFICES ASSUME IInv, Fetched, Quiet, clicked # Never PROVE wall - clicked < Prompt
    BY DEF RefreshInTime, Quiet
  <2>1. wall <= clicked + Latest /\ TypeInv
    BY DEF Fetched, Served, IInv
  <2>2. wall \in Nat /\ clicked \in Nat /\ Latest \in Nat /\ Lag \in Nat /\ Hold \in Nat /\ PollEvery \in Nat
    BY <2>1, FetchNumbers, StillBounds, NoPollType
  <2>3. Prompt \in Nat /\ Latest = Prompt - 1
    BY <2>2 DEF Prompt, Latest
  <2> QED BY <2>1, <2>2, <2>3
<1>4. Init => Contact
  BY ContactInit
<1>5. IInv /\ IInv' /\ Contact /\ [Next]_vars => Contact'
  BY ContactStep DEF IInv
<1> QED BY <1>1, <1>2, <1>3, <1>4, <1>5, Inductive, PTL DEF Spec

(***************************************************************************)
(* On-demand pane output: the request table does not grow, a fulfilled     *)
(* request has its frame, and the free window is enforced.                 *)
(***************************************************************************)
Creating == {v \in Viewers : viewer[v].pc = "create"}
Frames == {{}} \cup {{t} : t \in P!Times}

(* The types of the pane output; scalars apart from what is stored. *)
Scalars ==
    /\ clock \in P!Times /\ machine \in BOOLEAN /\ start \in P!Times \cup {P!Never}
    /\ told \in BOOLEAN /\ purging \in BOOLEAN /\ gesture \in P!Times
    /\ stored \in P!Times \cup {P!Never} /\ crossed \in BOOLEAN
    /\ bounces \in 0..MaxLosses /\ forgets \in 0..MaxLosses
Stores ==
    /\ rows \in SUBSET P!Row /\ held \in Frames
    /\ viewer \in [Viewers -> P!Viewer]
    /\ delivery \in [Slots -> {"free", "out", "checked", "put"}]
OutputTyped == Scalars /\ Stores

(* A row exists for a drawer that asked for it; a drawer about to create one *)
(* has found none.                                                           *)
Few == IsFiniteSet(rows) /\ Cardinality(rows) + Cardinality(Creating) <= Cardinality(Viewers)

(* The capture's retention is over. *)
Late == stored < clock - Retention

(* What is fulfilled has its frame, or a re-arm is about to make it pending  *)
(* again; and a delivery between its two writes has left its frame.          *)
Framed ==
    /\ \A r \in rows : r.status = "fulfilled" =>
          held # {} \/ Late \/ \E v \in Viewers : viewer[v].pc = "rearm"
    /\ P!Recording # {} => held # {} \/ Late

(* A frame held is the last one stored; without a frame, nothing says there  *)
(* is one, unless a request crossed a delivery or something was lost.        *)
FrameInv ==
    /\ held \subseteq {stored}
    /\ purging => forgets > 0
    /\ crossed \/ bounces > 0 \/ forgets > 0 \/ Framed

(* Until a restart, the window is the one the last human gesture opened.     *)
WindowInv == bounces = 0 => (\A v \in Viewers : viewer[v].pc = "closed") \/ start = gesture

OutputInv == OutputTyped /\ Few /\ FrameInv /\ WindowInv

USE DEF P!Never, P!backend, P!plugin, P!history, P!counters

LEMMA Bounds ==
    /\ IsFiniteSet(Viewers) /\ TTL \in Nat /\ Window \in Nat /\ Retention \in Nat
    /\ MaxTime \in Nat /\ MaxLosses \in Nat
    /\ P!Times \subseteq Nat /\ 0 \in P!Times /\ 0 \in 0..MaxLosses
BY OutputAssumption DEF P!Times

(* The count of the pane output's module is the library's. *)
LEMMA Counts == ASSUME NEW S PROVE P!Cardinality(S) = Cardinality(S)
BY DEF P!Cardinality, Cardinality

(* The image of a finite set under a function is finite and no larger. *)
LEMMA ImageSize ==
    ASSUME NEW S, IsFiniteSet(S), NEW T, NEW f \in [S -> T], T = {f[s] : s \in S}
    PROVE  IsFiniteSet(T) /\ Cardinality(T) <= Cardinality(S)
BY FS_Surjection DEF Surjection

LEMMA HeldTyped == {} \in Frames /\ \A t \in P!Times : {t} \in Frames
BY DEF Frames

LEMMA OutputStarts == P!Init => OutputInv
<1> SUFFICES ASSUME P!Init PROVE OutputInv
  OBVIOUS
<1>1. Scalars
  BY Bounds DEF P!Init, Scalars
<1>2. viewer \in [Viewers -> P!Viewer]
  BY Bounds DEF P!Init, P!Viewer
<1>3. delivery \in [Slots -> {"free", "out", "checked", "put"}] /\ rows = {} /\ held = {}
  BY DEF P!Init
<1>4. Stores
  BY <1>2, <1>3, HeldTyped DEF Stores
<1>5. Creating = {}
  BY DEF P!Init, Creating
<1>6. Few
  BY <1>3, <1>5, FS_EmptySet, FS_CardinalityType, Bounds DEF Few
<1>7. P!Recording = {}
  BY DEF P!Init, P!Recording
<1>8. FrameInv /\ WindowInv
  BY <1>3, <1>7 DEF P!Init, FrameInv, WindowInv, Framed
<1> QED BY <1>1, <1>4, <1>6, <1>8 DEF OutputInv, OutputTyped

(* Every step keeps the types. *)
LEMMA TypesKept ==
    ASSUME OutputTyped, IsFiniteSet(rows), [P!Next]_P!vars
    PROVE  OutputTyped'
<1>0. /\ Scalars /\ rows \in SUBSET P!Row /\ IsFiniteSet(rows) /\ held \in Frames
      /\ viewer \in [Viewers -> P!Viewer] /\ delivery \in [Slots -> {"free", "out", "checked", "put"}]
  BY DEF OutputTyped, Stores
<1>1. ASSUME NEW v \in Viewers, P!Open(v) PROVE OutputTyped'
  <2>1. viewer' \in [Viewers -> P!Viewer]
    BY <1>1, <1>0 DEF P!Open, P!Go, P!Viewer
  <2> QED BY <1>1, <1>0, <2>1 DEF P!Open, OutputTyped, Scalars, Stores
<1>2. ASSUME NEW v \in Viewers, P!Auto(v) PROVE OutputTyped'
  <2>1. viewer' \in [Viewers -> P!Viewer]
    BY <1>2, <1>0 DEF P!Auto, P!Go, P!Viewer
  <2> QED BY <1>2, <1>0, <2>1 DEF P!Auto, OutputTyped, Scalars, Stores
<1>3. ASSUME NEW v \in Viewers, P!Owns(v) PROVE OutputTyped'
  <2>1. viewer' \in [Viewers -> P!Viewer]
    BY <1>3, <1>0 DEF P!Owns, P!Go, P!Viewer
  <2> QED BY <1>3, <1>0, <2>1 DEF P!Owns, OutputTyped, Scalars, Stores
<1>4. ASSUME NEW v \in Viewers, P!Drop(v) PROVE OutputTyped'
  <2>1. viewer' \in [Viewers -> P!Viewer]
    BY <1>4, <1>0 DEF P!Drop, P!Viewer, Scalars
  <2> QED BY <1>4, <1>0, <2>1, HeldTyped DEF P!Drop, OutputTyped, Scalars, Stores
<1>5. ASSUME NEW v \in Viewers, P!Rearm(v) PROVE OutputTyped'
  <2>1. viewer[v].now \in P!Times
    BY <1>0 DEF P!Viewer
  <2>2. \A r \in P!Row : [r EXCEPT !.status = "pending", !.at = viewer[v].now] \in P!Row
    BY <2>1 DEF P!Row
  <2>3. rows' \in SUBSET P!Row
    BY <1>5, <1>0, <2>2 DEF P!Rearm, P!Rearms
  <2>4. viewer' \in [Viewers -> P!Viewer]
    BY <1>5, <1>0, Bounds DEF P!Rearm, P!Viewer
  <2> QED BY <1>5, <1>0, <2>3, <2>4 DEF P!Rearm, OutputTyped, Scalars, Stores
<1>6. ASSUME NEW v \in Viewers, P!Create(v) PROVE OutputTyped'
  <2>1. PICK n \in Nat : n = P!Cardinality(rows) + 1
    BY <1>0, Counts, FS_CardinalityType
  <2>2. [id |-> n, status |-> "pending", at |-> clock] \in P!Row
    BY <1>0 DEF P!Row, Scalars
  <2>3. rows' \in SUBSET P!Row
    BY <1>6, <1>0, <2>1, <2>2 DEF P!Create
  <2>4. viewer' \in [Viewers -> P!Viewer]
    BY <1>6, <1>0 DEF P!Create, P!Go, P!Viewer
  <2> QED BY <1>6, <1>0, <2>3, <2>4 DEF P!Create, OutputTyped, Scalars, Stores
<1>7. ASSUME NEW v \in Viewers, P!ReadRow(v) PROVE OutputTyped'
  <2>1. viewer' \in [Viewers -> P!Viewer]
    BY <1>7, <1>0 DEF P!ReadRow, P!Go, P!Viewer
  <2> QED BY <1>7, <1>0, <2>1 DEF P!ReadRow, OutputTyped, Scalars, Stores
<1>8. ASSUME NEW v \in Viewers, P!ReadStore(v) PROVE OutputTyped'
  <2>1. viewer' \in [Viewers -> P!Viewer]
    BY <1>8, <1>0 DEF P!ReadStore, P!Go, P!Viewer
  <2> QED BY <1>8, <1>0, <2>1 DEF P!ReadStore, OutputTyped, Scalars, Stores
<1>9. ASSUME NEW v \in Viewers, P!Fail(v) PROVE OutputTyped'
  <2>1. viewer' \in [Viewers -> P!Viewer]
    BY <1>9, <1>0 DEF P!Fail, P!Go, P!Viewer
  <2> QED BY <1>9, <1>0, <2>1 DEF P!Fail, OutputTyped, Scalars, Stores
<1>10. ASSUME NEW d \in Slots, P!Check(d) PROVE OutputTyped'
  BY <1>10, <1>0 DEF P!Check, OutputTyped, Scalars, Stores
<1>11. ASSUME NEW d \in Slots, P!Put(d) PROVE OutputTyped'
  <2>1. held' \in Frames
    BY <1>11, <1>0, HeldTyped DEF P!Put, P!HeldAt, Scalars
  <2>2. delivery' \in [Slots -> {"free", "out", "checked", "put"}]
    BY <1>11, <1>0 DEF P!Put
  <2> QED BY <1>11, <1>0, <2>1, <2>2 DEF P!Put, OutputTyped, Scalars, Stores
<1>12. ASSUME NEW d \in Slots, P!Fulfil(d) PROVE OutputTyped'
  <2>1. \A r \in P!Row : [r EXCEPT !.status = "fulfilled"] \in P!Row
    BY DEF P!Row
  <2>2. rows' \in SUBSET P!Row
    BY <1>12, <1>0, <2>1 DEF P!Fulfil, P!Pending
  <2> QED BY <1>12, <1>0, <2>2 DEF P!Fulfil, OutputTyped, Scalars, Stores
<1>13. ASSUME NEW d \in Slots, P!FulfilFails(d) PROVE OutputTyped'
  BY <1>13, <1>0 DEF P!FulfilFails, OutputTyped, Scalars, Stores
<1>14. ASSUME NEW d \in Slots, P!LoseDelivery(d) PROVE OutputTyped'
  BY <1>14, <1>0 DEF P!LoseDelivery, OutputTyped, Scalars, Stores
<1>15. CASE P!Tell
  BY <1>15, <1>0 DEF P!Tell, OutputTyped, Scalars, Stores
<1>16. CASE P!Captured
  BY <1>16, <1>0 DEF P!Captured, OutputTyped, Scalars, Stores
<1>17. CASE P!Ignored
  BY <1>17, <1>0 DEF P!Ignored, OutputTyped, Scalars, Stores
<1>18. CASE P!Prune
  <2>1. PICK e \in held : P!Expired(e)
    BY <1>18 DEF P!Prune
  <2>2. held = {e}
    BY <1>0, <2>1 DEF Frames
  <2>3. held' = {}
    BY <1>18, <2>1, <2>2 DEF P!Prune
  <2> QED BY <1>18, <1>0, <2>3, HeldTyped DEF P!Prune, OutputTyped, Scalars, Stores
<1>19. CASE P!Forget
  <2>1. forgets' \in 0..MaxLosses
    BY <1>19, <1>0, Bounds DEF P!Forget, Scalars
  <2> QED BY <1>19, <1>0, <2>1 DEF P!Forget, OutputTyped, Scalars, Stores
<1>20. CASE P!Purge
  BY <1>20, <1>0, HeldTyped DEF P!Purge, OutputTyped, Scalars, Stores
<1>21. CASE P!Register
  BY <1>21, <1>0 DEF P!Register, OutputTyped, Scalars, Stores
<1>22. CASE P!Restart
  <2>1. bounces' \in 0..MaxLosses
    BY <1>22, <1>0, Bounds DEF P!Restart, Scalars
  <2>2. viewer' \in [Viewers -> P!Viewer]
    BY <1>22, <1>0, Bounds DEF P!Restart, P!Viewer
  <2>3. delivery' \in [Slots -> {"free", "out", "checked", "put"}]
    BY <1>22, <1>0 DEF P!Restart
  <2> QED BY <1>22, <1>0, <2>1, <2>2, <2>3, HeldTyped DEF P!Restart, OutputTyped, Scalars, Stores
<1>23. CASE P!Tick
  <2>1. clock' \in P!Times
    BY <1>23, <1>0, Bounds DEF P!Tick, Scalars, P!Times
  <2> QED BY <1>23, <1>0, <2>1 DEF P!Tick, OutputTyped, Scalars, Stores
<1>24. CASE UNCHANGED P!vars
  BY <1>24, <1>0 DEF P!vars, OutputTyped, Scalars, Stores
<1> QED
  BY <1>1, <1>2, <1>3, <1>4, <1>5, <1>6, <1>7, <1>8, <1>9, <1>10, <1>11, <1>12, <1>13,
     <1>14, <1>15, <1>16, <1>17, <1>18, <1>19, <1>20, <1>21, <1>22, <1>23, <1>24
     DEF P!Next, P!Serve

(* Fewer rows, and no other drawer about to create one. *)
LEMMA Fewer ==
    ASSUME Few, IsFiniteSet(rows'), Cardinality(rows') <= Cardinality(rows),
           Creating' \subseteq Creating
    PROVE  Few'
<1>1. PICK was, is, left : was = Creating /\ is = Creating' /\ left = rows'
  OBVIOUS
<1>2. IsFiniteSet(was)
  BY <1>1, Bounds, FS_Subset DEF Creating
<1>3. IsFiniteSet(is) /\ Cardinality(is) <= Cardinality(was)
  BY <1>1, <1>2, FS_Subset
<1>4. /\ Cardinality(was) \in Nat /\ Cardinality(is) \in Nat /\ Cardinality(left) \in Nat
      /\ Cardinality(rows) \in Nat /\ Cardinality(Viewers) \in Nat
  BY <1>1, <1>2, <1>3, Bounds, FS_CardinalityType DEF Few
<1> QED BY <1>1, <1>3, <1>4 DEF Few

(* Every step keeps the rows as few as the drawers. *)
LEMMA FewKept ==
    ASSUME OutputTyped, Few, [P!Next]_P!vars
    PROVE  Few'
<1>0. /\ Few /\ IsFiniteSet(rows) /\ Cardinality(rows) \in Nat /\ Cardinality(rows) <= Cardinality(rows)
      /\ viewer \in [Viewers -> P!Viewer]
  BY FS_CardinalityType DEF Few, OutputTyped, Stores
<1>1. ASSUME NEW v \in Viewers, P!Open(v) PROVE Few'
  <2>1. rows' = rows /\ Creating' \subseteq Creating
    BY <1>1, <1>0 DEF P!Open, Creating, P!Go
  <2> QED BY <1>0, <2>1, Fewer
<1>2. ASSUME NEW v \in Viewers, P!Auto(v) PROVE Few'
  <2>1. rows' = rows /\ Creating' \subseteq Creating
    BY <1>2, <1>0 DEF P!Auto, Creating, P!Go
  <2> QED BY <1>0, <2>1, Fewer
<1>3. ASSUME NEW v \in Viewers, P!Owns(v) PROVE Few'
  <2>1. rows' = rows /\ Creating' \subseteq Creating
    BY <1>3, <1>0 DEF P!Owns, Creating, P!Go
  <2> QED BY <1>0, <2>1, Fewer
<1>4. ASSUME NEW v \in Viewers, P!Drop(v) PROVE Few'
  <2>1. rows' = rows /\ Creating' \subseteq Creating
    BY <1>4, <1>0 DEF P!Drop, Creating
  <2> QED BY <1>0, <2>1, Fewer
<1>5. ASSUME NEW v \in Viewers, P!Rearm(v) PROVE Few'
  <2>1. CASE rows = {}
    <3>1. rows' = {}
      BY <1>5, <2>1 DEF P!Rearm, P!Rearms
    <3>2. PICK is : is = Creating'
      OBVIOUS
    <3>3. is \subseteq Viewers
      BY <3>2 DEF Creating
    <3>4. IsFiniteSet(is) /\ Cardinality(is) <= Cardinality(Viewers) /\ Cardinality(is) \in Nat
      BY <3>3, Bounds, FS_Subset, FS_CardinalityType
    <3> QED BY <3>1, <3>2, <3>4, FS_EmptySet DEF Few
  <2>2. CASE rows # {}
    <3> DEFINE Again(r) == [r EXCEPT !.status = "pending", !.at = viewer[v].now]
    <3>1. PICK f, T : f = [r \in rows |-> Again(r)] /\ T = {f[r] : r \in rows}
      OBVIOUS
    <3>2. f \in [rows -> T] /\ T = {f[r] : r \in rows}
      BY <3>1
    <3> HIDE DEF Again
    <3>3. IsFiniteSet(T) /\ Cardinality(T) <= Cardinality(rows)
      BY <1>0, <3>2, ImageSize
    <3>4. rows' = {Again(r) : r \in rows}
      BY <1>5 DEF P!Rearm, P!Rearms, Again
    <3>5. T = {Again(r) : r \in rows}
      BY <3>1
    <3>6. Creating' \subseteq Creating
      BY <1>5, <1>0, <2>2 DEF P!Rearm, P!Rearms, Creating
    <3> QED BY <1>0, <3>3, <3>4, <3>5, <3>6, Fewer
  <2> QED BY <2>1, <2>2
<1>6. ASSUME NEW v \in Viewers, P!Create(v) PROVE Few'
  <2>1. PICK r, left, was, is :
            /\ r = [id |-> P!Cardinality(rows) + 1, status |-> "pending", at |-> clock]
            /\ left = rows' /\ was = Creating /\ is = Creating'
    OBVIOUS
  <2>2. left = rows \cup {r}
    BY <1>6, <2>1 DEF P!Create
  <2>3. v \in was /\ is = was \ {v}
    BY <1>6, <1>0, <2>1 DEF P!Create, P!Go, Creating
  <2>4. IsFiniteSet(left) /\ Cardinality(left) <= Cardinality(rows) + 1 /\ Cardinality(left) \in Nat
    BY <1>0, <2>2, FS_AddElement, FS_CardinalityType
  <2>5. IsFiniteSet(was) /\ Cardinality(was) \in Nat
    BY <2>1, Bounds, FS_Subset, FS_CardinalityType DEF Creating
  <2>6. Cardinality(is) = Cardinality(was) - 1
    BY <2>3, <2>5, FS_RemoveElement
  <2>7. Cardinality(Viewers) \in Nat
    BY Bounds, FS_CardinalityType
  <2> QED BY <1>0, <2>1, <2>4, <2>5, <2>6, <2>7 DEF Few
<1>7. ASSUME NEW v \in Viewers, P!ReadRow(v) PROVE Few'
  <2>1. rows' = rows /\ Creating' \subseteq Creating
    BY <1>7, <1>0 DEF P!ReadRow, Creating, P!Go
  <2> QED BY <1>0, <2>1, Fewer
<1>8. ASSUME NEW v \in Viewers, P!ReadStore(v) PROVE Few'
  <2>1. rows' = rows /\ Creating' \subseteq Creating
    BY <1>8, <1>0 DEF P!ReadStore, Creating, P!Go
  <2> QED BY <1>0, <2>1, Fewer
<1>9. ASSUME NEW v \in Viewers, P!Fail(v) PROVE Few'
  <2>1. rows' = rows /\ Creating' \subseteq Creating
    BY <1>9, <1>0 DEF P!Fail, Creating, P!Go
  <2> QED BY <1>0, <2>1, Fewer
<1>10. ASSUME NEW d \in Slots, P!Check(d) PROVE Few'
  <2>1. rows' = rows /\ Creating' \subseteq Creating
    BY <1>10, <1>0 DEF P!Check, Creating
  <2> QED BY <1>0, <2>1, Fewer
<1>11. ASSUME NEW d \in Slots, P!Put(d) PROVE Few'
  <2>1. rows' = rows /\ Creating' \subseteq Creating
    BY <1>11, <1>0 DEF P!Put, Creating
  <2> QED BY <1>0, <2>1, Fewer
<1>12. ASSUME NEW d \in Slots, P!Fulfil(d) PROVE Few'
  <2> DEFINE Done(r) == IF r.status = "pending" THEN [r EXCEPT !.status = "fulfilled"] ELSE r
  <2>1. PICK f, T : f = [r \in rows |-> Done(r)] /\ T = {f[r] : r \in rows}
    OBVIOUS
  <2>2. f \in [rows -> T]
    BY <2>1
  <2>3. IsFiniteSet(T) /\ Cardinality(T) <= Cardinality(rows)
    BY <1>0, <2>1, <2>2, ImageSize
  <2>4. rows' = {Done(r) : r \in rows}
    BY <1>12 DEF P!Fulfil, P!Pending
  <2>5. T = {Done(r) : r \in rows}
    BY <2>1
  <2>6. Creating' \subseteq Creating
    BY <1>12 DEF P!Fulfil, Creating
  <2> QED BY <1>0, <2>3, <2>4, <2>5, <2>6, Fewer
<1>13. ASSUME NEW d \in Slots, P!FulfilFails(d) PROVE Few'
  <2>1. rows' = rows /\ Creating' \subseteq Creating
    BY <1>13, <1>0 DEF P!FulfilFails, Creating
  <2> QED BY <1>0, <2>1, Fewer
<1>14. ASSUME NEW d \in Slots, P!LoseDelivery(d) PROVE Few'
  <2>1. rows' = rows /\ Creating' \subseteq Creating
    BY <1>14, <1>0 DEF P!LoseDelivery, Creating
  <2> QED BY <1>0, <2>1, Fewer
<1>15. CASE P!Tell
  <2>1. rows' = rows /\ Creating' \subseteq Creating
    BY <1>15, <1>0 DEF P!Tell, Creating
  <2> QED BY <1>0, <2>1, Fewer
<1>16. CASE P!Captured
  <2>1. rows' = rows /\ Creating' \subseteq Creating
    BY <1>16, <1>0 DEF P!Captured, Creating
  <2> QED BY <1>0, <2>1, Fewer
<1>17. CASE P!Ignored
  <2>1. rows' = rows /\ Creating' \subseteq Creating
    BY <1>17, <1>0 DEF P!Ignored, Creating
  <2> QED BY <1>0, <2>1, Fewer
<1>18. CASE P!Prune
  <2>1. rows' = rows /\ Creating' \subseteq Creating
    BY <1>18, <1>0 DEF P!Prune, Creating
  <2> QED BY <1>0, <2>1, Fewer
<1>19. CASE P!Forget
  <2>1. rows' = {} /\ Creating' \subseteq Creating
    BY <1>19 DEF P!Forget, Creating
  <2> QED BY <1>0, <2>1, FS_EmptySet, Fewer
<1>20. CASE P!Purge
  <2>1. rows' = rows /\ Creating' \subseteq Creating
    BY <1>20, <1>0 DEF P!Purge, Creating
  <2> QED BY <1>0, <2>1, Fewer
<1>21. CASE P!Register
  <2>1. rows' = rows /\ Creating' \subseteq Creating
    BY <1>21, <1>0 DEF P!Register, Creating
  <2> QED BY <1>0, <2>1, Fewer
<1>22. CASE P!Restart
  <2>1. rows' = rows /\ Creating' \subseteq Creating
    BY <1>22, <1>0 DEF P!Restart, Creating
  <2> QED BY <1>0, <2>1, Fewer
<1>23. CASE P!Tick
  <2>1. rows' = rows /\ Creating' \subseteq Creating
    BY <1>23, <1>0 DEF P!Tick, Creating
  <2> QED BY <1>0, <2>1, Fewer
<1>24. CASE UNCHANGED P!vars
  <2>1. rows' = rows /\ Creating' \subseteq Creating
    BY <1>24 DEF P!vars, Creating
  <2> QED BY <1>0, <2>1, Fewer
<1> QED
  BY <1>1, <1>2, <1>3, <1>4, <1>5, <1>6, <1>7, <1>8, <1>9, <1>10, <1>11, <1>12, <1>13,
     <1>14, <1>15, <1>16, <1>17, <1>18, <1>19, <1>20, <1>21, <1>22, <1>23, <1>24
     DEF P!Next, P!Serve

(* Only a human opens a window, until the backend forgets it. *)
LEMMA WindowHeld ==
    ASSUME OutputTyped, WindowInv, [P!Next]_P!vars
    PROVE  WindowInv'
<1>0. viewer \in [Viewers -> P!Viewer] /\ WindowInv /\ gesture \in Nat /\ bounces \in Nat
  BY Bounds DEF OutputTyped, Scalars, Stores
<1>1. ASSUME NEW v \in Viewers, P!Open(v) PROVE WindowInv'
  BY <1>1, <1>0 DEF P!Open, P!Go, WindowInv
<1>2. ASSUME NEW v \in Viewers, P!Auto(v) PROVE WindowInv'
  BY <1>2, <1>0 DEF P!Auto, P!Go, WindowInv, P!Missing, P!Allowed
<1>3. ASSUME NEW v \in Viewers, P!Owns(v) PROVE WindowInv'
  BY <1>3, <1>0 DEF P!Owns, P!Go, WindowInv
<1>4. ASSUME NEW v \in Viewers, P!Drop(v) PROVE WindowInv'
  BY <1>4, <1>0 DEF P!Drop, WindowInv
<1>5. ASSUME NEW v \in Viewers, P!Rearm(v) PROVE WindowInv'
  BY <1>5, <1>0 DEF P!Rearm, WindowInv
<1>6. ASSUME NEW v \in Viewers, P!Create(v) PROVE WindowInv'
  BY <1>6, <1>0 DEF P!Create, P!Go, WindowInv
<1>7. ASSUME NEW v \in Viewers, P!ReadRow(v) PROVE WindowInv'
  BY <1>7, <1>0 DEF P!ReadRow, P!Go, WindowInv
<1>8. ASSUME NEW v \in Viewers, P!ReadStore(v) PROVE WindowInv'
  BY <1>8, <1>0 DEF P!ReadStore, P!Go, WindowInv
<1>9. ASSUME NEW v \in Viewers, P!Fail(v) PROVE WindowInv'
  BY <1>9, <1>0 DEF P!Fail, P!Go, WindowInv
<1>10. ASSUME NEW d \in Slots, P!Check(d) PROVE WindowInv'
  BY <1>10, <1>0 DEF P!Check, WindowInv
<1>11. ASSUME NEW d \in Slots, P!Put(d) PROVE WindowInv'
  BY <1>11, <1>0 DEF P!Put, WindowInv
<1>12. ASSUME NEW d \in Slots, P!Fulfil(d) PROVE WindowInv'
  BY <1>12, <1>0 DEF P!Fulfil, WindowInv
<1>13. ASSUME NEW d \in Slots, P!FulfilFails(d) PROVE WindowInv'
  BY <1>13, <1>0 DEF P!FulfilFails, WindowInv
<1>14. ASSUME NEW d \in Slots, P!LoseDelivery(d) PROVE WindowInv'
  BY <1>14, <1>0 DEF P!LoseDelivery, WindowInv
<1>15. CASE P!Tell
  BY <1>15, <1>0 DEF P!Tell, WindowInv
<1>16. CASE P!Captured
  BY <1>16, <1>0 DEF P!Captured, WindowInv
<1>17. CASE P!Ignored
  BY <1>17, <1>0 DEF P!Ignored, WindowInv
<1>18. CASE P!Prune
  BY <1>18, <1>0 DEF P!Prune, WindowInv
<1>19. CASE P!Forget
  BY <1>19, <1>0 DEF P!Forget, WindowInv
<1>20. CASE P!Purge
  BY <1>20, <1>0 DEF P!Purge, WindowInv
<1>21. CASE P!Register
  BY <1>21, <1>0 DEF P!Register, WindowInv
<1>22. CASE P!Restart
  BY <1>22, <1>0 DEF P!Restart, WindowInv
<1>23. CASE P!Tick
  BY <1>23, <1>0 DEF P!Tick, WindowInv
<1>24. CASE UNCHANGED P!vars
  BY <1>24, <1>0 DEF P!vars, WindowInv
<1> QED
  BY <1>1, <1>2, <1>3, <1>4, <1>5, <1>6, <1>7, <1>8, <1>9, <1>10, <1>11, <1>12, <1>13,
     <1>14, <1>15, <1>16, <1>17, <1>18, <1>19, <1>20, <1>21, <1>22, <1>23, <1>24
     DEF P!Next, P!Serve

(* A retention that is over stays over until a capture is stored. *)
LEMMA LateStays ==
    ASSUME clock \in Nat, stored \in Int, stored' = stored, clock' \in {clock, clock + 1}
    PROVE  Late => Late'
<1>1. ASSUME NEW s \in Int, NEW c \in Nat, NEW t \in {c, c + 1}, NEW n \in Nat, s < c - n
      PROVE  s < t - n
  BY <1>1
<1>2. Retention \in Nat
  BY Bounds
<1> QED BY <1>1, <1>2 DEF Late

(* A step that takes no frame away and fulfils nothing keeps what is Framed. *)
LEMMA StillFramed ==
    ASSUME FrameInv, held' = held, stored' = stored, clock' \in {clock, clock + 1},
           clock \in Nat, stored \in Int, bounces \in Nat, forgets \in Nat, forgets' = forgets, bounces' = bounces,
           crossed => crossed', purging' => purging,
           crossed' \/ P!Recording' \subseteq P!Recording,
           \A r \in rows' : r.status = "fulfilled" => r \in rows,
           \A v \in Viewers : viewer[v].pc = "rearm" =>
               viewer'[v].pc = "rearm" \/ \A r \in rows' : r.status # "fulfilled"
    PROVE  FrameInv'
<1>1. Late => Late'
  BY LateStays
<1>2. ASSUME ~crossed', bounces = 0, forgets = 0 PROVE Framed'
  <2>1. Framed
    BY <1>2 DEF FrameInv
  <2> QED BY <1>1, <1>2, <2>1 DEF Framed
<1> QED BY <1>2 DEF FrameInv

(* Every step keeps the frame of what is fulfilled. *)
LEMMA FrameKept ==
    ASSUME OutputTyped, FrameInv, [P!Next]_P!vars
    PROVE  FrameInv'
<1>0. /\ FrameInv /\ viewer \in [Viewers -> P!Viewer] /\ rows \in SUBSET P!Row /\ held \in Frames
      /\ delivery \in [Slots -> {"free", "out", "checked", "put"}]
      /\ clock \in Nat /\ stored \in Int /\ bounces \in Nat /\ forgets \in Nat
  BY Bounds DEF OutputTyped, Scalars, Stores
<1>1. ASSUME NEW v \in Viewers, P!Open(v) PROVE FrameInv'
  <2>1. /\ held' = held /\ stored' = stored /\ clock' \in {clock, clock + 1}
        /\ forgets' = forgets /\ bounces' = bounces
        /\ crossed' = crossed /\ purging' = purging /\ rows' = rows
    BY <1>1 DEF P!Open
  <2>2. P!Recording' \subseteq P!Recording
    BY <1>1, <1>0 DEF P!Open, P!Recording
  <2>3. \A u \in Viewers : viewer[u].pc = "rearm" => viewer'[u].pc = "rearm"
    BY <1>1, <1>0 DEF P!Open, P!Go
  <2> QED BY <1>0, <2>1, <2>2, <2>3, StillFramed
<1>2. ASSUME NEW v \in Viewers, P!Auto(v) PROVE FrameInv'
  <2>1. /\ held' = held /\ stored' = stored /\ clock' \in {clock, clock + 1}
        /\ forgets' = forgets /\ bounces' = bounces
        /\ crossed' = crossed /\ purging' = purging /\ rows' = rows
    BY <1>2 DEF P!Auto
  <2>2. P!Recording' \subseteq P!Recording
    BY <1>2, <1>0 DEF P!Auto, P!Recording
  <2>3. \A u \in Viewers : viewer[u].pc = "rearm" => viewer'[u].pc = "rearm"
    BY <1>2, <1>0 DEF P!Auto, P!Go
  <2> QED BY <1>0, <2>1, <2>2, <2>3, StillFramed
<1>3. ASSUME NEW v \in Viewers, P!Owns(v) PROVE FrameInv'
  <2>1. /\ held' = held /\ stored' = stored /\ clock' \in {clock, clock + 1}
        /\ forgets' = forgets /\ bounces' = bounces
        /\ crossed' = crossed /\ purging' = purging /\ rows' = rows
    BY <1>3 DEF P!Owns
  <2>2. P!Recording' \subseteq P!Recording
    BY <1>3, <1>0 DEF P!Owns, P!Recording
  <2>3. \A u \in Viewers : viewer[u].pc = "rearm" => viewer'[u].pc = "rearm"
    BY <1>3, <1>0 DEF P!Owns, P!Go
  <2> QED BY <1>0, <2>1, <2>2, <2>3, StillFramed
<1>4. ASSUME NEW v \in Viewers, P!Drop(v) PROVE FrameInv'
  <2>1. /\ held' = {} /\ stored' = stored /\ bounces' = bounces /\ forgets' = forgets
        /\ purging' = purging /\ viewer'[v].pc = "rearm"
        /\ crossed' = (crossed \/ P!Recording # {}) /\ P!Recording' = P!Recording
    BY <1>4, <1>0 DEF P!Drop, P!Recording
  <2> QED BY <1>0, <2>1 DEF FrameInv, Framed
<1>5. ASSUME NEW v \in Viewers, P!Rearm(v) PROVE FrameInv'
  <2>1. /\ held' = held /\ stored' = stored /\ bounces' = bounces /\ forgets' = forgets
        /\ purging' = purging /\ clock' = clock
        /\ crossed' = (crossed \/ P!Recording # {}) /\ P!Recording' = P!Recording
    BY <1>5 DEF P!Rearm, P!Recording
  <2>2. \A r \in rows' : r.status = "pending"
    BY <1>5, <1>0 DEF P!Rearm, P!Rearms, P!Row
  <2>3. P!Recording = {} => Framed'
    BY <2>1, <2>2 DEF Framed
  <2> QED BY <1>0, <2>1, <2>3 DEF FrameInv
<1>6. ASSUME NEW v \in Viewers, P!Create(v) PROVE FrameInv'
  <2>1. /\ held' = held /\ stored' = stored /\ clock' = clock
        /\ forgets' = forgets /\ bounces' = bounces /\ (crossed => crossed')
        /\ purging' = purging /\ P!Recording' = P!Recording
    BY <1>6 DEF P!Create, P!Recording
  <2>2. \A u \in Viewers : viewer[u].pc = "rearm" => viewer'[u].pc = "rearm"
    BY <1>6, <1>0 DEF P!Create, P!Go
  <2>3. \A r \in rows' : r.status = "fulfilled" => r \in rows
    BY <1>6 DEF P!Create
  <2> QED BY <1>0, <2>1, <2>2, <2>3, StillFramed
<1>7. ASSUME NEW v \in Viewers, P!ReadRow(v) PROVE FrameInv'
  <2>1. /\ held' = held /\ stored' = stored /\ clock' \in {clock, clock + 1}
        /\ forgets' = forgets /\ bounces' = bounces
        /\ crossed' = crossed /\ purging' = purging /\ rows' = rows
    BY <1>7 DEF P!ReadRow
  <2>2. P!Recording' \subseteq P!Recording
    BY <1>7, <1>0 DEF P!ReadRow, P!Recording
  <2>3. \A u \in Viewers : viewer[u].pc = "rearm" => viewer'[u].pc = "rearm"
    BY <1>7, <1>0 DEF P!ReadRow, P!Go
  <2> QED BY <1>0, <2>1, <2>2, <2>3, StillFramed
<1>8. ASSUME NEW v \in Viewers, P!ReadStore(v) PROVE FrameInv'
  <2>1. /\ held' = held /\ stored' = stored /\ clock' \in {clock, clock + 1}
        /\ forgets' = forgets /\ bounces' = bounces
        /\ crossed' = crossed /\ purging' = purging /\ rows' = rows
    BY <1>8 DEF P!ReadStore
  <2>2. P!Recording' \subseteq P!Recording
    BY <1>8, <1>0 DEF P!ReadStore, P!Recording
  <2>3. \A u \in Viewers : viewer[u].pc = "rearm" => viewer'[u].pc = "rearm"
    BY <1>8, <1>0 DEF P!ReadStore, P!Go
  <2> QED BY <1>0, <2>1, <2>2, <2>3, StillFramed
<1>9. ASSUME NEW v \in Viewers, P!Fail(v) PROVE FrameInv'
  <2>1. /\ held' = held /\ stored' = stored /\ clock' \in {clock, clock + 1}
        /\ forgets' = forgets /\ bounces' = bounces
        /\ crossed' = crossed /\ purging' = purging /\ rows' = rows
    BY <1>9 DEF P!Fail
  <2>2. P!Recording' \subseteq P!Recording
    BY <1>9, <1>0 DEF P!Fail, P!Recording
  <2>3. \A u \in Viewers : viewer[u].pc = "rearm" => viewer'[u].pc = "rearm"
    BY <1>9, <1>0 DEF P!Fail, P!Go
  <2> QED BY <1>0, <2>1, <2>2, <2>3, StillFramed
<1>10. ASSUME NEW d \in Slots, P!Check(d) PROVE FrameInv'
  <2>1. /\ held' = held /\ stored' = stored /\ clock' \in {clock, clock + 1}
        /\ forgets' = forgets /\ bounces' = bounces
        /\ crossed' = crossed /\ purging' = purging /\ rows' = rows
    BY <1>10 DEF P!Check
  <2>2. P!Recording' \subseteq P!Recording
    BY <1>10, <1>0 DEF P!Check, P!Recording
  <2>3. \A u \in Viewers : viewer[u].pc = "rearm" => viewer'[u].pc = "rearm"
    BY <1>10, <1>0 DEF P!Check
  <2> QED BY <1>0, <2>1, <2>2, <2>3, StillFramed
<1>11. ASSUME NEW d \in Slots, P!Put(d) PROVE FrameInv'
  <2>1. held' = {clock} /\ stored' = clock /\ purging' = purging /\ forgets' = forgets
    BY <1>11 DEF P!Put, P!HeldAt
  <2> QED BY <1>0, <2>1 DEF FrameInv, Framed
<1>12. ASSUME NEW d \in Slots, P!Fulfil(d) PROVE FrameInv'
  <2>1. /\ held' = held /\ stored' = stored /\ bounces' = bounces /\ forgets' = forgets
        /\ purging' = purging /\ clock' = clock /\ crossed' = crossed
    BY <1>12 DEF P!Fulfil
  <2>2. d \in P!Recording /\ (Late' <=> Late)
    BY <1>12, <2>1 DEF P!Fulfil, P!Recording, Late
  <2>3. Framed => Framed'
    BY <2>1, <2>2 DEF Framed
  <2> QED BY <1>0, <2>1, <2>3 DEF FrameInv
<1>13. ASSUME NEW d \in Slots, P!FulfilFails(d) PROVE FrameInv'
  <2>1. /\ held' = held /\ stored' = stored /\ clock' \in {clock, clock + 1}
        /\ forgets' = forgets /\ bounces' = bounces
        /\ crossed' = crossed /\ purging' = purging /\ rows' = rows
    BY <1>13 DEF P!FulfilFails
  <2>2. P!Recording' \subseteq P!Recording
    BY <1>13, <1>0 DEF P!FulfilFails, P!Recording
  <2>3. \A u \in Viewers : viewer[u].pc = "rearm" => viewer'[u].pc = "rearm"
    BY <1>13, <1>0 DEF P!FulfilFails
  <2> QED BY <1>0, <2>1, <2>2, <2>3, StillFramed
<1>14. ASSUME NEW d \in Slots, P!LoseDelivery(d) PROVE FrameInv'
  <2>1. /\ held' = held /\ stored' = stored /\ clock' \in {clock, clock + 1}
        /\ forgets' = forgets /\ bounces' = bounces
        /\ crossed' = crossed /\ purging' = purging /\ rows' = rows
    BY <1>14 DEF P!LoseDelivery
  <2>2. P!Recording' \subseteq P!Recording
    BY <1>14, <1>0 DEF P!LoseDelivery, P!Recording
  <2>3. \A u \in Viewers : viewer[u].pc = "rearm" => viewer'[u].pc = "rearm"
    BY <1>14, <1>0 DEF P!LoseDelivery
  <2> QED BY <1>0, <2>1, <2>2, <2>3, StillFramed
<1>15. CASE P!Tell
  <2>1. /\ held' = held /\ stored' = stored /\ clock' \in {clock, clock + 1}
        /\ forgets' = forgets /\ bounces' = bounces
        /\ crossed' = crossed /\ purging' = purging /\ rows' = rows
    BY <1>15 DEF P!Tell
  <2>2. P!Recording' \subseteq P!Recording
    BY <1>15, <1>0 DEF P!Tell, P!Recording
  <2>3. \A u \in Viewers : viewer[u].pc = "rearm" => viewer'[u].pc = "rearm"
    BY <1>15, <1>0 DEF P!Tell
  <2> QED BY <1>0, <2>1, <2>2, <2>3, StillFramed
<1>16. CASE P!Captured
  <2>1. /\ held' = held /\ stored' = stored /\ clock' \in {clock, clock + 1}
        /\ forgets' = forgets /\ bounces' = bounces
        /\ crossed' = crossed /\ purging' = purging /\ rows' = rows
    BY <1>16 DEF P!Captured
  <2>2. P!Recording' \subseteq P!Recording
    BY <1>16, <1>0 DEF P!Captured, P!Recording
  <2>3. \A u \in Viewers : viewer[u].pc = "rearm" => viewer'[u].pc = "rearm"
    BY <1>16, <1>0 DEF P!Captured
  <2> QED BY <1>0, <2>1, <2>2, <2>3, StillFramed
<1>17. CASE P!Ignored
  <2>1. /\ held' = held /\ stored' = stored /\ clock' \in {clock, clock + 1}
        /\ forgets' = forgets /\ bounces' = bounces
        /\ crossed' = crossed /\ purging' = purging /\ rows' = rows
    BY <1>17 DEF P!Ignored
  <2>2. P!Recording' \subseteq P!Recording
    BY <1>17, <1>0 DEF P!Ignored, P!Recording
  <2>3. \A u \in Viewers : viewer[u].pc = "rearm" => viewer'[u].pc = "rearm"
    BY <1>17, <1>0 DEF P!Ignored
  <2> QED BY <1>0, <2>1, <2>2, <2>3, StillFramed
<1>18. CASE P!Prune
  <2>1. PICK e \in held : P!Expired(e)
    BY <1>18 DEF P!Prune
  <2>2. e = stored /\ held = {e}
    BY <1>0, <2>1 DEF FrameInv, Frames
  <2>3. /\ held' = {} /\ stored' = stored /\ clock' = clock /\ purging' = purging
        /\ bounces' = bounces /\ forgets' = forgets /\ crossed' = crossed
    BY <1>18, <2>1, <2>2 DEF P!Prune
  <2>4. Late'
    BY <2>1, <2>2, <2>3 DEF P!Expired, Late
  <2> QED BY <1>0, <2>3, <2>4 DEF FrameInv, Framed
<1>19. CASE P!Forget
  BY <1>19, <1>0 DEF P!Forget, FrameInv
<1>20. CASE P!Purge
  BY <1>20, <1>0 DEF P!Purge, FrameInv
<1>21. CASE P!Register
  <2>1. /\ held' = held /\ stored' = stored /\ clock' \in {clock, clock + 1}
        /\ forgets' = forgets /\ bounces' = bounces
        /\ crossed' = crossed /\ purging' = purging /\ rows' = rows
    BY <1>21 DEF P!Register
  <2>2. P!Recording' \subseteq P!Recording
    BY <1>21, <1>0 DEF P!Register, P!Recording
  <2>3. \A u \in Viewers : viewer[u].pc = "rearm" => viewer'[u].pc = "rearm"
    BY <1>21, <1>0 DEF P!Register
  <2> QED BY <1>0, <2>1, <2>2, <2>3, StillFramed
<1>22. CASE P!Restart
  BY <1>22, <1>0 DEF P!Restart, FrameInv
<1>23. CASE P!Tick
  <2>1. /\ held' = held /\ stored' = stored /\ clock' \in {clock, clock + 1}
        /\ forgets' = forgets /\ bounces' = bounces
        /\ crossed' = crossed /\ purging' = purging /\ rows' = rows
    BY <1>23 DEF P!Tick
  <2>2. P!Recording' \subseteq P!Recording
    BY <1>23, <1>0 DEF P!Tick, P!Recording
  <2>3. \A u \in Viewers : viewer[u].pc = "rearm" => viewer'[u].pc = "rearm"
    BY <1>23, <1>0 DEF P!Tick
  <2> QED BY <1>0, <2>1, <2>2, <2>3, StillFramed
<1>24. CASE UNCHANGED P!vars
  <2>1. /\ held' = held /\ stored' = stored /\ clock' \in {clock, clock + 1}
        /\ forgets' = forgets /\ bounces' = bounces
        /\ crossed' = crossed /\ purging' = purging /\ rows' = rows
    BY <1>24 DEF P!vars
  <2>2. P!Recording' \subseteq P!Recording
    BY <1>24, <1>0 DEF P!vars, P!Recording
  <2>3. \A u \in Viewers : viewer[u].pc = "rearm" => viewer'[u].pc = "rearm"
    BY <1>24, <1>0 DEF P!vars
  <2> QED BY <1>0, <2>1, <2>2, <2>3, StillFramed
<1> QED
  BY <1>1, <1>2, <1>3, <1>4, <1>5, <1>6, <1>7, <1>8, <1>9, <1>10, <1>11, <1>12, <1>13,
     <1>14, <1>15, <1>16, <1>17, <1>18, <1>19, <1>20, <1>21, <1>22, <1>23, <1>24
     DEF P!Next, P!Serve

(* The composition leaves the pane output alone or takes one of its steps.   *)
LEMMA OutputKept == OutputInv /\ [MCNext]_<<vars, output, part>> => OutputInv'
<1> SUFFICES ASSUME OutputInv, [MCNext]_<<vars, output, part>> PROVE OutputInv'
  OBVIOUS
<1>1. [P!Next]_P!vars
  BY DEF MCNext, output, P!vars
<1> QED BY <1>1, TypesKept, FewKept, FrameKept, WindowHeld DEF OutputInv, Few

LEMMA OutputAlways == MCSpec => []OutputInv
<1>1. MCInit => OutputInv
  BY OutputStarts DEF MCInit
<1> QED BY <1>1, OutputKept, PTL DEF MCSpec

(* The request table never grows beyond the drawers that first asked at the  *)
(* same time, whatever they do afterwards (services/output/src/service.ts).  *)
THEOREM TableBounded == MCSpec => []RowsBounded
<1>1. OutputInv => RowsBounded
  <2> SUFFICES ASSUME OutputInv PROVE RowsBounded
    OBVIOUS
  <2>1. P!TypeOK
    BY DEF OutputInv, OutputTyped, Scalars, Stores, Frames, P!TypeOK
  <2>2. P!RowsBounded
    BY Counts DEF OutputInv, Few, Creating, P!RowsBounded
  <2> QED BY <2>1, <2>2 DEF RowsBounded
<1> QED BY <1>1, OutputAlways, PTL

(* What the table calls fulfilled has its frame in memory until the frame's  *)
(* retention is over, unless a request crossed a delivery or the process or  *)
(* the machine was lost.                                                     *)
THEOREM FrameServed == MCSpec => []FulfilledHasFrame
<1>1. OutputInv => FulfilledHasFrame
  BY DEF OutputInv, OutputTyped, Scalars, FrameInv, Framed, Late, FulfilledHasFrame, P!FulfilledHasFrame
<1> QED BY <1>1, OutputAlways, PTL

(* No automatic request of a free account is let through later than Window   *)
(* after the last human gesture, for any number of drawers.                  *)
THEOREM WindowEnforced == MCSpec => AutoWithinWindow
<1>1. OutputInv /\ [MCNext]_<<vars, output, part>> =>
         [\A v \in Viewers : viewer[v].pc = "gap" /\ viewer'[v].pc = "asked" =>
             Pro \/ bounces > 0 \/ clock - gesture <= Window]_P!vars
  <2> SUFFICES ASSUME OutputInv, [MCNext]_<<vars, output, part>>,
                      NEW v \in Viewers, viewer[v].pc = "gap", viewer'[v].pc = "asked"
               PROVE  Pro \/ bounces > 0 \/ clock - gesture <= Window
    OBVIOUS
  <2>1. viewer \in [Viewers -> P!Viewer] /\ gesture \in Nat /\ bounces \in Nat
    BY Bounds DEF OutputInv, OutputTyped, Scalars, Stores
  <2>2. bounces = 0 => start = gesture
    BY DEF OutputInv, WindowInv
  <2>3. P!Auto(v)
    <3>1. P!Next
      BY DEF MCNext, output
    <3>2. viewer' # viewer
      BY <2>1
    <3>3. ASSUME NEW u \in Viewers, P!Open(u) \/ P!Fail(u) PROVE FALSE
      <4>1. CASE P!Open(u)
        <5>1. viewer[u].pc # "gap" /\ viewer' = [viewer EXCEPT ![u].pc = "asked"]
          BY <4>1 DEF P!Open, P!Go
        <5> QED BY <2>1, <5>1
      <4>2. CASE P!Fail(u)
        BY <2>1, <4>2 DEF P!Fail, P!Go
      <4> QED BY <3>3, <4>1, <4>2
    <3>4. ASSUME NEW u \in Viewers, P!Serve(u) PROVE FALSE
      <4>1. ~P!Owns(u) /\ ~P!Create(u) /\ ~P!ReadRow(u) /\ ~P!ReadStore(u)
        BY <2>1 DEF P!Owns, P!Create, P!ReadRow, P!ReadStore, P!Go
      <4>2. ~P!Drop(u) /\ ~P!Rearm(u)
        BY <2>1 DEF P!Drop, P!Rearm
      <4> QED BY <3>4, <4>1, <4>2 DEF P!Serve
    <3>5. ~P!Restart
      BY <2>1 DEF P!Restart
    <3>6. ASSUME NEW d \in Slots, P!Check(d) \/ P!Put(d) \/ P!Fulfil(d) \/ P!FulfilFails(d) \/ P!LoseDelivery(d)
          PROVE FALSE
      BY <3>2, <3>6 DEF P!Check, P!Put, P!Fulfil, P!FulfilFails, P!LoseDelivery
    <3>7. ~(P!Tell \/ P!Captured \/ P!Ignored \/ P!Prune \/ P!Forget \/ P!Purge \/ P!Register \/ P!Tick)
      BY <3>2 DEF P!Tell, P!Captured, P!Ignored, P!Prune, P!Forget, P!Purge, P!Register, P!Tick
    <3>8. PICK u \in Viewers : P!Auto(u)
      BY <3>1, <3>3, <3>4, <3>5, <3>6, <3>7 DEF P!Next
    <3> QED BY <2>1, <3>8 DEF P!Auto, P!Go
  <2>4. P!Allowed
    BY <2>1, <2>3 DEF P!Auto, P!Go
  <2> QED BY <2>1, <2>2, <2>4 DEF P!Allowed, P!Missing
<1> QED BY <1>1, OutputAlways, PTL DEF MCSpec, AutoWithinWindow, P!AutoWithinWindow
=============================================================================
