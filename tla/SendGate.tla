------------------------------ MODULE SendGate ------------------------------
(***************************************************************************)
(* The plugin's send gate (cadence.rs): which telemetry ticks POST a       *)
(* snapshot.  A tick is the plugin's one-second timer.  What it samples is *)
(* a signature: a structural part, which covers tree and attentions, and   *)
(* the panes' contents.  Control responses re-price and force the gate.    *)
(***************************************************************************)
EXTENDS Integers

CONSTANTS
    Structures, Contents, \* values of the two parts of a signature
    WithAttention,        \* the structures in which an attention is active
    OnsetDebounce, WatchedFloor, IdleFloor, Keepalive,
    HeartbeatDefault, HeartbeatMin, HeartbeatMax, \* all in ticks
    Intervals,            \* heartbeat intervals a backend may ask for
    MaxWall               \* bound on the ticks counted

ASSUME GateAssumption ==
    /\ WithAttention \subseteq Structures
    /\ {OnsetDebounce, WatchedFloor, IdleFloor, Keepalive} \subseteq Nat
    /\ {HeartbeatDefault, HeartbeatMin, HeartbeatMax} \subseteq Nat \ {0}
    /\ HeartbeatMin <= HeartbeatDefault /\ HeartbeatDefault <= HeartbeatMax
    /\ Intervals \subseteq Nat /\ MaxWall \in Nat

VARIABLES
    wall,   \* wall_tick
    sample, \* the signature of the last tick's snapshot
    since,  \* the tick at which its structure appeared (history)
    gate    \* SendGate: what was last sent and when, and what hurries it

gateVars == <<wall, sample, since, gate>>

Unpriced == -1  \* the interval of a response that names none
Prices == Intervals \cup {Unpriced}

Signature == [structure : Structures, content : Contents]
Gate == [sent : BOOLEAN, last : Signature, at : Nat, watched : BOOLEAN, force : BOOLEAN,
         heartbeat : HeartbeatMin..HeartbeatMax]

GateTypeOK ==
    /\ wall \in 0..MaxWall
    /\ sample \in Signature
    /\ since \in 0..MaxWall
    /\ gate \in Gate

GateInit ==
    /\ wall = 0
    /\ sample \in Signature
    /\ since = 0
    /\ gate = [sent |-> FALSE, last |-> sample, at |-> 0, watched |-> FALSE, force |-> FALSE,
               heartbeat |-> HeartbeatDefault]

(* set_heartbeat_secs; mutated form: the upper clamp is missing *)
ClampedBelow(secs) == IF secs < HeartbeatMin THEN HeartbeatMin ELSE secs
Clamped(secs) ==
    IF secs < HeartbeatMin THEN HeartbeatMin ELSE IF secs > HeartbeatMax THEN HeartbeatMax ELSE secs

(* set_watched and, if the response prices the gate, set_heartbeat_secs, and *)
(* force if it brings a new refresh                                          *)
Hurried(g, watched, secs, refresh) ==
    [g EXCEPT !.watched = watched,
              !.heartbeat = IF secs = Unpriced THEN @ ELSE Clamped(secs),
              !.force = @ \/ (watched /\ ~g.watched) \/ refresh]

(* decide_reason, reason by reason; mutated form: an onset waits for the     *)
(* floor like any other change                                               *)
Elapsed == wall' - gate.at
First == ~gate.sent
NotableAtFloor(sig) == gate.last.structure # sig.structure /\ Elapsed >= IdleFloor
Notable(sig) == gate.last.structure # sig.structure /\ Elapsed >= OnsetDebounce
Content(sig) ==
    gate.last # sig /\ Elapsed >= (IF gate.watched THEN WatchedFloor ELSE IdleFloor)
Alive(sig) == sig.structure \in WithAttention /\ Elapsed >= Keepalive
Heartbeat == Elapsed >= gate.heartbeat

Decide(sig) ==
    First \/ gate.force \/ Notable(sig) \/ Content(sig) \/ Alive(sig) \/ Heartbeat

(* record_sent *)
Sent(sig) == [gate EXCEPT !.sent = TRUE, !.last = sig, !.at = wall', !.force = FALSE]

(* one telemetry tick: sample, decide, POST *)
Tick(sig) ==
    /\ wall < MaxWall /\ wall' = wall + 1
    /\ sample' = sig
    /\ since' = IF sig.structure = sample.structure THEN since ELSE wall'
    /\ gate' = IF Decide(sig) THEN Sent(sig) ELSE gate

(* a control response *)
Hurry(watched, secs, refresh) ==
    /\ gate' = Hurried(gate, watched, secs, refresh)
    /\ UNCHANGED <<wall, sample, since>>

GateNext ==
    \/ \E sig \in Signature : Tick(sig)
    \/ \E watched, refresh \in BOOLEAN, secs \in Prices : Hurry(watched, secs, refresh)

GateSpec == GateInit /\ [][GateNext]_gateVars
-----------------------------------------------------------------------------
(* Bounded silence (ADR-0051): once the plugin has sent, it is never silent  *)
(* for longer than the longest heartbeat, however a backend prices it and    *)
(* whenever it changes the price.                                            *)
SilenceBounded == gate.sent => wall - gate.at < HeartbeatMax

(* An attention that starts or ends is on the wire within the debounce: no   *)
(* structure stays unsent for longer than that, whatever was sent just       *)
(* before it appeared, watched or not.                                       *)
OnsetPrompt ==
    gate.sent /\ gate.last.structure # sample.structure =>
        wall - since < OnsetDebounce - 1
=============================================================================
