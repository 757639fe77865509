------------------------------ MODULE Delivery ------------------------------
(***************************************************************************)
(* The durable notification queue: the NotificationDelivery table, the     *)
(* dispatcher's sweeps (web push, and chat over the bot hub), the prune,   *)
(* the hub's connections and the bots.  One clock unit is the sweep        *)
(* period.  A sweep reads its batch once and then awaits per row, so       *)
(* everything else happens between its steps.                              *)
(***************************************************************************)
EXTENDS Integers, Sequences, FiniteSets

CONSTANTS
    Deliveries,    \* the rows that may be created, by deliveryId
    Channel,       \* [Deliveries -> channel]
    Platforms,     \* chat channels; the other one is web push
    Recipient,     \* [Deliveries -> recipientRef]
    NoDelivery,    \* not a member of Deliveries
    Workers,       \* sweep activations that may be in flight
    MaxAttempts, Batch, Redeliver, Retention,  \* the constants of the code
    IdleCutoff,    \* clock units the hub keeps a dead connection registered
    MaxTime, MaxCrashes, MaxDrops, MaxOverlaps \* bounds

Never == -1
ChatRows == {d \in Deliveries : Channel[d] \in Platforms}
PushRows == Deliveries \ ChatRows
RowsOf(kind) == IF kind = "push" THEN PushRows ELSE ChatRows

ASSUME DeliveryAssumption ==
    /\ NoDelivery \notin Deliveries
    /\ {MaxAttempts, Batch, Redeliver, Retention, IdleCutoff} \subseteq Nat
    /\ MaxAttempts > 0 /\ Batch > 0
    /\ {MaxTime, MaxCrashes, MaxDrops, MaxOverlaps} \subseteq Nat

VARIABLES
    clock,
    due,       \* the kinds of sweep whose timer has fired
    row,       \* the NotificationDelivery table
    subs,      \* the PushSubscription table
    sweep,     \* [Workers -> the state of a sweep]
    cutoff,    \* the prune between its statements: its cutoff, or Never
    live,      \* the platforms with a working bot connection
    stale,     \* [Platforms -> clock units left of a dead registered connection]
    down,      \* [Platforms -> frames on their way to the bot]
    dm,        \* [Platforms -> the result of the DM the bot is about to report]
    acks,      \* delivery_results on their way to the hub
    received,  \* how often the recipient has been notified
    sends,     \* how often the row has been handed to its channel
    overlaps,  \* how often a sweep has picked the row while another had it
    crashes, drops

backend == <<due, sweep, cutoff>>
bots == <<live, stale, down, dm, acks, drops>>
vars == <<clock, due, row, subs, sweep, cutoff, live, stale, down, dm, acks,
          received, sends, overlaps, crashes, drops>>

Statuses == {"none", "pending", "delivered", "failed", "expired", "deleted"}
Row == [status : Statuses, attempts : Nat, at : Nat \cup {Never}, born : Nat]
Result == [d : Deliveries, ok : BOOLEAN]
NoResult == [d |-> NoDelivery, ok |-> FALSE]
SweepState == [pc : {"idle", "each", "send", "drop", "record"}, kind : {"push", "chat"},
               now : Nat, todo : SUBSET Deliveries, att : [Deliveries -> Nat],
               cur : Deliveries \cup {NoDelivery}, out : {"", "ok", "gone", "error"}]
Idle == [pc |-> "idle", kind |-> "push", now |-> 0, todo |-> {},
         att |-> [d \in Deliveries |-> 0], cur |-> NoDelivery, out |-> ""]

TypeOK ==
    /\ clock \in 0..MaxTime
    /\ due \subseteq {"push", "chat"}
    /\ row \in [Deliveries -> Row]
    /\ subs \subseteq {Recipient[d] : d \in Deliveries}
    /\ sweep \in [Workers -> SweepState]
    /\ cutoff \in Int
    /\ live \subseteq Platforms
    /\ stale \in [Platforms -> 0..IdleCutoff]
    /\ down \in [Platforms -> Seq(Deliveries)]
    /\ dm \in [Platforms -> Result \cup {NoResult}]
    /\ acks \subseteq Result
    /\ received \in [Deliveries -> Nat] /\ sends \in [Deliveries -> Nat]
    /\ overlaps \in [Deliveries -> 0..MaxOverlaps]
    /\ crashes \in 0..MaxCrashes /\ drops \in 0..MaxDrops

Init ==
    /\ clock = 0 /\ due = {} /\ cutoff = Never
    /\ row = [d \in Deliveries |-> [status |-> "none", attempts |-> 0, at |-> Never, born |-> 0]]
    /\ subs = {Recipient[d] : d \in PushRows}
    /\ sweep = [w \in Workers |-> Idle]
    /\ live = {} /\ stale = [p \in Platforms |-> 0]
    /\ down = [p \in Platforms |-> <<>>]
    /\ dm = [p \in Platforms |-> NoResult] /\ acks = {}
    /\ received = [d \in Deliveries |-> 0] /\ sends = [d \in Deliveries |-> 0]
    /\ overlaps = [d \in Deliveries |-> 0] /\ crashes = 0 /\ drops = 0

Registered(p) == p \in live \/ stale[p] > 0
Set(w, s) == sweep' = [sweep EXCEPT ![w] = s]
(* the sweep's state when it is done with the current row *)
Rest(s, todo) == IF todo = {} THEN Idle
                 ELSE [s EXCEPT !.pc = "each", !.todo = todo, !.cur = NoDelivery, !.out = ""]
-----------------------------------------------------------------------------
(* createForFired: a pending row per device and linked chat channel *)
Enqueue(d) ==
    /\ row[d].status = "none" /\ clock + Retention + 1 < MaxTime
    /\ d \in PushRows => Recipient[d] \in subs
    /\ row' = [row EXCEPT ![d].status = "pending", ![d].born = clock]
    /\ UNCHANGED <<clock, backend, subs, bots, received, sends, crashes, overlaps>>

(* mutated form: the ack window is not waited for *)
EligibleAtOnce(kind) ==
    {d \in RowsOf(kind) : row[d].status = "pending" /\ row[d].attempts < MaxAttempts}

(* the findMany of dispatchPending and of dispatchBotDeliveries *)
Eligible(kind) ==
    {d \in RowsOf(kind) :
        /\ row[d].status = "pending" /\ row[d].attempts < MaxAttempts
        /\ kind = "chat" => row[d].at = Never \/ clock - row[d].at > Redeliver}
(* orderBy createdAt, take BATCH *)
IsBatch(B, E) ==
    /\ Cardinality(B) <= Batch
    /\ B # E => Cardinality(B) = Batch
    /\ \A b \in B, e \in E \ B : row[b].born <= row[e].born

(* the rows of a batch that another sweep has in hand still *)
InHand(B) == {d \in B : \E v \in Workers : d \in sweep[v].todo}

(* setInterval starts a sweep whether or not the one before has ended *)
StartSweep(w, kind) ==
    /\ kind \in due /\ due' = due \ {kind}
    /\ sweep[w].pc = "idle"
    /\ \E B \in SUBSET Eligible(kind) :
         /\ IsBatch(B, Eligible(kind))
         /\ \A d \in InHand(B) : overlaps[d] < MaxOverlaps
         /\ overlaps' = [d \in Deliveries |-> IF d \in InHand(B) THEN overlaps[d] + 1 ELSE overlaps[d]]
         /\ Set(w, Rest([Idle EXCEPT !.kind = kind, !.now = clock,
                                     !.att = [d \in Deliveries |-> row[d].attempts]], B))
    /\ UNCHANGED <<clock, row, subs, cutoff, bots, received, sends, crashes>>

(* web push: the subscription is looked up ... *)
PickPush(w, d) ==
    /\ sweep[w].pc = "each" /\ sweep[w].kind = "push" /\ d \in sweep[w].todo
    /\ IF Recipient[d] \in subs
       THEN Set(w, [sweep[w] EXCEPT !.pc = "send", !.cur = d])
       ELSE Set(w, [sweep[w] EXCEPT !.pc = "record", !.cur = d, !.out = "gone"])
    /\ UNCHANGED <<clock, due, row, subs, cutoff, bots, received, sends, crashes, overlaps>>

(* ... and the push service answers: accepted, 404/410, or an error, which   *)
(* does not tell whether the message got through.                            *)
SendPush(w, out, reached) ==
    LET d == sweep[w].cur IN
    /\ sweep[w].pc = "send" /\ sweep[w].kind = "push"
    /\ out = "ok" => reached
    /\ out = "gone" => ~reached
    /\ received' = [received EXCEPT ![d] = IF reached THEN @ + 1 ELSE @]
    /\ sends' = [sends EXCEPT ![d] = @ + 1]
    /\ Set(w, [sweep[w] EXCEPT !.pc = IF out = "gone" THEN "drop" ELSE "record", !.out = out])
    /\ UNCHANGED <<clock, due, row, subs, cutoff, bots, crashes, overlaps>>

(* the dead subscription is deleted before the row is failed *)
DropSub(w) ==
    /\ sweep[w].pc = "drop"
    /\ subs' = subs \ {Recipient[sweep[w].cur]}
    /\ Set(w, [sweep[w] EXCEPT !.pc = "record"])
    /\ UNCHANGED <<clock, due, row, cutoff, bots, received, sends, crashes, overlaps>>

(* chat: is a bot registered for the platform? *)
PickChat(w, d) ==
    /\ sweep[w].pc = "each" /\ sweep[w].kind = "chat" /\ d \in sweep[w].todo
    /\ IF Registered(Channel[d])
       THEN Set(w, [sweep[w] EXCEPT !.pc = "send", !.cur = d])
       ELSE Set(w, Rest(sweep[w], sweep[w].todo \ {d}))
    /\ UNCHANGED <<clock, due, row, subs, cutoff, bots, received, sends, crashes, overlaps>>

(* hub.deliver hands the frame to the connection registered first: a dead    *)
(* one swallows it.                                                          *)
HubDeliver(w) ==
    LET d == sweep[w].cur
        p == Channel[d]
    IN
    /\ sweep[w].pc = "send" /\ sweep[w].kind = "chat"
    /\ IF Registered(p)
       THEN /\ sends' = [sends EXCEPT ![d] = @ + 1]
            /\ down' = IF stale[p] > 0 THEN down ELSE [down EXCEPT ![p] = Append(@, d)]
            /\ Set(w, [sweep[w] EXCEPT !.pc = "record"])
       ELSE /\ Set(w, Rest(sweep[w], sweep[w].todo \ {d}))
            /\ UNCHANGED <<sends, down>>
    /\ UNCHANGED <<clock, due, row, subs, cutoff, live, stale, dm, acks, drops, received, crashes, overlaps>>

(* mutated forms: a dispatch counts as a delivery; the status of the batch   *)
(* is written back.                                                          *)
OutcomeOnDispatch(s, status) == IF s.out \in {"", "ok"} THEN "delivered" ELSE "failed"
OutcomeBlind(s, status) ==
    IF s.kind = "chat" THEN "pending" ELSE IF s.out = "ok" THEN "delivered" ELSE "failed"

(* The row's update, by id and from the attempts read with the batch; a      *)
(* deleted row is an error that ends the whole sweep.                        *)
Outcome(s, status) ==
    IF s.kind = "chat" THEN status
    ELSE IF s.out = "ok" THEN "delivered"
    ELSE IF s.out = "gone" \/ s.att[s.cur] + 1 >= MaxAttempts THEN "failed" ELSE "pending"

(* mutated form: the attempt is not counted *)
RecordedUncounted(s, r) == [r EXCEPT !.status = Outcome(s, r.status), !.at = s.now]
Recorded(s, r) ==
    [r EXCEPT !.status = Outcome(s, r.status), !.attempts = s.att[s.cur] + 1, !.at = s.now]

Record(w) ==
    LET s == sweep[w]
        d == s.cur
    IN
    /\ s.pc = "record"
    /\ IF row[d].status = "deleted"
       THEN Set(w, Idle) /\ UNCHANGED row
       ELSE /\ row' = [row EXCEPT ![d] = Recorded(s, @)]
            /\ Set(w, Rest(s, s.todo \ {d}))
    /\ UNCHANGED <<clock, due, subs, cutoff, bots, received, sends, crashes, overlaps>>
-----------------------------------------------------------------------------
(* The bot: one frame at a time, DM and then report; a result is sent only   *)
(* over a connection that still works.                                       *)
BotDM(p, ok) ==
    /\ p \in live /\ dm[p] = NoResult /\ down[p] # <<>>
    /\ down' = [down EXCEPT ![p] = Tail(@)]
    /\ dm' = [dm EXCEPT ![p] = [d |-> Head(down[p]), ok |-> ok]]
    /\ received' = [received EXCEPT ![Head(down[p])] = IF ok THEN @ + 1 ELSE @]
    /\ UNCHANGED <<clock, backend, row, subs, live, stale, acks, sends, crashes, drops, overlaps>>

BotReport(p) ==
    /\ dm[p] # NoResult
    /\ dm' = [dm EXCEPT ![p] = NoResult]
    /\ acks' = IF p \in live THEN acks \cup {dm[p]} ELSE acks
    /\ UNCHANGED <<clock, backend, row, subs, live, stale, down, received, sends, crashes, drops, overlaps>>

(* hello: the bot dials in once its message loop is idle *)
Connect(p) ==
    /\ p \notin live /\ dm[p] = NoResult
    /\ live' = live \cup {p}
    /\ UNCHANGED <<clock, backend, row, subs, stale, down, dm, acks, received, sends, crashes, drops, overlaps>>

(* The connection breaks, or the bot restarts: frames and results on the way *)
(* are lost, and the hub may keep the dead connection for a while.           *)
Disconnect(p, left) ==
    /\ p \in live /\ drops < MaxDrops
    /\ live' = live \ {p} /\ drops' = drops + 1
    /\ stale' = [stale EXCEPT ![p] = IF left > @ THEN left ELSE @]
    /\ down' = [down EXCEPT ![p] = <<>>]
    /\ \E lost \in SUBSET {a \in acks : Channel[a.d] = p} : acks' = acks \ lost
    /\ UNCHANGED <<clock, backend, row, subs, dm, received, sends, crashes, overlaps>>

(* hub.handleMessage: a delivery_result settles the row, whatever its state *)
DeliveryResult(a) ==
    /\ a \in acks /\ acks' = acks \ {a}
    /\ row' = [row EXCEPT ![a.d].status =
                  IF @ = "deleted" THEN @ ELSE IF a.ok THEN "delivered" ELSE "failed"]
    /\ UNCHANGED <<clock, backend, subs, live, stale, down, dm, received, sends, crashes, drops, overlaps>>
-----------------------------------------------------------------------------
(* mutated form: only rows that were tried are given up *)
ExpiredIfTried(r, c) ==
    IF r.status = "pending" /\ r.born < c /\ r.attempts > 0 THEN [r EXCEPT !.status = "expired"] ELSE r
Expired(r, c) == IF r.status = "pending" /\ r.born < c THEN [r EXCEPT !.status = "expired"] ELSE r

(* pruneNotifications, a statement at a time *)
PruneExpire ==
    /\ cutoff = Never /\ clock > Retention
    /\ cutoff' = clock - Retention
    /\ row' = [d \in Deliveries |-> Expired(row[d], cutoff')]
    /\ UNCHANGED <<clock, due, subs, sweep, bots, received, sends, crashes, overlaps>>

PruneDelete ==
    /\ cutoff # Never /\ cutoff' = Never
    /\ row' = [d \in Deliveries |->
                 IF row[d].status \in {"delivered", "failed", "expired"} /\ row[d].born < cutoff
                 THEN [row[d] EXCEPT !.status = "deleted"] ELSE row[d]]
    /\ UNCHANGED <<clock, due, subs, sweep, bots, received, sends, crashes, overlaps>>

(* the user turns a device off *)
Unsubscribe ==
    /\ \E s \in subs : subs' = subs \ {s}
    /\ UNCHANGED <<clock, backend, row, bots, received, sends, crashes, overlaps>>

(* the backend restarts: the tables survive, connections and sweeps do not *)
Crash ==
    /\ crashes < MaxCrashes /\ crashes' = crashes + 1
    /\ due' = {} /\ cutoff' = Never /\ sweep' = [w \in Workers |-> Idle]
    /\ live' = {} /\ stale' = [p \in Platforms |-> 0]
    /\ down' = [p \in Platforms |-> <<>>] /\ acks' = {}
    /\ UNCHANGED <<clock, row, subs, dm, received, sends, drops, overlaps>>

(* the sweep timer fires; the hub's idle check drops dead connections *)
Tick ==
    /\ clock < MaxTime /\ clock' = clock + 1
    /\ due' = {"push", "chat"}
    /\ stale' = [p \in Platforms |-> IF stale[p] > 0 THEN stale[p] - 1 ELSE 0]
    /\ UNCHANGED <<row, subs, sweep, cutoff, live, down, dm, acks, received, sends, crashes, drops, overlaps>>
-----------------------------------------------------------------------------
PushAnswer(w) == \E out \in {"ok", "gone", "error"}, reached \in BOOLEAN : SendPush(w, out, reached)
Step(w) ==
    \/ \E d \in Deliveries : PickPush(w, d) \/ PickChat(w, d)
    \/ PushAnswer(w) \/ DropSub(w) \/ HubDeliver(w) \/ Record(w)
Bot(p) == (\E ok \in BOOLEAN : BotDM(p, ok)) \/ BotReport(p)

Next ==
    \/ \E d \in Deliveries : Enqueue(d)
    \/ \E w \in Workers : (\E kind \in {"push", "chat"} : StartSweep(w, kind)) \/ Step(w)
    \/ \E p \in Platforms :
         Bot(p) \/ Connect(p) \/ (\E left \in 0..IdleCutoff : Disconnect(p, left))
    \/ \E a \in acks : DeliveryResult(a)
    \/ PruneExpire \/ PruneDelete \/ Unsubscribe \/ Crash \/ Tick

Spec == Init /\ [][Next]_vars

(* Timers fire, statements and the push service answer; bots, devices and    *)
(* crashes do as they like.                                                  *)
Fairness ==
    /\ WF_vars(Tick) /\ WF_vars(PruneExpire) /\ WF_vars(PruneDelete)
    /\ \A w \in Workers : WF_vars(Step(w))
    /\ WF_vars(\E w \in Workers, kind \in {"push", "chat"} : StartSweep(w, kind))
-----------------------------------------------------------------------------
(* No false receipt: a row says delivered only if its recipient was notified *)
(* at least once, with sweeps overlapping, results late and rows revived.    *)
DeliveredWasReceived ==
    \A d \in Deliveries : row[d].status = "delivered" => received[d] > 0

(* MAX_ATTEMPTS bounds what is sent, not only what is counted.  A sweep       *)
(* writes back the attempts it read with its batch plus one, over whatever    *)
(* sweeps beside it have counted: still no row is sent more often than        *)
(* MaxAttempts times, plus once per backend restart (between the send and the *)
(* update) and once per sweep that picked it while another had it in hand.    *)
AttemptBudget == \A d \in Deliveries : sends[d] <= MaxAttempts + crashes + overlaps[d]

(* The table implements the queue that ADR-0009 promises, whatever sweeps    *)
(* overlap: what a sweep has in hand is what is left of its batch.           *)
Promise == INSTANCE Outbox WITH
    Sweeps <- Workers,
    Reported <- ChatRows,
    status <- [d \in Deliveries |-> row[d].status],
    received <- [d \in Deliveries |-> received[d] > 0],
    held <- [d \in Deliveries |-> {w \in Workers : d \in sweep[w].todo}]
QueueContract == Promise!Spec

(* Nothing is sent again without a cause.  A chat row is sent again only     *)
(* once the ack window of its last dispatch has lapsed, unless a restart made *)
(* the backend forget a dispatch; a push row that has been settled is not     *)
(* sent again.  Only a row that two sweeps had in hand is exempt.            *)
ResendNeedsCause ==
    [][\A d \in Deliveries : sends'[d] > sends[d] /\ overlaps[d] = 0 =>
          IF d \in ChatRows
          THEN sends[d] > 0 /\ crashes = 0 => row[d].at # Never /\ clock - row[d].at > Redeliver
          ELSE row[d].status \notin {"delivered", "failed"}]_vars

(* No row waits for ever: attempts run out, the bot answers, or the prune    *)
(* expires it, whatever bots and devices do.                                 *)
Settles == \A d \in Deliveries : row[d].status = "pending" ~> row[d].status # "pending"

(* "Bots can restart without missing messages" (ADR-0009): a pending row     *)
(* that never reached its user is still on its way, or will be sent again.   *)
NoneStranded ==
    \A d \in ChatRows : row[d].status = "pending" /\ received[d] = 0 =>
        \/ row[d].attempts < MaxAttempts
        \/ \E k \in 1..Len(down[Channel[d]]) : down[Channel[d]][k] = d
        \/ dm[Channel[d]].d = d
        \/ \E a \in acks : a.d = d
=============================================================================
